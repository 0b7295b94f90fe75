------------------------ MODULE LoggerAdapterProofs ------------------------
(***************************************************************************)
(* Proofs about LoggerAdapter, for any number of threads and of events,    *)
(* any capacity of the queues and any number of changes of mode and of     *)
(* listener.                                                               *)
(*                                                                         *)
(* The argument.  What holds in every regime: the mutex is held by the one *)
(* dispatch that scans, or by change_mode.  In the synchronous regime each *)
(* event written is owed a dispatch by the thread that wrote it, and there *)
(* are never more events than threads that owe one; the dispatch that      *)
(* finds nothing pays too, because what it did not see was written behind  *)
(* its scan by threads that still owe.  In the asynchronous regime only    *)
(* the logger's thread dispatches, so the shared stream has one user and   *)
(* the cursor one too: a waiting queue's distance from the cursor and the  *)
(* number of events taken before it add up to no more than the queues.     *)
(***************************************************************************)
EXTENDS LoggerAdapter, ModArithmetic, FiniteSetTheorems, Functions

\* The distance of queue q from the cursor c, counted round a ring of n.
Distance(c, q, n) == IF q >= c THEN q - c ELSE q - c + n

\* The cursor reaches a queue after as many turns as the queue is away.
LEMMA ReachedInTurn ==
    ASSUME NEW n \in Positive, NEW c \in 0..(n - 1), NEW q \in 0..(n - 1)
    PROVE  /\ Distance(c, q, n) \in 0..(n - 1)
           /\ (c + Distance(c, q, n)) % n = q
<1>1. Distance(c, q, n) \in 0..(n - 1)
    BY DEF Distance, Positive
<1>2. CASE q >= c
    <2>1. c + Distance(c, q, n) = n * 0 + q
        BY <1>2 DEF Distance, Positive
    <2>2. c + Distance(c, q, n) \in Nat
        BY <1>1 DEF Positive
    <2>. QED BY <1>1, <2>1, <2>2, ModUnique
<1>3. CASE q < c
    <2>1. c + Distance(c, q, n) = n * 1 + q
        BY <1>3 DEF Distance, Positive
    <2>2. c + Distance(c, q, n) \in Nat
        BY <1>1 DEF Positive
    <2>. QED BY <1>1, <2>1, <2>2, ModUnique
<1>. QED BY <1>2, <1>3 DEF Positive

\* Where the cursor goes when it passes turn i of a ring that grew from n to k.
LEMMA Wraps ==
    ASSUME NEW n \in Positive, NEW k \in Positive, n <= k,
           NEW c \in 0..(n - 1), NEW i0 \in 0..(n - 1)
    PROVE  (c + i0 + 1) % k = IF c + i0 + 1 < k THEN c + i0 + 1 ELSE c + i0 + 1 - k
<1>1. c + i0 + 1 \in Nat
    BY DEF Positive
<1>2. CASE c + i0 + 1 < k
    <2>1. c + i0 + 1 = k * 0 + (c + i0 + 1) /\ c + i0 + 1 \in 0..(k - 1)
        BY <1>2 DEF Positive
    <2>. QED BY <1>1, <1>2, <2>1, ModUnique
<1>3. CASE ~ (c + i0 + 1 < k)
    <2>1. c + i0 + 1 = k * 1 + (c + i0 + 1 - k) /\ c + i0 + 1 - k \in 0..(k - 1)
        BY <1>3 DEF Positive
    <2>. QED BY <1>1, <1>3, <2>1, ModUnique
<1>. QED BY <1>2, <1>3

\* The step of the cursor past turn i, with a modulus that may have grown since the
\* scan: what was taken before queue q and what may still be stay within the ring.
LEMMA CursorStep ==
    ASSUME NEW n \in Positive, NEW k \in Positive, n <= k,
           NEW c \in 0..(n - 1), NEW i0 \in 0..(n - 1), NEW q \in 0..(n - 1),
           NEW a \in Nat, a + Distance(c, q, n) <= n,
           a = 0 \/ Distance(c, q, n) > i0
    PROVE  a + 1 + Distance((c + i0 + 1) % k, q, k) <= k
<1>. DEFINE d == IF c + i0 + 1 < k THEN c + i0 + 1 ELSE c + i0 + 1 - k
<1>1. (c + i0 + 1) % k = d
    BY Wraps
<1>2. d \in 0..(k - 1) /\ q \in 0..(k - 1)
    BY DEF Positive
<1>3. CASE a = 0
    BY <1>2, <1>3, <1>1 DEF Distance, Positive
<1>4. CASE Distance(c, q, n) > i0
    BY <1>1, <1>2, <1>4 DEF Distance, Positive
<1>. QED BY <1>3, <1>4
-----------------------------------------------------------------------------
(***************************************************************************)
(* What holds in every regime.                                             *)
(***************************************************************************)

\* Only a thread with a client has events, and none is read that was not written.
Known ==
    \A t \in Threads : /\ read[t] <= logged[t]
                       /\ logged[t] > 0 => t \in Registered

\* The mutex is held while the queues are scanned or the flags are set; the logger's
\* thread does neither log nor change the mode.
Held ==
    \A d \in Dispatchers :
        /\ mutex = d <=> pc[d] \in {"scan", "setmode"}
        /\ pc[d] = "setmode" => d = Main
        /\ pc[d] = "wrote" => d \in Threads

\* No queue is added while they are counted through.
InRange ==
    \A d \in Dispatchers : pc[d] \in {"scan", "setmode"} => i[d] <= Len(consumers)

\* There is a text in the stream when it is shown.
Serving ==
    \A d \in Dispatchers :
        /\ pc[d] = "notify" => sstream \in Events
        /\ pc[d] \in {"notify", "release"} => event[d] \in Events

\* No listener is notified that was never installed.
KnownListeners ==
    /\ unflushed \subseteq 0..listener
    /\ \A d \in Dispatchers : target[d] <= listener

IInv ==
    /\ TypeOK /\ Known /\ Held /\ InRange /\ Serving /\ KnownListeners
    /\ InstalledListenerIsFlushed

LEMMA Constants ==
    /\ MaxEvents \in Nat /\ MaxChanges \in Nat /\ MaxListeners \in Nat /\ QueueSize \in Nat
    /\ Main \in Threads /\ Main \in Dispatchers /\ Logger \in Dispatchers
    /\ Threads \subseteq Dispatchers /\ Logger \notin Threads
    /\ Dispatchers = Threads \cup {Logger}
    /\ Free \notin Dispatchers
BY LoggerAssumption DEF Dispatchers

LEMMA InitIInv == Init => IInv
<1>. SUFFICES ASSUME Init PROVE IInv
    OBVIOUS
<1>1. consumers \in Seq(Threads) /\ Len(consumers) = 1
    BY Constants DEF Init
<1>2. TypeOK
    BY <1>1, Constants DEF Init, TypeOK
<1>3. Known
    BY DEF Init, Known
<1>4. Held /\ InRange
    BY Constants DEF Init, Held, InRange
<1>5. Serving /\ KnownListeners /\ InstalledListenerIsFlushed
    BY Constants DEF Init, Serving, KnownListeners, InstalledListenerIsFlushed
<1>. QED BY <1>2, <1>3, <1>4, <1>5 DEF IInv

\* The list of queues, as its positions show it.
LEMMA Positions ==
    ASSUME TypeOK
    PROVE  /\ Len(consumers) \in Positive
           /\ m_cindex \in 0..(Len(consumers) - 1)
           /\ \A k \in 1..Len(consumers) : consumers[k] \in Threads
           /\ \A t : t \in Registered <=> \E q \in 0..(Len(consumers) - 1) : consumers[q + 1] = t
           /\ \A j \in Nat : InTurn(j) \in Registered /\ InTurn(j) \in Threads
<1>1. Len(consumers) \in Positive /\ m_cindex \in 0..(Len(consumers) - 1)
    BY DEF TypeOK, Positive
<1>2. \A k \in 1..Len(consumers) : consumers[k] \in Threads
    BY DEF TypeOK
<1>3. ASSUME NEW t
      PROVE  t \in Registered <=> \E q \in 0..(Len(consumers) - 1) : consumers[q + 1] = t
    <2>1. ASSUME NEW k \in 1..Len(consumers)
          PROVE  k - 1 \in 0..(Len(consumers) - 1) /\ (k - 1) + 1 = k
        BY <1>1 DEF Positive
    <2>2. ASSUME NEW q \in 0..(Len(consumers) - 1)
          PROVE  q + 1 \in 1..Len(consumers)
        BY <1>1 DEF Positive
    <2>. QED BY <2>1, <2>2 DEF Registered
<1>4. ASSUME NEW j \in Nat
      PROVE  InTurn(j) \in Registered /\ InTurn(j) \in Threads
    <2>1. (m_cindex + j) % Len(consumers) \in 0..(Len(consumers) - 1)
        <3>1. m_cindex + j \in Nat
            BY <1>1 DEF Positive
        <3>. QED BY <1>1, <3>1, DivMod
    <2>2. ((m_cindex + j) % Len(consumers)) + 1 \in 1..Len(consumers)
        BY <1>1, <2>1 DEF Positive
    <2>. QED BY <1>2, <2>2 DEF InTurn, Registered
<1>. QED BY <1>1, <1>2, <1>3, <1>4

\* A thread that registers is put at the end.
LEMMA Appended ==
    ASSUME TypeOK, NEW t \in Threads, Register(t)
    PROVE  /\ consumers' \in Seq(Threads)
           /\ Len(consumers') = Len(consumers) + 1
           /\ \A k \in 1..Len(consumers) : consumers'[k] = consumers[k]
           /\ consumers'[Len(consumers) + 1] = t
           /\ Registered' = Registered \cup {t}
<1>1. consumers' = Append(consumers, t) /\ consumers \in Seq(Threads)
    BY DEF Register, TypeOK
<1>2. /\ consumers' \in Seq(Threads)
      /\ Len(consumers') = Len(consumers) + 1
      /\ \A k \in 1..Len(consumers) : consumers'[k] = consumers[k]
      /\ consumers'[Len(consumers) + 1] = t
    BY <1>1
<1>3. Len(consumers) \in Nat
    BY <1>1
<1>4. Registered' = Registered \cup {t}
    BY <1>2, <1>3 DEF Registered
<1>. QED BY <1>2, <1>4
-----------------------------------------------------------------------------
(***************************************************************************)
(* The steps keep it.  The variables a step leaves alone are named in the  *)
(* groups of LoggerAdapter.                                                *)
(***************************************************************************)
USE DEF queueVars, sharedVars, threadVars, outputVars, Goto, Return

\* The kinds of steps.
OfThread(t) == Register(t) \/ Log(t) \/ ReadMode(t)
OfMain == ChangeMode \/ SetMode \/ ChangeModeDone \/ ReplaceListener
OfDispatch(d) ==
    \/ Lock(d) \/ ScanEmpty(d) \/ ScanFound(d) \/ ScanDone(d)
    \/ Notify(d) \/ Release(d) \/ Relock(d)

LEMMA Kinds ==
    ASSUME Next
    PROVE  \/ \E t \in Threads : OfThread(t)
           \/ OfMain
           \/ CallDispatch
           \/ \E d \in Dispatchers : OfDispatch(d)
BY DEF Next, Proceed, Dispatch, OfThread, OfMain, OfDispatch

\* What ScanFound finds.
LEMMA FoundIsEvent ==
    ASSUME IInv, NEW d \in Dispatchers, pc[d] = "scan", i[d] < Len(consumers),
           NEW t, t = Source(d), Waiting(t)
    PROVE  /\ t \in Registered /\ t \in Threads
           /\ read[t] \in Nat /\ read[t] < logged[t] /\ logged[t] <= MaxEvents
           /\ <<t, read[t]>> \in Events
<1>1. i[d] \in Nat
    BY DEF IInv, TypeOK
<1>2. t \in Registered /\ t \in Threads
    BY <1>1, Positions DEF Source, IInv
<1>3. read[t] \in Nat /\ logged[t] \in 0..MaxEvents /\ read[t] < logged[t]
    BY <1>2, Constants DEF IInv, TypeOK, Waiting
<1>. QED BY <1>2, <1>3, Constants DEF Events

Places == {"idle", "wrote", "setmode", "lock", "scan", "notify", "release", "relock"}

\* The types, as the proofs use them: what the functions are, variable by variable.
LEMMA Typed ==
    TypeOK <=>
        /\ regime \in Regimes /\ consumers \in Seq(Threads) /\ mode \in BOOLEAN
        /\ m_synch \in [Threads -> BOOLEAN]
        /\ logged \in [Threads -> 0..MaxEvents] /\ read \in [Threads -> 0..MaxEvents]
        /\ open \subseteq Events /\ mutex \in Dispatchers \cup {Free}
        /\ m_cindex \in 0..(Len(consumers) - 1) /\ sstream \in Events \cup {None}
        /\ listener \in 0..MaxListeners /\ unflushed \subseteq 0..MaxListeners
        /\ changes \in 0..MaxChanges
        /\ pc \in [Dispatchers -> Places] /\ i \in [Dispatchers -> Nat]
        /\ event \in [Dispatchers -> Events \cup {None}]
        /\ target \in [Dispatchers -> 0..MaxListeners]
        /\ shown \subseteq Events /\ passed \in [Threads -> Nat]
BY DEF TypeOK, Places

\* The locals of a call are well typed when it is over.
LEMMA ReturnTyped ==
    ASSUME TypeOK, NEW d \in Dispatchers, Return(d)
    PROVE  /\ pc' \in [Dispatchers -> Places] /\ i' \in [Dispatchers -> Nat]
           /\ event' \in [Dispatchers -> Events \cup {None}]
           /\ target' \in [Dispatchers -> 0..MaxListeners]
<1>1. /\ pc \in [Dispatchers -> Places] /\ i \in [Dispatchers -> Nat]
      /\ event \in [Dispatchers -> Events \cup {None}]
      /\ target \in [Dispatchers -> 0..MaxListeners]
    BY Typed
<1>2. 0 \in 0..MaxListeners /\ "idle" \in Places
    BY Constants DEF Places
<1>. QED BY <1>1, <1>2

\* A step to another place.
LEMMA GotoTyped ==
    ASSUME TypeOK, NEW d \in Dispatchers, NEW place \in Places, Goto(d, place)
    PROVE  pc' \in [Dispatchers -> Places]
BY Typed

LEMMA TypesOfThread ==
    ASSUME IInv, NEW t \in Threads, OfThread(t)
    PROVE  TypeOK'
<1>0. TypeOK
    BY DEF IInv
<1>1. CASE Register(t)
    <2>1. m_cindex' \in 0..(Len(consumers') - 1) /\ consumers' \in Seq(Threads)
        <3>1. consumers' \in Seq(Threads) /\ Len(consumers') = Len(consumers) + 1
            BY <1>0, <1>1, Appended
        <3>2. m_cindex \in 0..(Len(consumers) - 1) /\ Len(consumers) \in Nat /\ m_cindex' = m_cindex
            BY <1>0, <1>1, Positions DEF Register, Positive
        <3>. QED BY <3>1, <3>2
    <2>2. m_synch' \in [Threads -> BOOLEAN]
        BY <1>0, <1>1 DEF Register, TypeOK
    <2>. QED BY <1>0, <1>1, <2>1, <2>2 DEF Register, TypeOK
<1>2. CASE Log(t)
    <2>1. logged[t] \in 0..MaxEvents /\ logged[t] < MaxEvents
        BY <1>0, <1>2 DEF Log, TypeOK
    <2>2. logged[t] + 1 \in 0..MaxEvents
        BY <2>1, Constants
    <2>3. logged' \in [Threads -> 0..MaxEvents]
        BY <1>0, <1>2, <2>2 DEF Log, TypeOK
    <2>4. pc' \in [Dispatchers -> Places]
        BY <1>0, <1>2, GotoTyped, Constants DEF Log, Places
    <2>. QED BY <1>0, <1>2, <2>3, <2>4, Typed DEF Log, TypeOK, Places
<1>3. CASE ReadMode(t)
    <2>1. pc' \in [Dispatchers -> Places]
        BY <1>0, <1>3, GotoTyped, Constants DEF ReadMode, Places
    <2>. QED BY <1>0, <1>3, <2>1 DEF ReadMode, TypeOK, Places
<1>. QED BY <1>1, <1>2, <1>3 DEF OfThread

LEMMA TypesOfMain ==
    ASSUME IInv, OfMain \/ CallDispatch
    PROVE  TypeOK'
<1>0. TypeOK
    BY DEF IInv
<1>1. CASE ChangeMode
    <2>1. changes' \in 0..MaxChanges
        BY <1>0, <1>1, Constants DEF ChangeMode, TypeOK
    <2>2. pc' \in [Dispatchers -> Places]
        BY <1>0, <1>1, GotoTyped, Constants DEF ChangeMode, Places
    <2>3. i' \in [Dispatchers -> Nat] /\ mutex' \in Dispatchers \cup {Free} /\ mode' \in BOOLEAN
        BY <1>0, <1>1, Constants DEF ChangeMode, TypeOK
    <2>. QED BY <1>0, <1>1, <2>1, <2>2, <2>3 DEF ChangeMode, TypeOK, Places
<1>2. CASE SetMode
    <2>1. i[Main] \in Nat /\ consumers[i[Main] + 1] \in Threads
        <3>1. i[Main] \in Nat /\ i[Main] < Len(consumers) /\ Len(consumers) \in Nat
            BY <1>0, <1>2, Constants DEF SetMode, TypeOK
        <3>2. i[Main] + 1 \in 1..Len(consumers)
            BY <3>1
        <3>. QED BY <1>0, <3>1, <3>2, Positions
    <2>2. m_synch' \in [Threads -> BOOLEAN]
        BY <1>0, <1>2, <2>1 DEF SetMode, TypeOK
    <2>3. i' \in [Dispatchers -> Nat]
        <3>1. i' = [i EXCEPT ![Main] = @ + 1] /\ i \in [Dispatchers -> Nat]
            BY <1>0, <1>2 DEF SetMode, TypeOK
        <3>. QED BY <3>1, Constants
    <2>. QED BY <1>0, <1>2, <2>2, <2>3 DEF SetMode, TypeOK
<1>3. CASE ChangeModeDone
    <2>1. /\ pc' \in [Dispatchers -> Places] /\ i' \in [Dispatchers -> Nat]
          /\ event' \in [Dispatchers -> Events \cup {None}]
          /\ target' \in [Dispatchers -> 0..MaxListeners]
        BY <1>0, <1>3, ReturnTyped, Constants DEF ChangeModeDone
    <2>. QED BY <1>0, <1>3, <2>1 DEF ChangeModeDone, TypeOK, Places
<1>4. CASE ReplaceListener
    <2>1. listener' \in 0..MaxListeners
        BY <1>0, <1>4, Constants DEF ReplaceListener, TypeOK
    <2>. QED BY <1>0, <1>4, <2>1 DEF ReplaceListener, TypeOK
<1>5. CASE CallDispatch
    <2>1. pc' \in [Dispatchers -> Places]
        BY <1>0, <1>5, GotoTyped, Constants DEF CallDispatch, Places
    <2>. QED BY <1>0, <1>5, <2>1 DEF CallDispatch, TypeOK, Places
<1>. QED BY <1>1, <1>2, <1>3, <1>4, <1>5 DEF OfMain

LEMMA TypesOfDispatch ==
    ASSUME IInv, NEW d \in Dispatchers, OfDispatch(d)
    PROVE  TypeOK'
<1>0. TypeOK
    BY DEF IInv
<1>1. CASE Lock(d)
    <2>1. pc' \in [Dispatchers -> Places]
        BY <1>0, <1>1, GotoTyped DEF Lock, Places
    <2>2. i' \in [Dispatchers -> Nat]
        BY <1>0, <1>1 DEF Lock, TypeOK
    <2>. QED BY <1>0, <1>1, <2>1, <2>2 DEF Lock, TypeOK, Places
<1>2. CASE ScanEmpty(d)
    <2>1. i' \in [Dispatchers -> Nat]
        <3>1. i' = [i EXCEPT ![d] = @ + 1]
            BY <1>2 DEF ScanEmpty
        <3>2. i \in [Dispatchers -> Nat]
            BY <1>0 DEF TypeOK
        <3>. QED BY <3>1, <3>2
    <2>. QED BY <1>0, <1>2, <2>1 DEF ScanEmpty, TypeOK
<1>3. CASE ScanFound(d)
    <2>1. PICK t : t = Source(d)
        OBVIOUS
    <2>2. /\ t \in Threads /\ <<t, read[t]>> \in Events
          /\ read[t] \in Nat /\ read[t] < logged[t] /\ logged[t] <= MaxEvents
          /\ logged[t] \in Nat
        <3>1. pc[d] = "scan" /\ i[d] < Len(consumers) /\ Waiting(t)
            BY <1>3, <2>1 DEF ScanFound
        <3>2. /\ t \in Threads /\ <<t, read[t]>> \in Events
              /\ read[t] \in Nat /\ read[t] < logged[t] /\ logged[t] <= MaxEvents
            BY <2>1, <3>1, FoundIsEvent
        <3>3. logged[t] \in Nat
            BY <1>0, <3>2, Constants DEF TypeOK
        <3>. QED BY <3>2, <3>3
    <2>3. /\ read' = [read EXCEPT ![t] = @ + 1]
          /\ open' = open \cup {<<t, read[t]>>}
          /\ event' = [event EXCEPT ![d] = <<t, read[t]>>]
          /\ sstream' = <<t, read[t]>>
          /\ target' = [target EXCEPT ![d] = listener]
          /\ passed' = [u \in Threads |-> IF u = t \/ ~ Waiting(u) THEN 0 ELSE passed[u] + 1]
          /\ mutex' = Free /\ Goto(d, "notify")
          /\ UNCHANGED <<regime, m_synch, changes, logged, consumers, mode, m_cindex,
                         listener, i, unflushed, shown>>
        BY <1>3, <2>1 DEF ScanFound
    <2>4. read' \in [Threads -> 0..MaxEvents]
        <3>1. read[t] + 1 \in 0..MaxEvents
            BY <2>2, Constants
        <3>. QED BY <1>0, <2>3, <3>1 DEF TypeOK
    <2>5. open' \subseteq Events /\ sstream' \in Events
        BY <1>0, <2>2, <2>3 DEF TypeOK
    <2>6. event' \in [Dispatchers -> Events \cup {None}]
        BY <1>0, <2>2, <2>3 DEF TypeOK
    <2>7. passed' \in [Threads -> Nat]
        <3>1. ASSUME NEW u \in Threads
              PROVE  (IF u = t \/ ~ Waiting(u) THEN 0 ELSE passed[u] + 1) \in Nat
            BY <1>0 DEF TypeOK
        <3>. QED BY <2>3, <3>1
    <2>8. target' \in [Dispatchers -> 0..MaxListeners] /\ mutex' \in Dispatchers \cup {Free}
        BY <1>0, <2>3 DEF TypeOK
    <2>9. pc' \in [Dispatchers -> Places]
        BY <1>0, <2>3, GotoTyped DEF Places
    <2>. QED BY <1>0, <2>3, <2>4, <2>5, <2>6, <2>7, <2>8, <2>9 DEF TypeOK, Places
<1>4. CASE ScanDone(d)
    <2>1. /\ pc' \in [Dispatchers -> Places] /\ i' \in [Dispatchers -> Nat]
          /\ event' \in [Dispatchers -> Events \cup {None}]
          /\ target' \in [Dispatchers -> 0..MaxListeners]
        BY <1>0, <1>4, ReturnTyped DEF ScanDone
    <2>. QED BY <1>0, <1>4, <2>1 DEF ScanDone, TypeOK, Places
<1>5. CASE Notify(d)
    <2>1. sstream \in Events
        BY <1>5 DEF Notify, IInv, Serving
    <2>2. pc' \in [Dispatchers -> Places]
        BY <1>0, <1>5, GotoTyped DEF Notify, Places
    <2>3. unflushed' \subseteq 0..MaxListeners /\ shown' \subseteq Events
        BY <1>0, <1>5, <2>1 DEF Notify, TypeOK
    <2>. QED BY <1>0, <1>5, <2>2, <2>3 DEF Notify, TypeOK, Places
<1>6. CASE Release(d)
    <2>1. pc' \in [Dispatchers -> Places]
        BY <1>0, <1>6, GotoTyped DEF Release, Places
    <2>. QED BY <1>0, <1>6, <2>1 DEF Release, TypeOK, Places
<1>7. CASE Relock(d)
    <2>1. m_cindex' \in 0..(Len(consumers') - 1)
        <3>1. m_cindex \in Nat /\ i[d] \in Nat /\ Len(consumers) \in Positive
            BY <1>0, Positions DEF TypeOK, Positive
        <3>2. m_cindex + i[d] + 1 \in Nat
            BY <3>1
        <3>3. (m_cindex + i[d] + 1) % Len(consumers) \in 0..(Len(consumers) - 1)
            BY <3>1, <3>2, DivMod
        <3>. QED BY <1>7, <3>3 DEF Relock
    <2>2. unflushed' \subseteq 0..MaxListeners
        BY <1>0, <1>7 DEF Relock, TypeOK
    <2>3. /\ pc' \in [Dispatchers -> Places] /\ i' \in [Dispatchers -> Nat]
          /\ event' \in [Dispatchers -> Events \cup {None}]
          /\ target' \in [Dispatchers -> 0..MaxListeners]
        BY <1>0, <1>7, ReturnTyped DEF Relock
    <2>4. UNCHANGED <<regime, m_synch, changes, passed, logged, read, open, consumers, mode,
                      mutex, listener, sstream, shown>>
        BY <1>7 DEF Relock
    <2>. QED BY <1>0, <2>1, <2>2, <2>3, <2>4 DEF TypeOK, Places
<1>. QED BY <1>1, <1>2, <1>3, <1>4, <1>5, <1>6, <1>7 DEF OfDispatch

LEMMA KnownKept ==
    ASSUME IInv, Next
    PROVE  Known'
<1>. SUFFICES ASSUME NEW u \in Threads
              PROVE  /\ read'[u] <= logged'[u]
                     /\ logged'[u] > 0 => u \in Registered'
    BY DEF Known
<1>1. /\ read[u] \in Nat /\ logged[u] \in Nat /\ read[u] <= logged[u]
      /\ logged[u] > 0 => u \in Registered
    BY Constants DEF IInv, TypeOK, Known
<1>2. CASE \E t \in Threads : OfThread(t)
    <2>1. PICK t \in Threads : OfThread(t)
        BY <1>2
    <2>2. CASE Register(t)
        <3>1. Registered \subseteq Registered'
            BY <2>2, Appended DEF IInv
        <3>2. read'[u] = read[u] /\ logged'[u] = logged[u]
            BY <2>2 DEF Register
        <3>. QED BY <1>1, <3>1, <3>2
    <2>3. CASE Log(t)
        <3>1. t \in Registered /\ read'[u] = read[u] /\ Registered' = Registered
            BY <2>3 DEF Log, Registered
        <3>2. logged'[u] = logged[u] \/ (u = t /\ logged'[u] = logged[u] + 1)
            BY <2>3 DEF Log, IInv, TypeOK
        <3>. QED BY <1>1, <3>1, <3>2
    <2>4. CASE ReadMode(t)
        BY <1>1, <2>4 DEF ReadMode, Registered
    <2>. QED BY <2>1, <2>2, <2>3, <2>4 DEF OfThread
<1>3. CASE OfMain \/ CallDispatch
    BY <1>1, <1>3 DEF OfMain, ChangeMode, SetMode, ChangeModeDone, ReplaceListener,
                      CallDispatch, Registered
<1>4. CASE \E d \in Dispatchers : OfDispatch(d)
    <2>1. PICK d \in Dispatchers : OfDispatch(d)
        BY <1>4
    <2>2. CASE ScanFound(d)
        <3>1. PICK t : t = Source(d)
            OBVIOUS
        <3>2. t \in Threads /\ read[t] \in Nat /\ read[t] < logged[t]
            BY <2>2, <3>1, FoundIsEvent DEF ScanFound
        <3>3. read' = [read EXCEPT ![t] = @ + 1] /\ UNCHANGED <<logged, consumers>>
            BY <2>2, <3>1 DEF ScanFound
        <3>4. logged[t] \in Nat /\ read \in [Threads -> 0..MaxEvents]
            BY <3>2, Constants DEF IInv, TypeOK
        <3>. QED BY <1>1, <3>2, <3>3, <3>4 DEF Registered
    <2>3. CASE ~ ScanFound(d)
        BY <1>1, <2>1, <2>3 DEF OfDispatch, Lock, ScanEmpty, ScanDone, Notify, Release,
                                Relock, Registered
    <2>. QED BY <2>2, <2>3
<1>. QED BY <1>2, <1>3, <1>4, Kinds

LEMMA HeldKept ==
    ASSUME IInv, Next
    PROVE  Held'
<1>. SUFFICES ASSUME NEW e \in Dispatchers
              PROVE  /\ mutex' = e <=> pc'[e] \in {"scan", "setmode"}
                     /\ pc'[e] = "setmode" => e = Main
                     /\ pc'[e] = "wrote" => e \in Threads
    BY DEF Held
<1>1. /\ mutex = e <=> pc[e] \in {"scan", "setmode"}
      /\ pc[e] = "setmode" => e = Main
      /\ pc[e] = "wrote" => e \in Threads
      /\ pc \in [Dispatchers -> Places]
      /\ Free \notin Dispatchers /\ Main \in Dispatchers /\ Logger \in Dispatchers
    BY Constants, Typed DEF IInv, Held
<1>2. CASE \E t \in Threads : OfThread(t)
    <2>1. PICK t \in Threads : OfThread(t)
        BY <1>2
    <2>2. t \in Dispatchers
        BY <2>1, Constants
    <2>. QED BY <1>1, <2>1, <2>2 DEF OfThread, Register, Log, ReadMode
<1>3. CASE OfMain
    <2>1. \A d \in Dispatchers : mutex = d <=> pc[d] \in {"scan", "setmode"}
        BY DEF IInv, Held
    <2>. QED BY <1>1, <1>3, <2>1 DEF OfMain, ChangeMode, SetMode, ChangeModeDone, ReplaceListener
<1>4. CASE CallDispatch
    BY <1>1, <1>4 DEF CallDispatch
<1>5. CASE \E d \in Dispatchers : OfDispatch(d)
    <2>1. PICK d \in Dispatchers : OfDispatch(d)
        BY <1>5
    <2>2. mutex = d <=> pc[d] \in {"scan", "setmode"}
        BY DEF IInv, Held
    <2>3. CASE Lock(d)
        BY <1>1, <2>3 DEF Lock
    <2>4. CASE ScanEmpty(d)
        BY <1>1, <2>4 DEF ScanEmpty
    <2>5. CASE ScanFound(d)
        BY <1>1, <2>2, <2>5 DEF ScanFound
    <2>6. CASE ScanDone(d)
        BY <1>1, <2>2, <2>6 DEF ScanDone
    <2>7. CASE Notify(d) \/ Release(d) \/ Relock(d)
        BY <1>1, <2>2, <2>7 DEF Notify, Release, Relock
    <2>. QED BY <2>1, <2>3, <2>4, <2>5, <2>6, <2>7 DEF OfDispatch
<1>. QED BY <1>2, <1>3, <1>4, <1>5, Kinds

\* No two are under the mutex, and while one is, nobody registers.
LEMMA OneHolder ==
    ASSUME IInv, NEW d \in Dispatchers, pc[d] \in {"scan", "setmode"}
    PROVE  /\ mutex = d /\ mutex # Free
           /\ \A e \in Dispatchers : pc[e] \in {"scan", "setmode"} => e = d
BY Constants DEF IInv, Held

LEMMA InRangeKept ==
    ASSUME IInv, Next
    PROVE  InRange'
<1>. SUFFICES ASSUME NEW e \in Dispatchers, pc'[e] \in {"scan", "setmode"}
              PROVE  i'[e] <= Len(consumers')
    BY DEF InRange
<1>1. /\ pc[e] \in {"scan", "setmode"} => mutex # Free /\ i[e] <= Len(consumers)
      /\ pc \in [Dispatchers -> Places] /\ i \in [Dispatchers -> Nat]
      /\ Len(consumers) \in Nat
    BY OneHolder, Typed, Positions DEF IInv, InRange, Positive
<1>2. CASE \E t \in Threads : OfThread(t)
    <2>1. PICK t \in Threads : OfThread(t)
        BY <1>2
    <2>2. t \in Dispatchers
        BY <2>1, Constants
    <2>. QED BY <1>1, <2>1, <2>2 DEF OfThread, Register, Log, ReadMode
<1>3. CASE OfMain
    BY <1>1, <1>3, Constants DEF OfMain, ChangeMode, SetMode, ChangeModeDone, ReplaceListener
<1>4. CASE CallDispatch
    BY <1>1, <1>4, Constants DEF CallDispatch
<1>5. CASE \E d \in Dispatchers : OfDispatch(d)
    <2>1. PICK d \in Dispatchers : OfDispatch(d)
        BY <1>5
    <2>2. CASE Lock(d) \/ ScanEmpty(d)
        BY <1>1, <2>2 DEF Lock, ScanEmpty
    <2>3. CASE ScanFound(d) \/ ScanDone(d) \/ Notify(d) \/ Release(d) \/ Relock(d)
        <3>1. /\ e # d
              /\ UNCHANGED consumers
              /\ pc'[e] = pc[e] /\ i'[e] = i[e]
            BY <1>1, <2>3 DEF ScanFound, ScanDone, Notify, Release, Relock
        <3>. QED BY <1>1, <3>1
    <2>. QED BY <2>1, <2>2, <2>3 DEF OfDispatch
<1>. QED BY <1>2, <1>3, <1>4, <1>5, Kinds

LEMMA ServingKept ==
    ASSUME IInv, Next
    PROVE  Serving'
<1>. SUFFICES ASSUME NEW e \in Dispatchers
              PROVE  /\ pc'[e] = "notify" => sstream' \in Events
                     /\ pc'[e] \in {"notify", "release"} => event'[e] \in Events
    BY DEF Serving
<1>1. /\ pc[e] = "notify" => sstream \in Events
      /\ pc[e] \in {"notify", "release"} => event[e] \in Events
      /\ pc \in [Dispatchers -> Places]
      /\ event \in [Dispatchers -> Events \cup {None}]
    BY Typed DEF IInv, Serving
<1>2. CASE \E t \in Threads : OfThread(t)
    <2>1. PICK t \in Threads : OfThread(t)
        BY <1>2
    <2>2. t \in Dispatchers
        BY <2>1, Constants
    <2>. QED BY <1>1, <2>1, <2>2 DEF OfThread, Register, Log, ReadMode
<1>3. CASE OfMain \/ CallDispatch
    BY <1>1, <1>3, Constants DEF OfMain, ChangeMode, SetMode, ChangeModeDone, ReplaceListener,
                                 CallDispatch
<1>4. CASE \E d \in Dispatchers : OfDispatch(d)
    <2>1. PICK d \in Dispatchers : OfDispatch(d)
        BY <1>4
    <2>2. CASE ScanFound(d)
        <3>1. PICK t : t = Source(d)
            OBVIOUS
        <3>2. <<t, read[t]>> \in Events
            BY <2>2, <3>1, FoundIsEvent DEF ScanFound
        <3>3. /\ event' = [event EXCEPT ![d] = <<t, read[t]>>]
              /\ sstream' = <<t, read[t]>> /\ pc' = [pc EXCEPT ![d] = "notify"]
            BY <2>2, <3>1 DEF ScanFound
        <3>. QED BY <1>1, <3>2, <3>3
    <2>3. CASE Lock(d) \/ ScanEmpty(d) \/ ScanDone(d)
        BY <1>1, <2>3 DEF Lock, ScanEmpty, ScanDone
    <2>4. CASE Notify(d) \/ Release(d) \/ Relock(d)
        BY <1>1, <2>4 DEF Notify, Release, Relock
    <2>. QED BY <2>1, <2>2, <2>3, <2>4 DEF OfDispatch
<1>. QED BY <1>2, <1>3, <1>4, Kinds

LEMMA ListenersKept ==
    ASSUME IInv, Next
    PROVE  KnownListeners' /\ InstalledListenerIsFlushed'
<1>1. /\ unflushed \subseteq 0..listener
      /\ \A d \in Dispatchers : target[d] \in Nat /\ target[d] <= listener
      /\ listener \in Nat
      /\ target \in [Dispatchers -> 0..MaxListeners]
      /\ pc \in [Dispatchers -> Places]
    <2>1. /\ target \in [Dispatchers -> 0..MaxListeners] /\ listener \in 0..MaxListeners
          /\ pc \in [Dispatchers -> Places]
        BY Typed DEF IInv
    <2>2. /\ unflushed \subseteq 0..listener
          /\ \A d \in Dispatchers : target[d] <= listener
        BY DEF IInv, KnownListeners
    <2>. QED BY <2>1, <2>2, Constants
<1>2. listener \in unflushed => \E d \in Dispatchers : pc[d] \in {"release", "relock"}
    BY DEF IInv, InstalledListenerIsFlushed
<1>. SUFFICES /\ unflushed' \subseteq 0..listener'
              /\ \A e \in Dispatchers : target'[e] <= listener'
              /\ listener' \in unflushed' => \E e \in Dispatchers : pc'[e] \in {"release", "relock"}
    BY DEF KnownListeners, InstalledListenerIsFlushed
<1>3. CASE \E t \in Threads : OfThread(t)
    <2>1. PICK t \in Threads : OfThread(t)
        BY <1>3
    <2>2. UNCHANGED <<unflushed, listener, target>>
        BY <2>1 DEF OfThread, Register, Log, ReadMode
    <2>3. \A e \in Dispatchers : pc[e] \in {"release", "relock"} => pc'[e] = pc[e]
        <3>1. t \in Dispatchers
            BY <2>1, Constants
        <3>. QED BY <1>1, <2>1, <3>1 DEF OfThread, Register, Log, ReadMode
    <2>. QED BY <1>1, <1>2, <2>2, <2>3
<1>4. CASE ReplaceListener
    BY <1>1, <1>4 DEF ReplaceListener
<1>5. CASE ChangeMode \/ SetMode \/ ChangeModeDone \/ CallDispatch
    <2>1. UNCHANGED <<unflushed, listener>>
        BY <1>5 DEF ChangeMode, SetMode, ChangeModeDone, CallDispatch
    <2>2. \A e \in Dispatchers : target'[e] \in {target[e], 0}
        BY <1>1, <1>5 DEF ChangeMode, SetMode, ChangeModeDone, CallDispatch
    <2>3. \A e \in Dispatchers : pc[e] \in {"release", "relock"} => pc'[e] = pc[e]
        BY <1>1, <1>5 DEF ChangeMode, SetMode, ChangeModeDone, CallDispatch
    <2>. QED BY <1>1, <1>2, <2>1, <2>2, <2>3
<1>6. CASE \E d \in Dispatchers : OfDispatch(d)
    <2>1. PICK d \in Dispatchers : OfDispatch(d)
        BY <1>6
    <2>2. CASE Lock(d) \/ ScanEmpty(d) \/ ScanFound(d) \/ ScanDone(d)
        <3>1. UNCHANGED <<unflushed, listener>>
            BY <2>2 DEF Lock, ScanEmpty, ScanFound, ScanDone
        <3>2. \A e \in Dispatchers : target'[e] \in {target[e], 0, listener}
            BY <1>1, <2>2 DEF Lock, ScanEmpty, ScanFound, ScanDone
        <3>3. \A e \in Dispatchers : pc[e] \in {"release", "relock"} => pc'[e] = pc[e]
            BY <1>1, <2>2 DEF Lock, ScanEmpty, ScanFound, ScanDone
        <3>. QED BY <1>1, <1>2, <3>1, <3>2, <3>3
    <2>3. CASE Notify(d)
        <3>1. unflushed' = unflushed \cup {target[d]} /\ UNCHANGED <<listener, target>>
            BY <2>3 DEF Notify
        <3>2. pc'[d] = "release"
            BY <1>1, <2>3 DEF Notify
        <3>3. target[d] \in 0..listener
            BY <1>1
        <3>4. unflushed' \subseteq 0..listener'
            BY <1>1, <3>1, <3>3
        <3>. QED BY <1>1, <3>1, <3>2, <3>4
    <2>4. CASE Release(d)
        <3>1. UNCHANGED <<unflushed, listener, target>>
            BY <2>4 DEF Release
        <3>2. pc'[d] = "relock"
            BY <1>1, <2>4 DEF Release
        <3>. QED BY <1>1, <3>1, <3>2
    <2>5. CASE Relock(d)
        <3>1. unflushed' = unflushed \ {listener} /\ UNCHANGED listener
            BY <2>5 DEF Relock
        <3>2. \A e \in Dispatchers : target'[e] \in {target[e], 0}
            BY <1>1, <2>5 DEF Relock
        <3>. QED BY <1>1, <3>1, <3>2
    <2>. QED BY <2>1, <2>2, <2>3, <2>4, <2>5 DEF OfDispatch
<1>. QED BY <1>3, <1>4, <1>5, <1>6, Kinds DEF OfMain

LEMMA StutterIInv ==
    ASSUME IInv, UNCHANGED vars
    PROVE  IInv'
<1>1. TypeOK'
    BY DEF vars, IInv, TypeOK
<1>2. Known' /\ Held' /\ InRange'
    BY DEF vars, IInv, Known, Held, InRange, Registered
<1>3. Serving' /\ KnownListeners' /\ InstalledListenerIsFlushed'
    BY DEF vars, IInv, Serving, KnownListeners, InstalledListenerIsFlushed
<1>. QED BY <1>1, <1>2, <1>3 DEF IInv

\* The invariant of every regime.
THEOREM LoggerInductive == Spec => []IInv
<1>1. IInv /\ [Next]_vars => IInv'
    <2>. SUFFICES ASSUME IInv, [Next]_vars PROVE IInv'
        OBVIOUS
    <2>1. CASE Next
        <3>1. TypeOK'
            BY <2>1, Kinds, TypesOfThread, TypesOfMain, TypesOfDispatch
        <3>. QED BY <2>1, <3>1, KnownKept, HeldKept, InRangeKept, ServingKept, ListenersKept DEF IInv
    <2>. QED BY <2>1, StutterIInv
<1>. QED BY <1>1, InitIInv, PTL DEF Spec

\* The types of the logger's state hold always; in particular the cursor, which steps
\* with a modulus that may have grown since the scan, names a registered queue
\* (logger_adapter.cpp:178, 211-212).
THEOREM LoggerTypeCorrect == Spec => []TypeOK
<1>1. IInv => TypeOK
    BY DEF IInv
<1>. QED BY <1>1, LoggerInductive, PTL

\* In every regime and for any number of dispatches at a time: a notified listener
\* that is still installed will be flushed by a dispatch that is under way
\* (logger_adapter.cpp:185-209, 251-260).
THEOREM ListenerIsFlushed == Spec => []InstalledListenerIsFlushed
<1>1. IInv => InstalledListenerIsFlushed
    BY DEF IInv
<1>. QED BY <1>1, LoggerInductive, PTL
-----------------------------------------------------------------------------
(***************************************************************************)
(* The synchronous regime.                                                 *)
(***************************************************************************)

\* The events in the queues, and the threads that owe a dispatch.
Waits == {e \in Events : read[e[1]] <= e[2] /\ e[2] < logged[e[1]]}
Owing == {t \in Threads : pc[t] \in {"wrote", "lock", "scan"}}

\* What a scan did not see was written behind it, by threads that owe.
ScannedOwe ==
    \A d \in Threads : pc[d] = "scan" =>
        \A j \in 0..(i[d] - 1) : Waiting(InTurn(j)) =>
            /\ logged[InTurn(j)] = read[InTurn(j)] + 1
            /\ pc[InTurn(j)] \in {"wrote", "lock"}

AllSynch ==
    /\ mode /\ \A t \in Threads : m_synch[t]
    /\ pc[Logger] = "idle" /\ pc[Main] # "setmode"

Covered ==
    /\ IsFiniteSet(Waits) /\ IsFiniteSet(Owing)
    /\ Cardinality(Waits) <= Cardinality(Owing)

SynchInv == regime = "synch" => AllSynch /\ Covered /\ ScannedOwe
-----------------------------------------------------------------------------
(***************************************************************************)
(* The asynchronous regime.                                                *)
(***************************************************************************)

\* The mode changes once, before there are other queues; from then on every client
\* is asynchronous.
AllAsync ==
    /\ changes = 0 => /\ mode /\ consumers = <<Main>>
                      /\ \A t \in Threads : pc[t] = "idle"
    /\ changes > 0 => ~ mode
    /\ pc[Main] = "setmode" => /\ changes > 0 /\ consumers = <<Main>>
                               /\ i[Main] > 0 => ~ m_synch[Main]
                               /\ \A t \in Threads \ {Main} : pc[t] = "idle"
    /\ Started => \A t \in Registered : ~ m_synch[t]
    /\ \A t \in Threads : /\ pc[t] \in {"idle", "wrote", "setmode"}
                          /\ pc[t] = "wrote" => t \in Registered

\* The stream has one user.
OneUser ==
    /\ pc[Logger] = "notify" => sstream = event[Logger]
    /\ \A t \in Threads : \A n \in 0..(read[t] - 1) :
          \/ <<t, n>> \in shown
          \/ pc[Logger] = "notify" /\ event[Logger] = <<t, n>>

\* What has been taken before queue q, and what may still be with the cursor at c of
\* a ring of n, is no more than the ring.
Fair(c, n) ==
    \A q \in 0..(Len(consumers) - 1) : passed[consumers[q + 1]] + Distance(c, q, n) <= n

\* After an event was taken the cursor will be set with the number of queues there
\* are then.
InTheirTurn ==
    /\ \A t \in Threads : passed[t] > 0 => Waiting(t)
    /\ pc[Logger] = "scan" => \A j \in 0..(i[Logger] - 1) : passed[InTurn(j)] = 0
    /\ pc[Logger] \in {"idle", "lock", "scan"} => Fair(m_cindex, Len(consumers))
    /\ pc[Logger] \in {"notify", "release", "relock"} =>
          \A n \in Nat : n >= Len(consumers) => Fair((m_cindex + i[Logger] + 1) % n, n)

AsyncInv == regime = "async" => AllAsync /\ OneUser /\ InTheirTurn
-----------------------------------------------------------------------------
(***************************************************************************)
(* The synchronous regime leaves nothing.                                  *)
(***************************************************************************)
LEMMA InitSynch == Init => SynchInv
<1>. SUFFICES ASSUME Init PROVE SynchInv
    OBVIOUS
<1>1. AllSynch /\ ScannedOwe
    BY Constants DEF Init, AllSynch, ScannedOwe
<1>2. Owing = {}
    BY Constants DEF Init, Owing
<1>3. Waits = {}
    <2>1. ASSUME NEW e \in Events
          PROVE  ~ (read[e[1]] <= e[2] /\ e[2] < logged[e[1]])
        <3>1. e[1] \in Threads /\ e[2] \in Nat
            BY Constants DEF Events
        <3>2. logged[e[1]] = 0
            BY <3>1 DEF Init
        <3>. QED BY <3>1, <3>2
    <2>. QED BY <2>1 DEF Waits
<1>4. Covered
    BY <1>2, <1>3, FS_EmptySet DEF Covered
<1>. QED BY <1>1, <1>4 DEF SynchInv

LEMMA AllSynchKept ==
    ASSUME IInv, AllSynch, regime = "synch", Next
    PROVE  AllSynch'
<1>1. /\ pc \in [Dispatchers -> Places] /\ m_synch \in [Threads -> BOOLEAN]
      /\ Main \in Threads /\ Main \in Dispatchers /\ Logger \in Dispatchers /\ Logger \notin Threads
    BY Typed, Constants DEF IInv
<1>2. CASE \E t \in Threads : OfThread(t)
    <2>1. PICK t \in Threads : OfThread(t)
        BY <1>2
    <2>2. t \in Dispatchers /\ t # Logger
        BY <2>1, Constants
    <2>3. mode' = mode /\ \A u \in Threads : m_synch'[u] = m_synch[u] \/ m_synch'[u] = mode
        BY <1>1, <2>1 DEF OfThread, Register, Log, ReadMode
    <2>4. pc'[Logger] = "idle" /\ pc'[Main] # "setmode"
        BY <1>1, <2>1, <2>2 DEF OfThread, Register, Log, ReadMode, AllSynch
    <2>. QED BY <2>3, <2>4 DEF AllSynch
<1>3. CASE OfMain \/ CallDispatch
    <2>1. ReplaceListener
        BY <1>3 DEF OfMain, ChangeMode, SetMode, ChangeModeDone, CallDispatch, AllSynch
    <2>. QED BY <2>1 DEF ReplaceListener, AllSynch
<1>4. CASE \E d \in Dispatchers : OfDispatch(d)
    <2>1. PICK d \in Dispatchers : OfDispatch(d)
        BY <1>4
    <2>2. UNCHANGED <<mode, m_synch>>
        BY <2>1 DEF OfDispatch, Lock, ScanEmpty, ScanFound, ScanDone, Notify, Release, Relock
    <2>3. pc[d] # "idle" /\ (pc'[d] = pc[d] \/ pc'[d] \in {"scan", "notify", "idle", "release", "relock"})
        BY <1>1, <2>1 DEF OfDispatch, Lock, ScanEmpty, ScanFound, ScanDone, Notify, Release, Relock
    <2>4. \A e \in Dispatchers : e # d => pc'[e] = pc[e]
        BY <1>1, <2>1 DEF OfDispatch, Lock, ScanEmpty, ScanFound, ScanDone, Notify, Release, Relock
    <2>. QED BY <1>1, <2>2, <2>3, <2>4 DEF AllSynch
<1>. QED BY <1>2, <1>3, <1>4, Kinds

\* The event of a thread at an ordinal, and what writing and taking one does to the
\* set of those that wait.
LEMMA EventIsPair ==
    ASSUME NEW e \in Events
    PROVE  e = <<e[1], e[2]>> /\ e[1] \in Threads /\ e[2] \in 0..(MaxEvents - 1)
BY DEF Events

LEMMA Counts ==
    ASSUME IInv
    PROVE  /\ logged \in [Threads -> 0..MaxEvents] /\ read \in [Threads -> 0..MaxEvents]
           /\ MaxEvents \in Nat
           /\ \A t \in Threads : /\ logged[t] \in Nat /\ read[t] \in Nat
                                 /\ read[t] <= logged[t] /\ logged[t] <= MaxEvents
<1>1. /\ logged \in [Threads -> 0..MaxEvents] /\ read \in [Threads -> 0..MaxEvents]
      /\ MaxEvents \in Nat
    BY Typed, Constants DEF IInv
<1>2. \A t \in Threads : logged[t] \in 0..MaxEvents /\ read[t] \in 0..MaxEvents
    BY <1>1
<1>. QED BY <1>1, <1>2 DEF IInv, Known

LEMMA WrittenWaits ==
    ASSUME IInv, NEW t \in Threads, Log(t)
    PROVE  /\ <<t, logged[t]>> \notin Waits
           /\ Waits' = Waits \cup {<<t, logged[t]>>}
<1>1. /\ logged \in [Threads -> 0..MaxEvents] /\ read \in [Threads -> 0..MaxEvents]
      /\ logged[t] \in Nat /\ read[t] \in Nat /\ read[t] <= logged[t] /\ MaxEvents \in Nat
    BY Counts
<1>2. /\ logged' = [logged EXCEPT ![t] = @ + 1] /\ read' = read /\ logged[t] < MaxEvents
    BY DEF Log
<1>3. <<t, logged[t]>> \in Events
    BY <1>1, <1>2 DEF Events
<1>4. <<t, logged[t]>> \notin Waits
    BY <1>1 DEF Waits
<1>5. ASSUME NEW e \in Events
      PROVE  e \in Waits' <=> e \in Waits \/ e = <<t, logged[t]>>
    <2>1. e = <<e[1], e[2]>> /\ e[1] \in Threads /\ e[2] \in Nat
        BY <1>1, EventIsPair
    <2>2. CASE e[1] = t
        <3>1. e = <<t, logged[t]>> <=> e[2] = logged[t]
            BY <2>1, <2>2
        <3>2. logged'[t] = logged[t] + 1
            BY <1>1, <1>2
        <3>. QED BY <1>1, <1>2, <2>1, <2>2, <3>1, <3>2 DEF Waits
    <2>3. CASE e[1] # t
        <3>1. e # <<t, logged[t]>>
            BY <2>3
        <3>2. logged'[e[1]] = logged[e[1]]
            BY <1>1, <1>2, <2>1, <2>3
        <3>. QED BY <1>2, <3>1, <3>2 DEF Waits
    <2>. QED BY <2>2, <2>3
<1>6. Waits \subseteq Events /\ Waits' \subseteq Events
    BY DEF Waits
<1>. QED BY <1>3, <1>4, <1>5, <1>6

LEMMA TakenIsGone ==
    ASSUME IInv, NEW t \in Threads, read[t] < logged[t],
           read' = [read EXCEPT ![t] = @ + 1], logged' = logged
    PROVE  /\ <<t, read[t]>> \in Waits
           /\ Waits' = Waits \ {<<t, read[t]>>}
<1>1. /\ logged \in [Threads -> 0..MaxEvents] /\ read \in [Threads -> 0..MaxEvents]
      /\ logged[t] \in Nat /\ read[t] \in Nat /\ logged[t] <= MaxEvents /\ MaxEvents \in Nat
    BY Counts
<1>2. <<t, read[t]>> \in Waits
    BY <1>1 DEF Events, Waits
<1>3. ASSUME NEW e \in Events
      PROVE  e \in Waits' <=> e \in Waits /\ e # <<t, read[t]>>
    <2>1. e = <<e[1], e[2]>> /\ e[1] \in Threads /\ e[2] \in Nat
        BY <1>1, EventIsPair
    <2>2. CASE e[1] = t
        <3>1. e = <<t, read[t]>> <=> e[2] = read[t]
            BY <2>1, <2>2
        <3>2. read'[t] = read[t] + 1
            BY <1>1
        <3>. QED BY <1>1, <2>1, <2>2, <3>1, <3>2 DEF Waits
    <2>3. CASE e[1] # t
        <3>1. e # <<t, read[t]>>
            BY <2>3
        <3>2. read'[e[1]] = read[e[1]]
            BY <1>1, <2>1, <2>3
        <3>. QED BY <3>1, <3>2 DEF Waits
    <2>. QED BY <2>2, <2>3
<1>4. Waits \subseteq Events /\ Waits' \subseteq Events
    BY DEF Waits
<1>. QED BY <1>2, <1>3, <1>4

\* After a whole round the scan has looked at every queue.
LEMMA RoundSeesAll ==
    ASSUME TypeOK, NEW t \in Registered
    PROVE  \E j \in 0..(Len(consumers) - 1) : InTurn(j) = t
<1>1. PICK q \in 0..(Len(consumers) - 1) : consumers[q + 1] = t
    BY Positions
<1>2. PICK j : j = Distance(m_cindex, q, Len(consumers))
    OBVIOUS
<1>3. j \in 0..(Len(consumers) - 1) /\ (m_cindex + j) % Len(consumers) = q
    BY <1>2, Positions, ReachedInTurn
<1>. QED BY <1>1, <1>3 DEF InTurn

\* A scan that found nothing is not needed: there is one event at most in each
\* queue, and its writer still owes.
LEMMA OthersCover ==
    ASSUME IInv, Covered, ScannedOwe, NEW d \in Threads,
           pc[d] = "scan", i[d] = Len(consumers)
    PROVE  Cardinality(Waits) <= Cardinality(Owing \ {d})
<1>1. /\ logged \in [Threads -> 0..MaxEvents] /\ read \in [Threads -> 0..MaxEvents]
      /\ MaxEvents \in Nat
    BY Typed, Constants DEF IInv
<1>2. ASSUME NEW e \in Waits
      PROVE  /\ e \in Events /\ e = <<e[1], e[2]>>
             /\ e[1] \in Owing \ {d}
             /\ e[2] = read[e[1]]
    <2>1. e \in Events /\ e = <<e[1], e[2]>> /\ e[1] \in Threads /\ e[2] \in Nat
        BY <1>1, EventIsPair DEF Waits
    <2>2. read[e[1]] <= e[2] /\ e[2] < logged[e[1]]
        BY DEF Waits
    <2>3. read[e[1]] \in Nat /\ logged[e[1]] \in Nat
        BY <1>1, <2>1
    <2>4. Waiting(e[1]) /\ e[1] \in Registered
        BY <2>1, <2>2, <2>3 DEF Waiting, IInv, Known
    <2>5. PICK j \in 0..(Len(consumers) - 1) : InTurn(j) = e[1]
        BY <2>4, RoundSeesAll DEF IInv
    <2>6. logged[e[1]] = read[e[1]] + 1 /\ pc[e[1]] \in {"wrote", "lock"}
        BY <2>4, <2>5 DEF ScannedOwe
    <2>7. e[1] # d
        BY <2>6
    <2>. QED BY <2>1, <2>2, <2>3, <2>6, <2>7 DEF Owing
<1>. DEFINE f == [e \in Waits |-> e[1]]
<1>3. f \in [Waits -> Owing \ {d}]
    BY <1>2
<1>4. \A a, b \in Waits : f[a] = f[b] => a = b
    BY <1>2
<1>5. f \in Injection(Waits, Owing \ {d})
    BY <1>3, <1>4 DEF Injection, IsInjective
<1>6. IsFiniteSet(Owing \ {d})
    BY FS_RemoveElement, FS_Subset DEF Covered
<1>. QED BY <1>5, <1>6, FS_Injection

LEMMA CoveredKept ==
    ASSUME IInv, AllSynch, Covered, ScannedOwe, Next
    PROVE  Covered'
<1>1. /\ pc \in [Dispatchers -> Places] /\ Threads \subseteq Dispatchers
      /\ Main \in Threads /\ Logger \notin Threads
    BY Typed, Constants DEF IInv
<1>2. /\ Cardinality(Waits) \in Nat /\ Cardinality(Owing) \in Nat
      /\ IsFiniteSet(Waits) /\ IsFiniteSet(Owing)
      /\ Cardinality(Waits) <= Cardinality(Owing)
    BY FS_CardinalityType DEF Covered
<1>3. CASE \E t \in Threads : OfThread(t)
    <2>1. PICK t \in Threads : OfThread(t)
        BY <1>3
    <2>2. CASE Register(t)
        BY <1>2, <2>2 DEF Register, Covered, Waits, Owing
    <2>3. CASE Log(t)
        <3>1. Owing' = Owing \cup {t} /\ t \notin Owing
            BY <1>1, <2>3 DEF Log, Owing
        <3>2. Cardinality(Owing') = Cardinality(Owing) + 1 /\ IsFiniteSet(Owing')
            BY <1>2, <3>1, FS_AddElement
        <3>3. PICK e : e \notin Waits /\ Waits' = Waits \cup {e}
            BY <2>3, WrittenWaits
        <3>4. Cardinality(Waits') = Cardinality(Waits) + 1 /\ IsFiniteSet(Waits')
            BY <1>2, <3>3, FS_AddElement
        <3>. QED BY <1>2, <3>2, <3>4 DEF Covered
    <2>4. CASE ReadMode(t)
        <3>1. m_synch[t] /\ pc' = [pc EXCEPT ![t] = "lock"] /\ pc[t] = "wrote"
            BY <2>4 DEF ReadMode, AllSynch
        <3>2. Owing' = Owing
            BY <1>1, <3>1 DEF Owing
        <3>3. Waits' = Waits
            BY <2>4 DEF ReadMode, Waits
        <3>. QED BY <3>2, <3>3 DEF Covered
    <2>. QED BY <2>1, <2>2, <2>3, <2>4 DEF OfThread
<1>4. CASE OfMain \/ CallDispatch
    <2>1. Waits' = Waits
        BY <1>4 DEF OfMain, ChangeMode, SetMode, ChangeModeDone, ReplaceListener, CallDispatch, Waits
    <2>2. Owing' = Owing
        BY <1>1, <1>4 DEF OfMain, ChangeMode, SetMode, ChangeModeDone, ReplaceListener, CallDispatch, Owing
    <2>. QED BY <2>1, <2>2 DEF Covered
<1>5. CASE \E d \in Dispatchers : OfDispatch(d)
    <2>1. PICK d \in Dispatchers : OfDispatch(d)
        BY <1>5
    <2>2. CASE Lock(d) \/ ScanEmpty(d) \/ Notify(d) \/ Release(d) \/ Relock(d)
        <3>1. Waits' = Waits
            BY <2>2 DEF Lock, ScanEmpty, Notify, Release, Relock, Waits
        <3>2. Owing' = Owing
            BY <1>1, <2>2 DEF Lock, ScanEmpty, Notify, Release, Relock, Owing
        <3>. QED BY <3>1, <3>2 DEF Covered
    <2>3. CASE ScanFound(d)
        <3>0. PICK t : t = Source(d)
            OBVIOUS
        <3>1. t \in Threads /\ read[t] < logged[t]
            BY <2>3, <3>0, FoundIsEvent DEF ScanFound
        <3>2. read' = [read EXCEPT ![t] = @ + 1] /\ logged' = logged
            BY <2>3, <3>0 DEF ScanFound
        <3>3. d \in Threads /\ pc[d] = "scan" /\ pc' = [pc EXCEPT ![d] = "notify"]
            BY <2>1, <2>3, Constants DEF ScanFound, AllSynch
        <3>4. Owing' = Owing \ {d} /\ d \in Owing
            BY <1>1, <3>3 DEF Owing
        <3>5. Cardinality(Owing') = Cardinality(Owing) - 1 /\ IsFiniteSet(Owing')
            BY <1>2, <3>4, FS_RemoveElement
        <3>6. PICK e : e \in Waits /\ Waits' = Waits \ {e}
            BY <3>1, <3>2, TakenIsGone
        <3>7. Cardinality(Waits') = Cardinality(Waits) - 1 /\ IsFiniteSet(Waits')
            BY <1>2, <3>6, FS_RemoveElement
        <3>. QED BY <1>2, <3>5, <3>7 DEF Covered
    <2>4. CASE ScanDone(d)
        <3>1. d \in Threads /\ pc[d] = "scan" /\ pc' = [pc EXCEPT ![d] = "idle"]
            BY <2>1, <2>4, Constants DEF ScanDone, AllSynch
        <3>2. Owing' = Owing \ {d}
            BY <1>1, <3>1 DEF Owing
        <3>3. Waits' = Waits /\ i[d] = Len(consumers)
            BY <2>4 DEF ScanDone, Waits
        <3>4. Cardinality(Waits) <= Cardinality(Owing \ {d})
            BY <3>1, <3>3, OthersCover
        <3>5. IsFiniteSet(Owing \ {d})
            BY <1>2, FS_RemoveElement
        <3>. QED BY <1>2, <3>2, <3>3, <3>4, <3>5 DEF Covered
    <2>. QED BY <2>1, <2>2, <2>3, <2>4 DEF OfDispatch
<1>. QED BY <1>3, <1>4, <1>5, Kinds

\* While a dispatch scans, the others neither move the ring nor take an event.
LEMMA ScanIsAlone ==
    ASSUME IInv, Next, NEW d \in Dispatchers, pc[d] = "scan", pc'[d] = "scan"
    PROVE  /\ UNCHANGED <<consumers, m_cindex, read>>
           /\ \A j : UNCHANGED InTurn(j)
           /\ \/ i'[d] = i[d]
              \/ i'[d] = i[d] + 1 /\ ~ Waiting(Source(d)) /\ UNCHANGED <<logged, pc>>
<1>0. /\ mutex # Free /\ \A e \in Dispatchers : pc[e] \in {"scan", "setmode"} => e = d
      /\ pc \in [Dispatchers -> Places] /\ i \in [Dispatchers -> Nat]
      /\ Main \in Dispatchers
    BY OneHolder, Typed, Constants DEF IInv
<1>1. /\ UNCHANGED <<consumers, m_cindex, read>>
      /\ \/ i'[d] = i[d]
         \/ i'[d] = i[d] + 1 /\ ~ Waiting(Source(d)) /\ UNCHANGED <<logged, pc>>
    <2>1. CASE \E t \in Threads : OfThread(t)
        BY <1>0, <2>1 DEF OfThread, Register, Log, ReadMode
    <2>2. CASE OfMain \/ CallDispatch
        BY <1>0, <2>2 DEF OfMain, ChangeMode, SetMode, ChangeModeDone, ReplaceListener, CallDispatch
    <2>3. CASE \E e \in Dispatchers : OfDispatch(e)
        <3>1. PICK e \in Dispatchers : OfDispatch(e)
            BY <2>3
        <3>2. CASE Lock(e) \/ Relock(e)
            BY <1>0, <3>2 DEF Lock, Relock
        <3>3. CASE ScanEmpty(e)
            BY <1>0, <3>3 DEF ScanEmpty
        <3>4. CASE ScanFound(e)
            <4>1. e = d /\ pc'[d] = "notify"
                BY <1>0, <3>4 DEF ScanFound
            <4>. QED BY <4>1
        <3>5. CASE ScanDone(e)
            BY <1>0, <3>5 DEF ScanDone
        <3>6. CASE Notify(e) \/ Release(e)
            BY <3>6 DEF Notify, Release
        <3>. QED BY <3>1, <3>2, <3>3, <3>4, <3>5, <3>6 DEF OfDispatch
    <2>. QED BY <2>1, <2>2, <2>3, Kinds
<1>2. \A j : UNCHANGED InTurn(j)
    BY <1>1 DEF InTurn
<1>. QED BY <1>1, <1>2

\* A scan begins with its first turn.
LEMMA ScanBegins ==
    ASSUME IInv, Next, NEW d \in Dispatchers, pc[d] # "scan", pc'[d] = "scan"
    PROVE  i'[d] = 0
<1>1. /\ pc \in [Dispatchers -> Places] /\ i \in [Dispatchers -> Nat]
      /\ Main \in Dispatchers
    BY Typed, Constants DEF IInv
<1>2. Lock(d)
    <2>1. CASE \E u \in Threads : OfThread(u)
        BY <1>1, <2>1, Constants DEF OfThread, Register, Log, ReadMode
    <2>2. CASE OfMain \/ CallDispatch
        BY <1>1, <2>2, Constants DEF OfMain, ChangeMode, SetMode, ChangeModeDone,
                                     ReplaceListener, CallDispatch
    <2>3. CASE \E e \in Dispatchers : OfDispatch(e)
        BY <1>1, <2>3 DEF OfDispatch, Lock, ScanEmpty, ScanFound, ScanDone, Notify,
                          Release, Relock
    <2>. QED BY <2>1, <2>2, <2>3, Kinds
<1>. QED BY <1>1, <1>2 DEF Lock

LEMMA ScannedOweKept ==
    ASSUME IInv, AllSynch, ScannedOwe, Next
    PROVE  ScannedOwe'
<1>. SUFFICES ASSUME NEW d \in Threads, pc'[d] = "scan", NEW j \in 0..(i'[d] - 1),
                     NEW t, t = InTurn(j)', Waiting(t)'
              PROVE  logged'[t] = read'[t] + 1 /\ pc'[t] \in {"wrote", "lock"}
    BY DEF ScannedOwe
<1>1. /\ pc \in [Dispatchers -> Places] /\ i \in [Dispatchers -> Nat]
      /\ d \in Dispatchers /\ Main \in Dispatchers
    BY Typed, Constants DEF IInv
<1>2. CASE pc[d] = "scan"
    <2>1. /\ UNCHANGED read /\ t = InTurn(j)
          /\ \/ i'[d] = i[d]
             \/ i'[d] = i[d] + 1 /\ ~ Waiting(Source(d)) /\ UNCHANGED <<logged, pc>>
        BY <1>1, <1>2, ScanIsAlone
    <2>2. i[d] \in Nat /\ j \in Nat /\ t \in Threads
        BY <1>1, <2>1, Positions DEF IInv
    <2>3. read[t] \in Nat /\ logged[t] \in Nat /\ read[t] <= logged[t]
        BY <2>2, Counts
    <2>4. CASE j = i[d]
        <3>1. ~ Waiting(t) /\ UNCHANGED <<logged, read>>
            BY <2>1, <2>2, <2>4 DEF Source
        <3>. QED BY <3>1 DEF Waiting
    <2>5. CASE j \in 0..(i[d] - 1)
        <3>1. Waiting(t) => logged[t] = read[t] + 1 /\ pc[t] \in {"wrote", "lock"}
            BY <1>2, <2>1, <2>5 DEF ScannedOwe
        <3>2. CASE \E u \in Threads : OfThread(u)
            <4>1. PICK u \in Threads : OfThread(u)
                BY <3>2
            <4>2. CASE u = t /\ Log(u)
                <5>1. pc[t] = "idle" /\ logged' = [logged EXCEPT ![t] = @ + 1] /\ pc'[t] = "wrote"
                    BY <1>1, <2>2, <4>2, Constants DEF Log
                <5>2. ~ Waiting(t)
                    BY <3>1, <5>1
                <5>3. logged'[t] = logged[t] + 1
                    BY <2>2, <5>1, Counts
                <5>. QED BY <2>1, <2>3, <5>1, <5>2, <5>3 DEF Waiting
            <4>3. CASE ~ (u = t /\ Log(u))
                <5>1. logged'[t] = logged[t] /\ Waiting(t)
                    BY <2>1, <2>2, <4>1, <4>3, Counts DEF OfThread, Register, Log, ReadMode, Waiting
                <5>2. m_synch[u]
                    BY DEF AllSynch
                <5>3. pc'[t] \in {"wrote", "lock"}
                    BY <1>1, <3>1, <4>1, <4>3, <5>1, <5>2, <2>2, Constants
                       DEF OfThread, Register, Log, ReadMode
                <5>. QED BY <2>1, <3>1, <5>1, <5>3
            <4>. QED BY <4>2, <4>3
        <3>3. CASE OfMain \/ CallDispatch
            <4>1. logged' = logged /\ Waiting(t)
                BY <2>1, <3>3 DEF OfMain, ChangeMode, SetMode, ChangeModeDone, ReplaceListener,
                                  CallDispatch, Waiting
            <4>2. pc[t] \in {"wrote", "lock"} /\ t \in Dispatchers
                BY <2>2, <3>1, <4>1, Constants
            <4>3. pc'[t] = pc[t]
                BY <1>1, <3>3, <4>2 DEF OfMain, ChangeMode, SetMode, ChangeModeDone, ReplaceListener,
                                         CallDispatch
            <4>. QED BY <2>1, <3>1, <4>1, <4>3
        <3>4. CASE \E e \in Dispatchers : OfDispatch(e)
            <4>1. PICK e \in Dispatchers : OfDispatch(e)
                BY <3>4
            <4>2. logged' = logged /\ Waiting(t)
                BY <2>1, <4>1 DEF OfDispatch, Lock, ScanEmpty, ScanFound, ScanDone, Notify, Release,
                                  Relock, Waiting
            <4>3. mutex # Free
                BY <1>1, <1>2, OneHolder
            <4>4. pc[t] \in {"wrote", "lock"} /\ t \in Dispatchers
                BY <2>2, <3>1, <4>2, Constants
            <4>5. pc'[t] = pc[t]
                BY <1>1, <4>1, <4>3, <4>4 DEF OfDispatch, Lock, ScanEmpty, ScanFound, ScanDone,
                                           Notify, Release, Relock
            <4>. QED BY <2>1, <3>1, <4>2, <4>5
        <3>. QED BY <3>2, <3>3, <3>4, Kinds
    <2>. QED BY <2>1, <2>2, <2>4, <2>5
<1>3. CASE pc[d] # "scan"
    <2>1. i'[d] = 0
        BY <1>1, <1>3, ScanBegins
    <2>. QED BY <2>1
<1>. QED BY <1>2, <1>3

\* In the synchronous regime the threads that owe a dispatch cover the events.
THEOREM SynchInductive == Spec => []SynchInv
<1>1. IInv /\ SynchInv /\ [Next]_vars => SynchInv'
    <2>. SUFFICES ASSUME IInv, SynchInv, [Next]_vars, regime' = "synch"
                  PROVE  AllSynch' /\ Covered' /\ ScannedOwe'
        BY DEF SynchInv
    <2>1. CASE Next
        <3>1. regime = "synch"
            BY <2>1, Kinds DEF OfThread, Register, Log, ReadMode, OfMain, ChangeMode, SetMode,
               ChangeModeDone, ReplaceListener, CallDispatch, OfDispatch, Lock, ScanEmpty,
               ScanFound, ScanDone, Notify, Release, Relock
        <3>. QED BY <2>1, <3>1, AllSynchKept, CoveredKept, ScannedOweKept DEF SynchInv
    <2>2. CASE UNCHANGED vars
        <3>1. AllSynch /\ Covered /\ ScannedOwe
            BY <2>2 DEF vars, SynchInv
        <3>2. Waits' = Waits /\ Owing' = Owing
            BY <2>2 DEF vars, Waits, Owing
        <3>3. ScannedOwe'
            BY <2>2, <3>1 DEF vars, ScannedOwe, InTurn, Waiting
        <3>. QED BY <2>2, <3>1, <3>2, <3>3 DEF vars, AllSynch, Covered
    <2>. QED BY <2>1, <2>2
<1>. QED BY <1>1, InitSynch, LoggerInductive, PTL DEF Spec

\* In synch mode nothing is left when all threads have returned from their log
\* statements, for any number of threads, although a thread's event may have been
\* taken by another's dispatch and its own dispatch may have found nothing
\* (logger_adapter.h:19-24, logger_client.h:53-63).
THEOREM SynchIsDrained == Spec => []SynchLeavesNothing
<1>1. IInv /\ SynchInv => SynchLeavesNothing
    <2>. SUFFICES ASSUME IInv, SynchInv, regime = "synch",
                         \A d \in Dispatchers : pc[d] = "idle",
                         NEW t \in Threads, Waiting(t)
                  PROVE  FALSE
        BY DEF SynchLeavesNothing
    <2>1. Covered
        BY DEF SynchInv
    <2>2. Owing = {}
        BY Constants DEF Owing
    <2>3. Waits = {}
        BY <2>1, <2>2, FS_EmptySet, FS_CardinalityType DEF Covered
    <2>4. <<t, read[t]>> \in Waits
        BY Counts DEF Waits, Waiting, Events
    <2>. QED BY <2>3, <2>4
<1>. QED BY <1>1, LoggerInductive, SynchInductive, PTL
-----------------------------------------------------------------------------
(***************************************************************************)
(* The asynchronous regime shows every event and passes nobody over.       *)
(***************************************************************************)
LEMMA InitAsync == Init => AsyncInv
<1>. SUFFICES ASSUME Init, regime = "async" PROVE AllAsync /\ OneUser /\ InTheirTurn
    BY DEF AsyncInv
<1>1. AllAsync
    BY Constants DEF Init, AllAsync, Started
<1>2. OneUser
    BY Constants DEF Init, OneUser
<1>3. Len(consumers) = 1 /\ m_cindex = 0 /\ consumers[1] = Main /\ passed[Main] = 0
    BY Constants DEF Init
<1>4. Fair(m_cindex, Len(consumers))
    BY <1>3 DEF Fair, Distance
<1>5. InTheirTurn
    BY <1>4, Constants DEF Init, InTheirTurn
<1>. QED BY <1>1, <1>2, <1>5

\* Nobody dispatches but the logger's thread.
LEMMA OneDispatcher ==
    ASSUME AllAsync, NEW d \in Dispatchers, OfDispatch(d)
    PROVE  d = Logger
<1>1. pc[d] \in {"lock", "scan", "notify", "release", "relock"}
    BY DEF OfDispatch, Lock, ScanEmpty, ScanFound, ScanDone, Notify, Release, Relock
<1>. QED BY <1>1, Constants DEF AllAsync

LEMMA AllAsyncKept ==
    ASSUME IInv, AllAsync, regime = "async", Next
    PROVE  AllAsync'
<1>1. /\ pc \in [Dispatchers -> Places] /\ m_synch \in [Threads -> BOOLEAN]
      /\ i \in [Dispatchers -> Nat] /\ changes \in Nat /\ mode \in BOOLEAN
      /\ Threads \subseteq Dispatchers /\ Main \in Threads /\ Logger \notin Threads
      /\ Logger \in Dispatchers
    <2>1. changes \in 0..MaxChanges /\ MaxChanges \in Nat
        BY Typed, Constants DEF IInv
    <2>2. changes \in Nat
        BY <2>1
    <2>. QED BY <2>2, Typed, Constants DEF IInv
<1>2. CASE \E t \in Threads : Register(t)
    <2>1. PICK t \in Threads : Register(t)
        BY <1>2
    <2>2. Registered' = Registered \cup {t}
        BY <2>1, Appended DEF IInv
    <2>3. /\ changes > 0 /\ pc[Main] # "setmode" /\ ~ mode
          /\ \A u \in Registered : ~ m_synch[u]
        BY <2>1, <1>1 DEF Register, AllAsync, Started
    <2>4. /\ UNCHANGED <<changes, mode, pc, i, regime>>
          /\ m_synch' = [m_synch EXCEPT ![t] = mode]
        BY <2>1 DEF Register
    <2>5. \A u \in Registered' : ~ m_synch'[u]
        <3>1. \A u \in Registered : u \in Threads
            BY Positions DEF IInv, Registered
        <3>. QED BY <1>1, <2>2, <2>3, <2>4, <3>1
    <2>6. \A u \in Threads : /\ pc'[u] \in {"idle", "wrote", "setmode"}
                             /\ pc'[u] = "wrote" => u \in Registered'
        BY <2>2, <2>4 DEF AllAsync
    <2>. QED BY <1>1, <2>3, <2>4, <2>5, <2>6 DEF AllAsync
<1>3. CASE \E t \in Threads : Log(t) \/ ReadMode(t)
    <2>1. PICK t \in Threads : Log(t) \/ ReadMode(t)
        BY <1>3
    <2>2. UNCHANGED <<changes, mode, m_synch, consumers, i, regime>> /\ Registered' = Registered
        BY <2>1 DEF Log, ReadMode, Registered
    <2>3. changes > 0 /\ pc[Main] # "setmode" /\ t \in Registered /\ ~ m_synch[t]
        BY <1>1, <2>1 DEF Log, ReadMode, AllAsync, Started
    <2>4. /\ pc'[t] \in {"idle", "wrote"}
          /\ \A u \in Threads : u # t => pc'[u] = pc[u]
        BY <1>1, <2>1, <2>3 DEF Log, ReadMode
    <2>5. \A u \in Threads : /\ pc'[u] \in {"idle", "wrote", "setmode"}
                             /\ pc'[u] = "wrote" => u \in Registered'
        BY <2>2, <2>3, <2>4 DEF AllAsync
    <2>6. pc'[Main] # "setmode"
        BY <1>1, <2>3, <2>4
    <2>7. \A u \in Registered' : ~ m_synch'[u]
        BY <2>2, <2>3 DEF AllAsync, Started
    <2>. QED BY <1>1, <2>2, <2>3, <2>5, <2>6, <2>7 DEF AllAsync
<1>4. CASE ChangeMode
    <2>1. /\ changes = 0 /\ consumers = <<Main>>
          /\ \A u \in Threads : pc[u] = "idle"
        BY <1>1, <1>4 DEF ChangeMode, AllAsync
    <2>2. /\ changes' = 1 /\ mode' = ~ mode /\ pc' = [pc EXCEPT ![Main] = "setmode"]
          /\ i' = [i EXCEPT ![Main] = 0] /\ UNCHANGED <<m_synch, consumers, regime>>
        BY <1>4, <2>1 DEF ChangeMode
    <2>3. ~ mode'
        BY <1>4, <2>2 DEF ChangeMode
    <2>4. /\ pc'[Main] = "setmode" /\ i'[Main] = 0
          /\ \A u \in Threads \ {Main} : pc'[u] = "idle"
        BY <1>1, <2>1, <2>2
    <2>. QED BY <1>1, <2>1, <2>2, <2>3, <2>4 DEF AllAsync, Started
<1>5. CASE SetMode
    <2>1. /\ changes > 0 /\ consumers = <<Main>> /\ ~ mode /\ pc[Main] = "setmode"
          /\ \A u \in Threads \ {Main} : pc[u] = "idle"
        BY <1>5 DEF SetMode, AllAsync
    <2>2. i[Main] = 0 /\ consumers[i[Main] + 1] = Main
        BY <1>1, <1>5, <2>1 DEF SetMode
    <2>3. /\ m_synch' = [m_synch EXCEPT ![Main] = mode]
          /\ UNCHANGED <<changes, mode, consumers, pc, regime>>
        BY <1>5, <2>2 DEF SetMode
    <2>4. ~ m_synch'[Main]
        BY <1>1, <2>1, <2>3
    <2>5. pc'[Main] = "setmode"
        BY <2>1, <2>3
    <2>. QED BY <1>1, <2>1, <2>3, <2>4, <2>5 DEF AllAsync, Started
<1>6. CASE ChangeModeDone
    <2>1. /\ changes > 0 /\ consumers = <<Main>> /\ ~ mode
          /\ \A u \in Threads \ {Main} : pc[u] = "idle"
          /\ i[Main] = Len(consumers)
        BY <1>6 DEF ChangeModeDone, AllAsync
    <2>2. ~ m_synch[Main] /\ Registered' = {Main}
        <3>1. Len(consumers) = 1
            BY <2>1
        <3>2. ~ m_synch[Main]
            BY <1>6, <2>1, <3>1 DEF ChangeModeDone, AllAsync
        <3>3. consumers' = consumers
            BY <1>6 DEF ChangeModeDone
        <3>. QED BY <2>1, <3>1, <3>2, <3>3 DEF Registered
    <2>3. UNCHANGED <<m_synch, changes, mode, consumers, regime>> /\ \A u \in Threads : pc'[u] = "idle"
        BY <1>1, <1>6, <2>1 DEF ChangeModeDone
    <2>. QED BY <1>1, <2>1, <2>2, <2>3 DEF AllAsync
<1>7. CASE ReplaceListener
    BY <1>7 DEF ReplaceListener, AllAsync, Started, Registered
<1>8. CASE CallDispatch \/ OfDispatch(Logger)
    <2>1. UNCHANGED <<m_synch, changes, mode, consumers, regime>>
        BY <1>8 DEF CallDispatch, OfDispatch, Lock, ScanEmpty, ScanFound, ScanDone, Notify,
                    Release, Relock
    <2>2. \A u \in Threads : pc'[u] = pc[u] /\ i'[u] = i[u]
        BY <1>1, <1>8 DEF CallDispatch, OfDispatch, Lock, ScanEmpty, ScanFound, ScanDone, Notify,
                    Release, Relock
    <2>. QED BY <1>1, <2>1, <2>2 DEF AllAsync, Started, Registered
<1>. QED BY <1>2, <1>3, <1>4, <1>5, <1>6, <1>7, <1>8, Kinds, OneDispatcher DEF OfThread, OfMain

\* The steps, as the stream and the cursor see them.
LEMMA AsyncSteps ==
    ASSUME IInv, AllAsync, Next
    PROVE  \/ ScanFound(Logger)
           \/ Notify(Logger)
           \/ Relock(Logger)
           \/ /\ UNCHANGED <<m_cindex, passed, read, shown, sstream>>
              /\ \A t \in Threads : logged'[t] >= logged[t]
              /\ UNCHANGED consumers \/ (\E t \in Threads : Register(t))
              /\ pc'[Logger] \in {"idle", "lock", "scan"} <=> pc[Logger] \in {"idle", "lock", "scan"}
              /\ pc[Logger] \in {"notify", "release", "relock"} =>
                    /\ i'[Logger] = i[Logger] /\ event'[Logger] = event[Logger]
                    /\ pc[Logger] = "notify" => pc'[Logger] = "notify"
              /\ pc'[Logger] \in {"notify", "release", "relock"} =>
                    pc[Logger] \in {"notify", "release", "relock"}
              /\ pc'[Logger] = "notify" => pc[Logger] = "notify"
<1>1. /\ i \in [Dispatchers -> Nat] /\ event \in [Dispatchers -> Events \cup {None}]
      /\ pc \in [Dispatchers -> Places] /\ Threads \subseteq Dispatchers
      /\ Main \in Threads /\ Logger \notin Threads /\ Logger \in Dispatchers
    BY Typed, Constants DEF IInv
<1>2. \A t \in Threads : logged[t] \in Nat
    BY Counts
<1>3. CASE \E t \in Threads : OfThread(t)
    <2>1. PICK t \in Threads : OfThread(t)
        BY <1>3
    <2>2. UNCHANGED <<m_cindex, passed, read, shown, sstream, i, event>>
        BY <2>1 DEF OfThread, Register, Log, ReadMode
    <2>3. \A u \in Threads : logged'[u] >= logged[u]
        BY <1>2, <2>1, Counts DEF OfThread, Register, Log, ReadMode
    <2>4. pc'[Logger] = pc[Logger]
        BY <1>1, <2>1 DEF OfThread, Register, Log, ReadMode
    <2>5. UNCHANGED consumers \/ Register(t)
        BY <2>1 DEF OfThread, Log, ReadMode
    <2>. QED BY <1>1, <2>2, <2>3, <2>4, <2>5
<1>4. CASE OfMain
    <2>1. UNCHANGED <<m_cindex, passed, read, shown, sstream, logged, consumers>>
        BY <1>4 DEF OfMain, ChangeMode, SetMode, ChangeModeDone, ReplaceListener
    <2>2. /\ pc'[Logger] = pc[Logger] /\ i'[Logger] = i[Logger]
          /\ event'[Logger] = event[Logger]
        BY <1>1, <1>4 DEF OfMain, ChangeMode, SetMode, ChangeModeDone, ReplaceListener
    <2>. QED BY <1>1, <1>2, <2>1, <2>2
<1>5. CASE CallDispatch
    <2>1. UNCHANGED <<m_cindex, passed, read, shown, sstream, logged, consumers>>
        BY <1>5 DEF CallDispatch
    <2>2. pc[Logger] = "idle" /\ pc'[Logger] = "lock"
        BY <1>1, <1>5 DEF CallDispatch
    <2>. QED BY <1>2, <2>1, <2>2
<1>6. CASE OfDispatch(Logger) /\ ~ ScanFound(Logger) /\ ~ Notify(Logger) /\ ~ Relock(Logger)
    <2>1. UNCHANGED <<m_cindex, passed, read, shown, sstream, logged, consumers>>
        BY <1>6 DEF OfDispatch, Lock, ScanEmpty, ScanDone, Release
    <2>2. CASE Lock(Logger) \/ ScanEmpty(Logger) \/ ScanDone(Logger)
        <3>1. pc[Logger] \in {"lock", "scan"} /\ pc'[Logger] \in {"idle", "scan"}
            BY <1>1, <2>2 DEF Lock, ScanEmpty, ScanDone
        <3>. QED BY <1>2, <2>1, <3>1
    <2>3. CASE Release(Logger)
        <3>1. /\ pc[Logger] = "release" /\ pc'[Logger] = "relock"
              /\ UNCHANGED <<i, event>>
            BY <1>1, <2>3 DEF Release
        <3>. QED BY <1>2, <2>1, <3>1
    <2>. QED BY <1>6, <2>2, <2>3 DEF OfDispatch
<1>. QED BY <1>3, <1>4, <1>5, <1>6, Kinds, OneDispatcher

LEMMA OneUserKept ==
    ASSUME IInv, AllAsync, OneUser, Next
    PROVE  OneUser'
<1>1. /\ pc \in [Dispatchers -> Places] /\ Logger \in Dispatchers
      /\ event \in [Dispatchers -> Events \cup {None}]
    BY Typed, Constants DEF IInv
<1>2. CASE ScanFound(Logger)
    <2>0. PICK t : t = Source(Logger)
        OBVIOUS
    <2>1. t \in Threads
        BY <1>1, <1>2, <2>0, FoundIsEvent DEF ScanFound
    <2>2. /\ read' = [read EXCEPT ![t] = @ + 1] /\ sstream' = <<t, read[t]>>
          /\ event' = [event EXCEPT ![Logger] = <<t, read[t]>>]
          /\ pc' = [pc EXCEPT ![Logger] = "notify"] /\ UNCHANGED shown /\ pc[Logger] = "scan"
        BY <1>2, <2>0 DEF ScanFound
    <2>3. ASSUME NEW u \in Threads, NEW n \in 0..(read'[u] - 1)
          PROVE  <<u, n>> \in shown \/ <<u, n>> = <<t, read[t]>>
        <3>1. read[u] \in Nat /\ read \in [Threads -> 0..MaxEvents]
            BY Counts
        <3>2. n \in 0..(read[u] - 1) \/ (u = t /\ n = read[t])
            BY <2>1, <2>2, <3>1
        <3>. QED BY <2>2, <3>2 DEF OneUser
    <2>4. event'[Logger] = <<t, read[t]>> /\ pc'[Logger] = "notify"
        BY <1>1, <2>2
    <2>. QED BY <2>2, <2>3, <2>4 DEF OneUser
<1>3. CASE Notify(Logger)
    <2>1. /\ shown' = shown \cup {event[Logger]} /\ UNCHANGED read
          /\ pc'[Logger] = "release"
        BY <1>1, <1>3 DEF Notify, OneUser
    <2>. QED BY <2>1 DEF OneUser
<1>4. CASE Relock(Logger)
    <2>1. UNCHANGED <<shown, read>> /\ pc[Logger] = "relock" /\ pc'[Logger] = "idle"
        BY <1>1, <1>4 DEF Relock
    <2>. QED BY <2>1 DEF OneUser
<1>5. CASE /\ UNCHANGED <<read, shown, sstream>>
           /\ pc[Logger] = "notify" => event'[Logger] = event[Logger] /\ pc'[Logger] = "notify"
           /\ pc'[Logger] = "notify" => pc[Logger] = "notify"
    BY <1>5 DEF OneUser
<1>. QED BY <1>2, <1>3, <1>4, <1>5, AsyncSteps

LEMMA InTheirTurnKept ==
    ASSUME IInv, AllAsync, InTheirTurn, Next
    PROVE  InTheirTurn'
<1>1. /\ pc \in [Dispatchers -> Places] /\ i \in [Dispatchers -> Nat] /\ Logger \in Dispatchers
      /\ passed \in [Threads -> Nat]
    BY Typed, Constants DEF IInv
<1>2. /\ Len(consumers) \in Positive /\ m_cindex \in 0..(Len(consumers) - 1)
      /\ \A k \in 1..Len(consumers) : consumers[k] \in Threads
    BY Positions DEF IInv
<1>3. ASSUME pc[Logger] = "scan", pc'[Logger] = "scan", UNCHANGED passed
      PROVE  \A j \in 0..(i'[Logger] - 1) : passed'[InTurn(j)'] = 0
    <2>. SUFFICES ASSUME NEW j \in 0..(i'[Logger] - 1)
                  PROVE  passed'[InTurn(j)'] = 0
        OBVIOUS
    <2>1. /\ InTurn(j)' = InTurn(j)
          /\ \/ i'[Logger] = i[Logger]
             \/ i'[Logger] = i[Logger] + 1 /\ ~ Waiting(Source(Logger))
        BY <1>1, <1>3, ScanIsAlone
    <2>2. i[Logger] \in Nat /\ j \in Nat /\ InTurn(j) \in Threads
        BY <1>1, <2>1, Positions DEF IInv
    <2>3. CASE j \in 0..(i[Logger] - 1)
        BY <1>3, <2>1, <2>3 DEF InTheirTurn
    <2>4. CASE j = i[Logger] /\ ~ Waiting(Source(Logger))
        <3>1. ~ (passed[InTurn(j)] > 0)
            BY <2>2, <2>4 DEF InTheirTurn, Source
        <3>2. passed[InTurn(j)] \in Nat
            BY <1>1, <2>2
        <3>. QED BY <1>3, <2>1, <3>1, <3>2
    <2>. QED BY <2>1, <2>2, <2>3, <2>4
<1>4. CASE ScanFound(Logger)
    <2>0. PICK t : t = Source(Logger)
        OBVIOUS
    <2>1. /\ t \in Threads /\ i[Logger] < Len(consumers)
          /\ read' = [read EXCEPT ![t] = @ + 1] /\ UNCHANGED <<logged, consumers, m_cindex, i>>
          /\ passed' = [u \in Threads |-> IF u = t \/ ~ Waiting(u) THEN 0 ELSE passed[u] + 1]
          /\ pc[Logger] = "scan" /\ pc' = [pc EXCEPT ![Logger] = "notify"]
        BY <1>1, <1>4, <2>0, FoundIsEvent DEF ScanFound
    <2>2. \A u \in Threads : passed'[u] > 0 => Waiting(u)'
        BY <2>1, Counts DEF Waiting
    <2>3. pc'[Logger] = "notify"
        BY <1>1, <2>1
    <2>4. ASSUME NEW n \in Nat, n >= Len(consumers), NEW q \in 0..(Len(consumers) - 1)
          PROVE  passed'[consumers[q + 1]] + Distance((m_cindex + i[Logger] + 1) % n, q, n) <= n
        <3>1. PICK u \in Threads : u = consumers[q + 1]
            BY <1>2 DEF Positive
        <3>2. i[Logger] \in 0..(Len(consumers) - 1) /\ n \in Positive /\ q \in 0..(n - 1)
            BY <1>1, <1>2, <2>1, <2>4 DEF Positive
        <3>3. PICK c : c = (m_cindex + i[Logger] + 1) % n
            OBVIOUS
        <3>4. c \in 0..(n - 1)
            <4>1. m_cindex + i[Logger] + 1 \in Nat
                BY <1>1, <1>2 DEF Positive
            <4>. QED BY <3>2, <3>3, <4>1, DivMod
        <3>5. Distance(c, q, n) \in 0..(n - 1)
            BY <3>2, <3>4, ReachedInTurn
        <3>6. CASE passed'[u] = 0
            BY <3>1, <3>2, <3>3, <3>5, <3>6 DEF Positive
        <3>7. CASE passed'[u] # 0
            <4>1. u # t /\ passed'[u] = passed[u] + 1
                BY <2>1, <3>7
            <4>2. PICK a \in Nat : a = passed[u]
                BY <1>1
            <4>3. PICK D : D = Distance(m_cindex, q, Len(consumers))
                OBVIOUS
            <4>4. a + D <= Len(consumers)
                BY <2>1, <3>1, <4>2, <4>3 DEF InTheirTurn, Fair
            <4>5. /\ D \in 0..(Len(consumers) - 1)
                  /\ (m_cindex + D) % Len(consumers) = q
                BY <1>2, <4>3, ReachedInTurn
            <4>6. InTurn(D) = u
                BY <3>1, <4>5 DEF InTurn
            <4>7. a = 0 \/ D > i[Logger]
                <5>1. D # i[Logger]
                    BY <2>0, <4>1, <4>6 DEF Source
                <5>2. D \in 0..(i[Logger] - 1) => passed[InTurn(D)] = 0
                    BY <2>1 DEF InTheirTurn
                <5>. QED BY <3>2, <4>2, <4>5, <4>6, <5>1, <5>2
            <4>8. a + 1 + Distance((m_cindex + i[Logger] + 1) % n, q, n) <= n
                <5>1. Len(consumers) <= n
                    BY <2>4, <1>2 DEF Positive
                <5>. QED BY <1>2, <3>2, <4>2, <4>3, <4>4, <4>7, <5>1, CursorStep
            <4>. QED BY <3>1, <4>1, <4>2, <4>8
        <3>. QED BY <3>6, <3>7
    <2>5. \A n \in Nat : n >= Len(consumers') =>
             Fair((m_cindex + i[Logger] + 1) % n, n)'
        BY <2>1, <2>4 DEF Fair
    <2>. QED BY <2>1, <2>2, <2>3, <2>5 DEF InTheirTurn
<1>5. CASE Relock(Logger)
    <2>1. /\ UNCHANGED <<consumers, passed, read, logged>>
          /\ pc[Logger] = "relock" /\ pc'[Logger] = "idle"
          /\ m_cindex' = (m_cindex + i[Logger] + 1) % Len(consumers)
        BY <1>1, <1>5 DEF Relock
    <2>2. Fair((m_cindex + i[Logger] + 1) % Len(consumers), Len(consumers))
        BY <1>2, <2>1 DEF InTheirTurn, Positive
    <2>3. Fair(m_cindex, Len(consumers))'
        BY <2>1, <2>2 DEF Fair
    <2>4. \A u \in Threads : passed'[u] > 0 => Waiting(u)'
        BY <2>1 DEF InTheirTurn, Waiting
    <2>. QED BY <2>1, <2>3, <2>4 DEF InTheirTurn
<1>6. CASE Notify(Logger)
    <2>1. /\ UNCHANGED <<consumers, passed, read, logged, m_cindex, i>>
          /\ pc[Logger] = "notify" /\ pc'[Logger] = "release"
        BY <1>1, <1>6 DEF Notify
    <2>2. \A n \in Nat : n >= Len(consumers) => Fair((m_cindex + i[Logger] + 1) % n, n)
        BY <2>1 DEF InTheirTurn
    <2>3. \A u \in Threads : passed'[u] > 0 => Waiting(u)'
        BY <2>1 DEF InTheirTurn, Waiting
    <2>. QED BY <2>1, <2>2, <2>3 DEF InTheirTurn, Fair
<1>7. CASE /\ UNCHANGED <<m_cindex, passed, read, shown, sstream>>
           /\ \A t \in Threads : logged'[t] >= logged[t]
           /\ UNCHANGED consumers \/ (\E t \in Threads : Register(t))
           /\ pc'[Logger] \in {"idle", "lock", "scan"} <=> pc[Logger] \in {"idle", "lock", "scan"}
           /\ pc[Logger] \in {"notify", "release", "relock"} => i'[Logger] = i[Logger]
           /\ pc'[Logger] \in {"notify", "release", "relock"} =>
                 pc[Logger] \in {"notify", "release", "relock"}
    <2>1. \A u \in Threads : passed'[u] > 0 => Waiting(u)'
        <3>1. \A u \in Threads : logged'[u] \in Nat
            <4>1. TypeOK'
                BY Kinds, TypesOfThread, TypesOfMain, TypesOfDispatch
            <4>. QED BY <4>1, Constants DEF TypeOK
        <3>. QED BY <1>7, <3>1, Counts DEF InTheirTurn, Waiting
    <2>2. /\ Len(consumers') >= Len(consumers) /\ Len(consumers') \in Nat
          /\ \A q \in 0..(Len(consumers') - 1) :
                \/ q \in 0..(Len(consumers) - 1) /\ consumers'[q + 1] = consumers[q + 1]
                \/ passed[consumers'[q + 1]] = 0
        <3>1. CASE UNCHANGED consumers
            BY <1>2, <3>1 DEF Positive
        <3>2. CASE \E t \in Threads : Register(t)
            <4>1. PICK t \in Threads : Register(t)
                BY <3>2
            <4>2. /\ Len(consumers') = Len(consumers) + 1
                  /\ \A k \in 1..Len(consumers) : consumers'[k] = consumers[k]
                  /\ consumers'[Len(consumers) + 1] = t
                BY <4>1, Appended DEF IInv
            <4>3. ~ Waiting(t)
                BY <4>1, Counts DEF Register, IInv, Known, Waiting
            <4>4. passed[t] = 0
                BY <1>1, <4>3 DEF InTheirTurn
            <4>5. ASSUME NEW q \in 0..(Len(consumers') - 1)
                  PROVE  \/ q \in 0..(Len(consumers) - 1) /\ consumers'[q + 1] = consumers[q + 1]
                         \/ passed[consumers'[q + 1]] = 0
                <5>1. CASE q = Len(consumers)
                    BY <4>2, <4>4, <5>1
                <5>2. CASE q # Len(consumers)
                    <6>1. q \in 0..(Len(consumers) - 1) /\ q + 1 \in 1..Len(consumers)
                        BY <1>2, <4>2, <5>2 DEF Positive
                    <6>. QED BY <4>2, <6>1
                <5>. QED BY <5>1, <5>2
            <4>. QED BY <1>2, <4>2, <4>5 DEF Positive
        <3>. QED BY <1>7, <3>1, <3>2
    <2>3. ASSUME pc'[Logger] \in {"idle", "lock", "scan"}
          PROVE  Fair(m_cindex, Len(consumers))'
        <3>1. Fair(m_cindex, Len(consumers))
            BY <1>7, <2>3 DEF InTheirTurn
        <3>. SUFFICES ASSUME NEW q \in 0..(Len(consumers') - 1)
                      PROVE  passed[consumers'[q + 1]] + Distance(m_cindex, q, Len(consumers'))
                                <= Len(consumers')
            BY <1>7 DEF Fair
        <3>2. m_cindex \in 0..(Len(consumers') - 1) /\ Len(consumers') \in Positive
            BY <1>2, <2>2 DEF Positive
        <3>3. Distance(m_cindex, q, Len(consumers')) \in 0..(Len(consumers') - 1)
            BY <3>2, ReachedInTurn
        <3>4. CASE passed[consumers'[q + 1]] = 0
            BY <3>2, <3>3, <3>4 DEF Positive
        <3>5. CASE q \in 0..(Len(consumers) - 1) /\ consumers'[q + 1] = consumers[q + 1]
            <4>1. PICK a \in Nat : a = passed[consumers[q + 1]]
                BY <1>1, <1>2, <3>5 DEF Positive
            <4>2. a + Distance(m_cindex, q, Len(consumers)) <= Len(consumers)
                BY <3>1, <3>5, <4>1 DEF Fair
            <4>. QED BY <1>2, <2>2, <3>5, <4>1, <4>2 DEF Distance, Positive
        <3>. QED BY <2>2, <3>4, <3>5
    <2>4. ASSUME pc'[Logger] \in {"notify", "release", "relock"},
                 NEW n \in Nat, n >= Len(consumers')
          PROVE  Fair((m_cindex + i[Logger] + 1) % n, n)'
        <3>1. i'[Logger] = i[Logger] /\ m_cindex' = m_cindex
            BY <1>7, <2>4
        <3>2. n >= Len(consumers) /\ n \in Positive
            BY <1>2, <2>2, <2>4 DEF Positive
        <3>3. Fair((m_cindex + i[Logger] + 1) % n, n)
            BY <1>7, <2>4, <3>2 DEF InTheirTurn
        <3>4. PICK c : c = (m_cindex + i[Logger] + 1) % n
            OBVIOUS
        <3>5. c \in 0..(n - 1)
            <4>1. m_cindex + i[Logger] + 1 \in Nat
                BY <1>1, <1>2 DEF Positive
            <4>. QED BY <3>2, <3>4, <4>1, DivMod
        <3>. SUFFICES ASSUME NEW q \in 0..(Len(consumers') - 1)
                      PROVE  passed[consumers'[q + 1]] + Distance(c, q, n) <= n
            BY <1>7, <3>1, <3>4 DEF Fair
        <3>6. q \in 0..(n - 1)
            BY <2>2, <2>4
        <3>7. Distance(c, q, n) \in 0..(n - 1)
            BY <3>2, <3>5, <3>6, ReachedInTurn
        <3>8. CASE passed[consumers'[q + 1]] = 0
            BY <3>2, <3>7, <3>8 DEF Positive
        <3>9. CASE q \in 0..(Len(consumers) - 1) /\ consumers'[q + 1] = consumers[q + 1]
            BY <3>3, <3>4, <3>9 DEF Fair
        <3>. QED BY <2>2, <3>8, <3>9
    <2>5. pc'[Logger] = "scan" => \A j \in 0..(i'[Logger] - 1) : passed'[InTurn(j)'] = 0
        <3>1. CASE pc[Logger] = "scan"
            BY <1>3, <1>7, <3>1
        <3>2. CASE pc[Logger] # "scan" /\ pc'[Logger] = "scan"
            <4>1. i'[Logger] = 0
                BY <1>1, <3>2, ScanBegins
            <4>. QED BY <4>1
        <3>. QED BY <3>1, <3>2
    <2>. QED BY <2>1, <2>3, <2>4, <2>5 DEF InTheirTurn
<1>. QED BY <1>4, <1>5, <1>6, <1>7, AsyncSteps

\* In the asynchronous regime the stream and the cursor have one user.
THEOREM AsyncInductive == Spec => []AsyncInv
<1>1. IInv /\ AsyncInv /\ [Next]_vars => AsyncInv'
    <2>. SUFFICES ASSUME IInv, AsyncInv, [Next]_vars, regime' = "async"
                  PROVE  AllAsync' /\ OneUser' /\ InTheirTurn'
        BY DEF AsyncInv
    <2>1. CASE Next
        <3>1. regime = "async"
            BY <2>1, Kinds DEF OfThread, Register, Log, ReadMode, OfMain, ChangeMode, SetMode,
               ChangeModeDone, ReplaceListener, CallDispatch, OfDispatch, Lock, ScanEmpty,
               ScanFound, ScanDone, Notify, Release, Relock
        <3>. QED BY <2>1, <3>1, AllAsyncKept, OneUserKept, InTheirTurnKept DEF AsyncInv
    <2>2. CASE UNCHANGED vars
        <3>1. AllAsync /\ OneUser /\ InTheirTurn
            BY <2>2 DEF vars, AsyncInv
        <3>2. AllAsync'
            BY <2>2, <3>1 DEF vars, AllAsync, Started, Registered
        <3>3. OneUser'
            BY <2>2, <3>1 DEF vars, OneUser
        <3>4. InTheirTurn'
            BY <2>2, <3>1 DEF vars, InTheirTurn, Fair, InTurn, Waiting
        <3>. QED BY <3>2, <3>3, <3>4
    <2>. QED BY <2>1, <2>2
<1>. QED BY <1>1, InitAsync, LoggerInductive, PTL DEF Spec

\* When the mode was made asynchronous before other threads registered, every event
\* that dispatch took and let go of was given to the listener, for any number of
\* threads and changes of listener (logger_adapter.cpp:193-202).
THEOREM AsyncLosesNoText == Spec => []AsyncShowsEveryEvent
<1>1. AsyncInv => AsyncShowsEveryEvent
    <2>. SUFFICES ASSUME AllAsync, OneUser PROVE EveryReadEventIsShown
        BY DEF AsyncInv, AsyncShowsEveryEvent
    <2>. QED BY Constants DEF OneUser, EveryReadEventIsShown
<1>. QED BY <1>1, AsyncInductive, PTL

\* A queue that waits sees no more events taken from the others than there are
\* queues, however many threads register and whenever they do
\* (logger_adapter.cpp:178, 211-212).
THEOREM ScanIsFair == Spec => []NobodyIsPassedOver
<1>1. IInv /\ AsyncInv => NobodyIsPassedOver
    <2>. SUFFICES ASSUME IInv, InTheirTurn, NEW t \in Threads
                  PROVE  passed[t] <= Len(consumers)
        BY DEF AsyncInv, NobodyIsPassedOver
    <2>1. /\ passed[t] \in Nat /\ pc[Logger] \in Places
          /\ Len(consumers) \in Positive /\ m_cindex \in 0..(Len(consumers) - 1)
        BY Typed, Constants, Positions DEF IInv
    <2>2. CASE t \notin Registered
        <3>1. ~ Waiting(t)
            BY <2>2, Counts DEF IInv, Known, Waiting
        <3>. QED BY <2>1, <3>1 DEF InTheirTurn, Positive
    <2>3. CASE t \in Registered
        <3>1. PICK q \in 0..(Len(consumers) - 1) : consumers[q + 1] = t
            BY <2>3, Positions DEF IInv
        <3>2. \E c \in 0..(Len(consumers) - 1) : Fair(c, Len(consumers))
            <4>1. CASE pc[Logger] \in {"idle", "lock", "scan"}
                BY <2>1, <4>1 DEF InTheirTurn
            <4>2. CASE pc[Logger] \in {"notify", "release", "relock"}
                <5>1. Fair((m_cindex + i[Logger] + 1) % Len(consumers), Len(consumers))
                    BY <2>1, <4>2 DEF InTheirTurn, Positive
                <5>2. m_cindex + i[Logger] + 1 \in Nat
                    <6>1. i[Logger] \in Nat
                        BY Typed, Constants DEF IInv
                    <6>. QED BY <2>1, <6>1 DEF Positive
                <5>3. (m_cindex + i[Logger] + 1) % Len(consumers) \in 0..(Len(consumers) - 1)
                    BY <2>1, <5>2, DivMod
                <5>. QED BY <5>1, <5>3
            <4>3. pc[Logger] \notin {"wrote", "setmode"}
                BY Constants DEF IInv, Held
            <4>. QED BY <2>1, <4>1, <4>2, <4>3 DEF Places
        <3>3. PICK c \in 0..(Len(consumers) - 1) : Fair(c, Len(consumers))
            BY <3>2
        <3>4. passed[t] + Distance(c, q, Len(consumers)) <= Len(consumers)
            BY <3>1, <3>3 DEF Fair
        <3>5. Distance(c, q, Len(consumers)) \in 0..(Len(consumers) - 1)
            BY <2>1, ReachedInTurn
        <3>. QED BY <2>1, <3>4, <3>5 DEF Positive
    <2>. QED BY <2>2, <2>3
<1>. QED BY <1>1, LoggerInductive, AsyncInductive, PTL
-----------------------------------------------------------------------------
(***************************************************************************)
(* Texts in order.  An event in the dispatcher's hand is the newest one    *)
(* taken from its thread, and nothing is shown that was not taken; with    *)
(* OneUser, which has everything else that was taken among the shown.      *)
(***************************************************************************)
InOrder ==
    /\ \A e \in shown : e[2] < read[e[1]]
    /\ pc[Logger] = "notify" =>
          \E t \in Threads : /\ read[t] > 0 /\ event[Logger] = <<t, read[t] - 1>>
                             /\ event[Logger] \notin shown

OrderInv == regime = "async" => InOrder

LEMMA InOrderKept ==
    ASSUME IInv, AllAsync, OneUser, InOrder, Next
    PROVE  InOrder'
<1>1. /\ pc \in [Dispatchers -> Places] /\ Logger \in Dispatchers
      /\ event \in [Dispatchers -> Events \cup {None}]
      /\ read \in [Threads -> 0..MaxEvents] /\ \A t \in Threads : read[t] \in Nat
      /\ shown \subseteq Events
    BY Typed, Constants, Counts DEF IInv
<1>2. CASE ScanFound(Logger)
    <2>0. PICK t : t = Source(Logger)
        OBVIOUS
    <2>1. t \in Threads
        BY <1>1, <1>2, <2>0, FoundIsEvent DEF ScanFound
    <2>2. /\ read' = [read EXCEPT ![t] = @ + 1]
          /\ event' = [event EXCEPT ![Logger] = <<t, read[t]>>]
          /\ UNCHANGED shown
        BY <1>2, <2>0 DEF ScanFound
    <2>3. ASSUME NEW e \in shown PROVE e[2] < read'[e[1]] /\ e # <<t, read[t]>>
        <3>1. e \in Events /\ e[2] < read[e[1]]
            BY <1>1 DEF InOrder
        <3>2. e[1] \in Threads /\ e[2] \in Nat
            BY <3>1, EventIsPair
        <3>3. e[2] < read'[e[1]]
            BY <1>1, <2>1, <2>2, <3>1, <3>2
        <3>4. e[1] = t => e[2] # read[t]
            BY <1>1, <2>1, <3>1, <3>2
        <3>. QED BY <3>3, <3>4
    <2>4. read'[t] = read[t] + 1 /\ event'[Logger] = <<t, read[t]>>
        BY <1>1, <2>1, <2>2
    <2>5. read'[t] > 0 /\ read'[t] - 1 = read[t]
        BY <1>1, <2>1, <2>4
    <2>6. <<t, read[t]>> \notin shown
        BY <2>3
    <2>. QED BY <2>1, <2>2, <2>3, <2>4, <2>5, <2>6 DEF InOrder
<1>3. CASE Notify(Logger)
    <2>1. /\ shown' = shown \cup {event[Logger]} /\ UNCHANGED read
          /\ pc[Logger] = "notify" /\ pc'[Logger] = "release"
        BY <1>1, <1>3 DEF Notify, OneUser
    <2>2. PICK t \in Threads : read[t] > 0 /\ event[Logger] = <<t, read[t] - 1>>
        BY <2>1 DEF InOrder
    <2>3. read[t] - 1 < read[t]
        BY <1>1
    <2>4. ASSUME NEW e \in shown' PROVE e[2] < read'[e[1]]
        <3>1. CASE e \in shown
            BY <2>1, <3>1 DEF InOrder
        <3>2. CASE e = <<t, read[t] - 1>>
            BY <2>1, <2>3, <3>2
        <3>. QED BY <2>1, <2>2, <3>1, <3>2
    <2>. QED BY <2>1, <2>4 DEF InOrder
<1>4. CASE Relock(Logger)
    <2>1. UNCHANGED <<shown, read>> /\ pc'[Logger] = "idle"
        BY <1>1, <1>4 DEF Relock
    <2>. QED BY <2>1 DEF InOrder
<1>5. CASE /\ UNCHANGED <<read, shown>>
           /\ pc[Logger] = "notify" => event'[Logger] = event[Logger]
           /\ pc'[Logger] = "notify" => pc[Logger] = "notify"
    BY <1>5 DEF InOrder
<1>. QED BY <1>2, <1>3, <1>4, <1>5, AsyncSteps

\* When the mode was made asynchronous first, a listener is given each text once and
\* a thread's texts in the order of its log statements (logger_adapter.cpp:181-202).
THEOREM AsyncKeepsOrder == Spec => AsyncShowsInOrder
<1>1. Init => OrderInv
    BY Constants DEF Init, OrderInv, InOrder
<1>2. IInv /\ AsyncInv /\ OrderInv /\ [Next]_vars => OrderInv'
    <2>. SUFFICES ASSUME IInv, AsyncInv, OrderInv, [Next]_vars, regime' = "async"
                  PROVE  InOrder'
        BY DEF OrderInv
    <2>1. CASE Next
        <3>1. regime = "async"
            BY <2>1, Kinds DEF OfThread, Register, Log, ReadMode, OfMain, ChangeMode, SetMode,
               ChangeModeDone, ReplaceListener, CallDispatch, OfDispatch, Lock, ScanEmpty,
               ScanFound, ScanDone, Notify, Release, Relock
        <3>. QED BY <2>1, <3>1, InOrderKept DEF AsyncInv, OrderInv
    <2>2. CASE UNCHANGED vars
        BY <2>2 DEF vars, OrderInv, InOrder
    <2>. QED BY <2>1, <2>2
<1>3. ASSUME IInv, AsyncInv, OrderInv, Next, regime = "async",
             NEW d \in Dispatchers, pc[d] = "notify", pc'[d] # "notify"
      PROVE  /\ event[d] \notin shown
             /\ shown' = shown \cup {event[d]}
             /\ \A n \in 0..(event[d][2] - 1) : <<event[d][1], n>> \in shown
    <2>1. /\ pc \in [Dispatchers -> Places] /\ Logger \in Dispatchers
          /\ \A t \in Threads : read[t] \in Nat
        BY <1>3, Typed, Constants, Counts DEF IInv
    <2>2. AllAsync /\ OneUser /\ InOrder
        BY <1>3 DEF AsyncInv, OrderInv
    <2>3. d = Logger
        BY <1>3, <2>2, Constants DEF AllAsync
    <2>4. Notify(Logger)
        <3>1. ~ ScanFound(Logger) /\ ~ Relock(Logger)
            BY <1>3, <2>3 DEF ScanFound, Relock
        <3>. QED BY <1>3, <2>2, <2>3, <3>1, AsyncSteps
    <2>5. shown' = shown \cup {event[Logger]}
        BY <1>3, <2>2, <2>3, <2>4 DEF Notify, OneUser
    <2>6. PICK t \in Threads : /\ event[Logger] = <<t, read[t] - 1>>
                               /\ event[Logger] \notin shown
        BY <1>3, <2>2, <2>3 DEF InOrder
    <2>7. ASSUME NEW n \in 0..(read[t] - 2) PROVE <<t, n>> \in shown
        <3>1. n \in 0..(read[t] - 1) /\ n # read[t] - 1
            BY <2>1
        <3>2. <<t, n>> # event[Logger]
            BY <2>6, <3>1
        <3>. QED BY <2>2, <3>1, <3>2 DEF OneUser
    <2>8. event[Logger][1] = t /\ event[Logger][2] - 1 = read[t] - 2
        BY <2>1, <2>6
    <2>. QED BY <2>3, <2>5, <2>6, <2>7, <2>8
<1>4. IInv /\ AsyncInv /\ OrderInv /\ [Next]_vars =>
        [regime = "async" =>
            \A d \in Dispatchers : pc[d] = "notify" /\ pc'[d] # "notify" =>
                /\ event[d] \notin shown
                /\ shown' = shown \cup {event[d]}
                /\ \A n \in 0..(event[d][2] - 1) : <<event[d][1], n>> \in shown]_vars
    BY <1>3
<1>. QED BY <1>1, <1>2, <1>4, LoggerInductive, AsyncInductive, PTL DEF Spec, AsyncShowsInOrder
-----------------------------------------------------------------------------
(***************************************************************************)
(* A thread's queue is a channel.                                          *)
(***************************************************************************)
LEMMA InitIsChannel ==
    ASSUME Init, NEW t \in Threads
    PROVE  Queue(t)!ChannelInit
<1>1. logged[t] = 0 /\ read[t] = 0 /\ open = {}
    BY DEF Init
<1>. QED BY <1>1 DEF Queue!ChannelInit, Queue!Nothing

LEMMA LogWrites ==
    ASSUME IInv, NEW t \in Threads, Log(t)
    PROVE  Queue(t)!Write
<1>1. /\ logged \in [Threads -> 0..MaxEvents] /\ read[t] \in Nat /\ logged[t] \in Nat
      /\ QueueSize \in Nat
    BY Counts, Constants
<1>2. /\ logged[t] < MaxEvents /\ logged' = [logged EXCEPT ![t] = @ + 1]
      /\ UNCHANGED <<read, open>>
    BY DEF Log
<1>3. logged[t] - QueueSize < read[t] /\ <<t, logged[t] - QueueSize>> \notin open
    BY DEF Log, HasRoom
<1>4. ~ Queue(t)!Unreleased(Logger, logged[t] - QueueSize)
    BY <1>1, <1>3 DEF Queue!Unreleased
<1>5. logged'[t] = logged[t] + 1
    BY <1>1, <1>2
<1>. QED BY <1>2, <1>4, <1>5 DEF Queue!Write

LEMMA FoundTakes ==
    ASSUME IInv, NEW d \in Dispatchers, ScanFound(d), NEW t \in Threads
    PROVE  IF t = Source(d) THEN Queue(t)!Take(Logger) ELSE UNCHANGED Queue(t)!channelVars
<1>1. PICK u : u = Source(d)
    OBVIOUS
<1>2. /\ u \in Threads /\ read[u] \in Nat /\ read[u] < logged[u] /\ logged[u] <= MaxEvents
      /\ logged[u] \in Nat /\ read \in [Threads -> 0..MaxEvents] /\ MaxEvents \in Nat
    BY <1>1, FoundIsEvent, Counts DEF ScanFound
<1>3. /\ read' = [read EXCEPT ![u] = @ + 1] /\ open' = open \cup {<<u, read[u]>>}
      /\ UNCHANGED logged
    BY <1>1 DEF ScanFound
<1>4. CASE t = u
    <2>1. read'[t] = read[t] + 1
        BY <1>2, <1>3, <1>4
    <2>2. read[t] \in 0..MaxEvents
        BY <1>2, <1>4
    <2>3. {n \in 0..MaxEvents : <<t, n>> \in open'}
            = {n \in 0..MaxEvents : <<t, n>> \in open} \cup {read[t]}
        BY <1>3, <1>4, <2>2
    <2>. QED BY <1>1, <1>2, <1>3, <1>4, <2>1, <2>3 DEF Queue!Take
<1>5. CASE t # u
    <2>1. read'[t] = read[t]
        BY <1>2, <1>3, <1>5
    <2>2. \A n \in 0..MaxEvents : <<t, n>> \in open' <=> <<t, n>> \in open
        BY <1>3, <1>5
    <2>. QED BY <1>1, <1>3, <1>5, <2>1, <2>2 DEF Queue!channelVars
<1>. QED BY <1>4, <1>5

LEMMA ReleaseReleases ==
    ASSUME IInv, NEW d \in Dispatchers, Release(d), NEW t \in Threads
    PROVE  Queue(t)!Release(Logger) \/ UNCHANGED Queue(t)!channelVars
<1>1. open' = open \ {event[d]} /\ UNCHANGED <<logged, read>>
    BY DEF Release
<1>2. event[d] \in Events
    BY DEF Release, IInv, Serving
<1>3. PICK u \in Threads, m \in Nat : event[d] = <<u, m>>
    BY <1>2, EventIsPair
<1>4. CASE t = u /\ m \in 0..MaxEvents /\ <<u, m>> \in open
    <2>1. {n \in 0..MaxEvents : <<t, n>> \in open'}
            = {n \in 0..MaxEvents : <<t, n>> \in open} \ {m}
        BY <1>1, <1>3, <1>4
    <2>2. Queue(t)!ReleaseEvent(Logger, m)
        BY <1>1, <1>4, <2>1 DEF Queue!ReleaseEvent
    <2>3. m \in {n \in 0..MaxEvents : <<t, n>> \in open}
        BY <1>4
    <2>. QED BY <2>2, <2>3 DEF Queue!Release
<1>5. CASE ~ (t = u /\ m \in 0..MaxEvents /\ <<u, m>> \in open)
    <2>1. \A n \in 0..MaxEvents : <<t, n>> \in open' <=> <<t, n>> \in open
        BY <1>1, <1>3, <1>5
    <2>. QED BY <1>1, <2>1 DEF Queue!channelVars
<1>. QED BY <1>4, <1>5

\* Every step of the logger is a step of each thread's channel, or none of it.
LEMMA NextIsChannel ==
    ASSUME IInv, [Next]_vars, NEW t \in Threads
    PROVE  [Queue(t)!ChannelNext]_(Queue(t)!channelVars)
<1>1. CASE \E u \in Threads : Log(u)
    <2>1. PICK u \in Threads : Log(u)
        BY <1>1
    <2>2. CASE u = t
        BY <2>1, <2>2, LogWrites DEF Queue!ChannelNext
    <2>3. CASE u # t
        <3>1. logged'[t] = logged[t]
            BY <2>1, <2>3, Counts DEF Log
        <3>. QED BY <2>1, <3>1 DEF Log, Queue!channelVars
    <2>. QED BY <2>2, <2>3
<1>2. CASE \E d \in Dispatchers : ScanFound(d)
    BY <1>2, FoundTakes DEF Queue!ChannelNext
<1>3. CASE \E d \in Dispatchers : Release(d)
    BY <1>3, ReleaseReleases DEF Queue!ChannelNext
<1>4. CASE UNCHANGED <<logged, read, open>>
    BY <1>4 DEF Queue!channelVars
<1>5. CASE Next
    <2>1. CASE \E u \in Threads : OfThread(u)
        BY <1>1, <1>4, <2>1 DEF OfThread, Register, ReadMode
    <2>2. CASE OfMain \/ CallDispatch
        BY <1>4, <2>2 DEF OfMain, ChangeMode, SetMode, ChangeModeDone, ReplaceListener, CallDispatch
    <2>3. CASE \E d \in Dispatchers : OfDispatch(d)
        BY <1>2, <1>3, <1>4, <2>3 DEF OfDispatch, Lock, ScanEmpty, ScanDone, Notify, Relock
    <2>. QED BY <1>5, <2>1, <2>2, <2>3, Kinds
<1>. QED BY <1>4, <1>5 DEF vars

\* Whoever dispatches, and however many at a time, each thread's queue keeps the
\* promises of Channel to its thread (logger_adapter.cpp:181-202).
THEOREM QueuesImplementChannels == Spec => QueuesAreChannels
<1>1. Init => \A t \in Threads : Queue(t)!ChannelInit
    BY InitIsChannel
<1>2. IInv /\ [Next]_vars =>
        [\A t \in Threads : [Queue(t)!ChannelNext]_(Queue(t)!channelVars)]_vars
    BY NextIsChannel
<1>. QED BY <1>1, <1>2, LoggerInductive, PTL DEF Spec, QueuesAreChannels
=============================================================================
