--------------------------- MODULE One2EachMemory ---------------------------
(***************************************************************************)
(* The one-to-each queue with the memory orders of its atomics: what       *)
(* happens before what.                                                    *)
(*                                                                         *)
(* One2EachQueue interleaves whole steps.  Here each step also records     *)
(* which uses of a bucket's storage a thread is ordered after.  A release  *)
(* leaves what its thread knows with the atomic; an acquire load that      *)
(* sees it takes the knowledge over; a relaxed store leaves nothing; and   *)
(* a read-modify-write continues the release sequence it found (C++20,     *)
(* [intro.races]).  Two uses of a storage, one of them a construction or   *)
(* a destruction, of which neither is known to the later thread, are a     *)
(* data race.                                                              *)
(*                                                                         *)
(* A load that misses may learn something too; leaving that out adds no    *)
(* order.  Loads see the last store: an older number is another miss, and  *)
(* the counter can only be older, hence not yet empty.                     *)
(***************************************************************************)
EXTENDS One2EachQueue

VARIABLES
    knows,          \* thread -> the uses it is ordered after
    seqnView,       \* bucket -> the knowledge left with m_seqn
    counterView,    \* bucket -> the knowledge left with m_counter
    races           \* the uses that raced with an earlier one

memoryVars == <<knows, seqnView, counterView, races>>

\* The latest use of a kind that a thread made of a bucket's storage.
Uses == [by : Handles, kind : {"read", "write"}, of : Buckets]

\* Before the first use there is nothing not to know.
MemoryInit ==
    /\ Init
    /\ knows = [t \in Handles |-> Uses]
    /\ seqnView = [b \in Buckets |-> {}]
    /\ counterView = [b \in Buckets |-> {}]
    /\ races = {}

\* Thread t uses the storage of bucket b: all others lose sight of it.
Use(t, kind, b) ==
    LET use == [by |-> t, kind |-> kind, of |-> b]
        conflicts == {u \in Uses : /\ u.of = b /\ u.by # t
                                   /\ "write" \in {u.kind, kind}}
    IN  /\ knows' = [u \in Handles |->
                        IF u = t THEN knows[u] \cup {use} ELSE knows[u] \ {use}]
        /\ seqnView' = [c \in Buckets |-> seqnView[c] \ {use}]
        /\ counterView' = [c \in Buckets |-> counterView[c] \ {use}]
        /\ races' = IF conflicts \subseteq knows[t] THEN races ELSE races \cup {use}

Acquire(t, view) ==
    /\ knows' = [knows EXCEPT ![t] = @ \cup view]
    /\ UNCHANGED <<seqnView, counterView, races>>

ReleaseSeqn(t, b) ==
    /\ seqnView' = [seqnView EXCEPT ![b] = knows[t]]
    /\ UNCHANGED <<knows, counterView, races>>

RelaxedCounter(b) ==
    /\ counterView' = [counterView EXCEPT ![b] = {}]
    /\ UNCHANGED <<knows, seqnView, races>>

\* Mutant: the pod reader counts down relaxed, as the guard does.
PodOrder_Relaxed(r) == {}

\* What fetch_sub(1, release) of a pod reader adds to the release sequence.
PodOrder(r) == knows[r]

ReleaseCountDown(r, b) ==
    /\ counterView' = [counterView EXCEPT ![b] = @ \cup PodOrder(r)]
    /\ UNCHANGED <<knows, seqnView, races>>

WriterMemory ==
    LET b == w_next_bucket
    IN  \/ TryWriteFull /\ UNCHANGED memoryVars
        \/ TryWriteStart /\ Acquire(Writer, counterView[b])
        \/ Construct /\ Use(Writer, "write", b)
        \/ StampCounter /\ RelaxedCounter(b)
        \/ Publish /\ ReleaseSeqn(Writer, b)

\* The guard's fetch_sub is relaxed: it neither leaves nor takes knowledge, and so
\* the guard that finds itself last is not ordered after the others.
GuardMemory(r, g) ==
    \/ CopyEvent(r, g) /\ Use(r, "read", g.bucket)
    \/ PodFetchSub(r, g) /\ ReleaseCountDown(r, g.bucket)
    \/ GetEvent(r, g) /\ Use(r, "read", g.bucket)
    \/ GuardFetchSub(r, g) /\ UNCHANGED memoryVars
    \/ DestroyEvent(r, g) /\ Use(r, "write", g.bucket)
    \/ StoreEmpty(r, g) /\ RelaxedCounter(g.bucket)

\* Dropping a handle is ordered by the count of the shared_ptr; the buckets go
\* with the last one, when nobody else uses them.
MemoryNext ==
    \/ WriterMemory
    \/ \E r \in Readers :
        \/ TryReadMiss(r) /\ UNCHANGED memoryVars
        \/ TryReadHit(r) /\ Acquire(r, seqnView[r_next_bucket[r]])
        \/ \E g \in guards[r] : GuardMemory(r, g)
    \/ \E h \in MayDrop : DropHandle(h) /\ UNCHANGED memoryVars
    \/ Finished /\ UNCHANGED memoryVars

MemorySpec == MemoryInit /\ [][MemoryNext]_<<vars, memoryVars>>

MemoryFairSpec == MemorySpec /\ Fairness

\* No two threads use a bucket's storage without an order between them: that users
\* may read and write from arbitrary threads (channel/README.md:28) rests on the
\* acquire and release operations on the two atomics of the bucket.
NoDataRace == races = {}
=============================================================================
