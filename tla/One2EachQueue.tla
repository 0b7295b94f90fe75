--------------------------- MODULE One2EachQueue ----------------------------
(***************************************************************************)
(* The one-writer/each-reader channel: every reader gets every event.      *)
(* one2each_seqnum_stream_queue_impl, its bucket, the pod and the object   *)
(* reader, the object guard and the release of the ring buffer.            *)
(*                                                                         *)
(* A bucket has two atomics.  m_counter says how many readers still need   *)
(* it: the writer stamps it and waits for it to come back to zero.  m_seqn *)
(* says which event it holds, and is NOT cleared when the bucket is given  *)
(* back: a reader tells a new event from the old one by its number alone.  *)
(* In the object queue the stamp is one more than the number of readers,   *)
(* so that the last guard can destroy the event before zero is stored.     *)
(*                                                                         *)
(* Each access to a shared atomic or to the storage is a step of its own,  *)
(* taken in the order of the source; counters wrap as in One2OneQueue.     *)
(***************************************************************************)
EXTENDS Integers, FiniteSets

CONSTANTS
    Cap,        \* m_storage_mask + 1
    SeqMod,     \* SEQNUM_MASK + 1
    NReaders,   \* m_next_reader_id once the factory has made the readers
    Object,     \* TRUE: the object queue (guards); FALSE: the pod queue
    MayDrop,    \* bound: the handles that may be destroyed
    MaxOpen,    \* bound: guards a reader keeps open at once
    MaxEvents   \* bound: events the writer starts to write

CntMod == 2 * SeqMod
SEQNUM_MASK == SeqMod - 1
DUMMY_EVENT_SEQ_NUM == CntMod - 1
MIN_EVENT_SEQ_NUM == 0
MIN_READER_ID == 0
DUMMY_READER_ID == 255
EMPTY_DATA_MARK == 0
CONSTRUCTED_DATA_MARK == 1

\* create_reader numbers the readers from MIN_READER_ID and refuses the one that
\* would get DUMMY_READER_ID, which here names the writer's handle.
Readers == MIN_READER_ID..(NReaders - 1)
Writer == DUMMY_READER_ID
Handles == Readers \cup {Writer}

ASSUME EachAssumption ==
    /\ Cap \in Nat \ {0}
    /\ SeqMod \in Nat
    /\ \E k \in 2..SeqMod : SeqMod = Cap * k
    /\ NReaders \in 1..DUMMY_READER_ID /\ NReaders < CntMod
    /\ Object \in BOOLEAN
    /\ MayDrop \subseteq Handles
    /\ MaxOpen \in Nat \ {0}
    /\ MaxEvents \in Nat

Buckets == 0..(Cap - 1)
NoEvent == -1

\* Mutant: the index of the bucket serves as the sequence number.
Masked_Index(n) == n % Cap

Masked(n) == n % SeqMod

\* Mutant: the object queue stamps the number of readers, as the pod queue does.
Stamp_Readers == NReaders % CntMod

\* What try_write stores in m_counter, a word like the other counters.
Stamp ==
    (IF Object THEN NReaders + CONSTRUCTED_DATA_MARK ELSE NReaders) % CntMod

VARIABLES
    m_seqn,         \* bucket -> sequence number published last, or the mark
    m_counter,      \* bucket -> readers that still need it (+ 1: object alive)
    m_storage,      \* bucket -> the event object alive there, or NoEvent
    w_next_seq_num,
    w_next_bucket,
    w_pc,           \* where the writer is inside try_write
    r_next_seq_num, \* one per reader
    r_next_bucket,
    guards,         \* reader -> its reads that have not given the bucket back
    delivered,      \* reader -> the event its user saw last
    handles,        \* the shared_ptr owners of the ring buffer
    destroyed,      \* history: destructor calls on events
    sent,           \* history: events published
    taken           \* history: reader -> successful try_read calls

bucketVars == <<m_seqn, m_counter, m_storage>>
writerVars == <<w_next_seq_num, w_next_bucket, w_pc, sent>>
readerVars == <<r_next_seq_num, r_next_bucket, taken>>
ownerVars == <<handles, destroyed>>
vars == <<bucketVars, writerVars, readerVars, guards, delivered, ownerVars>>

\* A read in progress.  "open": the event may be looked at.  "copied": the pod
\* reader is done with it.  "last", "destroyed": the destructor of the guard that
\* found itself the last one, before and after it destroys the event.
GuardSet ==
    [bucket : Buckets, event : Nat,
     at : {"open", "copied", "last", "destroyed"}]

TypeOK ==
    /\ m_seqn \in [Buckets -> 0..DUMMY_EVENT_SEQ_NUM]
    /\ m_counter \in [Buckets -> 0..(CntMod - 1)]
    /\ m_storage \in [Buckets -> Nat \cup {NoEvent}]
    /\ w_next_seq_num \in 0..(CntMod - 1)
    /\ w_next_bucket \in Buckets
    /\ w_pc \in {"idle", "construct", "stamp", "publish"}
    /\ r_next_seq_num \in [Readers -> 0..(CntMod - 1)]
    /\ r_next_bucket \in [Readers -> Buckets]
    /\ guards \in [Readers -> SUBSET GuardSet]
    /\ delivered \in [Readers -> Nat \cup {NoEvent}]
    /\ handles \subseteq Handles
    /\ destroyed \in Nat
    /\ sent \in Nat
    /\ taken \in [Readers -> Nat]

Init ==
    /\ m_seqn = [b \in Buckets |-> DUMMY_EVENT_SEQ_NUM]
    /\ m_counter = [b \in Buckets |-> EMPTY_DATA_MARK]
    /\ m_storage = [b \in Buckets |-> NoEvent]
    /\ w_next_seq_num = MIN_EVENT_SEQ_NUM
    /\ w_next_bucket = MIN_EVENT_SEQ_NUM
    /\ w_pc = "idle"
    /\ r_next_seq_num = [r \in Readers |-> MIN_EVENT_SEQ_NUM]
    /\ r_next_bucket = [r \in Readers |-> MIN_EVENT_SEQ_NUM]
    /\ guards = [r \in Readers |-> {}]
    /\ delivered = [r \in Readers |-> NoEvent]
    /\ handles = Handles
    /\ destroyed = 0
    /\ sent = 0
    /\ taken = [r \in Readers |-> 0]
-----------------------------------------------------------------------------
(***************************************************************************)
(* try_write: load m_counter, construct the event, stamp m_counter,        *)
(* publish m_seqn.                                                         *)
(***************************************************************************)
WriterIdle == Writer \in handles /\ w_pc = "idle"

FoundEmpty == m_counter[w_next_bucket] = EMPTY_DATA_MARK

TryWriteFull ==
    /\ WriterIdle
    /\ ~ FoundEmpty
    /\ UNCHANGED vars

TryWriteStart ==
    /\ WriterIdle
    /\ sent < MaxEvents
    /\ FoundEmpty
    /\ w_pc' = "construct"
    /\ UNCHANGED <<w_next_seq_num, w_next_bucket, sent, bucketVars, readerVars,
                   guards, delivered, ownerVars>>

Construct ==
    /\ w_pc = "construct"
    /\ m_storage' = [m_storage EXCEPT ![w_next_bucket] = sent]
    /\ w_pc' = "stamp"
    /\ UNCHANGED <<m_seqn, m_counter, w_next_seq_num, w_next_bucket, sent,
                   readerVars, guards, delivered, ownerVars>>

StampCounter ==
    /\ w_pc = "stamp"
    /\ m_counter' = [m_counter EXCEPT ![w_next_bucket] = Stamp]
    /\ w_pc' = "publish"
    /\ UNCHANGED <<m_seqn, m_storage, w_next_seq_num, w_next_bucket, sent,
                   readerVars, guards, delivered, ownerVars>>

Publish ==
    /\ w_pc = "publish"
    /\ m_seqn' = [m_seqn EXCEPT ![w_next_bucket] = Masked(w_next_seq_num)]
    /\ w_next_seq_num' = (w_next_seq_num + 1) % CntMod
    /\ w_next_bucket' = w_next_seq_num' % Cap
    /\ w_pc' = "idle"
    /\ sent' = sent + 1
    /\ UNCHANGED <<m_counter, m_storage, readerVars, guards, delivered, ownerVars>>
-----------------------------------------------------------------------------
(***************************************************************************)
(* try_read of reader r.                                                   *)
(***************************************************************************)
ReaderIdle(r) == r \in handles /\ (Object \/ guards[r] = {})

\* Mutant: the reader forgets that sequence numbers are masked.
Expected_Unmasked(r) == r_next_seq_num[r]

Expected(r) == Masked(r_next_seq_num[r])

FoundNext(r) == m_seqn[r_next_bucket[r]] = Expected(r)

TryReadMiss(r) ==
    /\ ReaderIdle(r)
    /\ ~ FoundNext(r)
    /\ UNCHANGED vars

TryReadHit(r) ==
    /\ ReaderIdle(r)
    /\ FoundNext(r)
    /\ Cardinality(guards[r]) < MaxOpen
    /\ LET next == (r_next_seq_num[r] + 1) % CntMod
           g == [bucket |-> r_next_bucket[r], event |-> taken[r], at |-> "open"]
       IN  /\ r_next_seq_num' = [r_next_seq_num EXCEPT ![r] = next]
           /\ r_next_bucket' = [r_next_bucket EXCEPT ![r] = next % Cap]
           /\ guards' = [guards EXCEPT ![r] = @ \cup {g}]
    /\ taken' = [taken EXCEPT ![r] = @ + 1]
    /\ UNCHANGED <<bucketVars, writerVars, delivered, ownerVars>>

\* Guard g of reader r is at another place, or gone.
Moves(r, g, at) ==
    guards' = [guards EXCEPT ![r] = (@ \ {g}) \cup {[g EXCEPT !.at = at]}]
Leaves(r, g) == guards' = [guards EXCEPT ![r] = @ \ {g}]

CopyEvent(r, g) ==
    /\ ~ Object /\ g.at = "open"
    /\ delivered' = [delivered EXCEPT ![r] = m_storage[g.bucket]]
    /\ Moves(r, g, "copied")
    /\ UNCHANGED <<bucketVars, writerVars, readerVars, ownerVars>>

\* Giving the bucket back: one reader less needs it.
CountDown(b) == m_counter' = [m_counter EXCEPT ![b] = (@ - 1) % CntMod]

PodFetchSub(r, g) ==
    /\ g.at = "copied"
    /\ CountDown(g.bucket)
    /\ Leaves(r, g)
    /\ UNCHANGED <<m_seqn, m_storage, writerVars, readerVars, delivered, ownerVars>>

GetEvent(r, g) ==
    /\ Object /\ g.at = "open"
    /\ delivered' = [delivered EXCEPT ![r] = m_storage[g.bucket]]
    /\ UNCHANGED <<bucketVars, writerVars, readerVars, guards, ownerVars>>

\* The guard's destructor counts down; the value before tells it whether it is
\* the last one.
GuardFetchSub(r, g) ==
    /\ Object /\ g.at = "open"
    /\ CountDown(g.bucket)
    /\ IF m_counter[g.bucket] = CONSTRUCTED_DATA_MARK + 1
       THEN Moves(r, g, "last")
       ELSE Leaves(r, g)
    /\ UNCHANGED <<m_seqn, m_storage, writerVars, readerVars, delivered, ownerVars>>

DestroyEvent(r, g) ==
    /\ g.at = "last"
    /\ m_storage' = [m_storage EXCEPT ![g.bucket] = NoEvent]
    /\ destroyed' = destroyed + 1
    /\ Moves(r, g, "destroyed")
    /\ UNCHANGED <<m_seqn, m_counter, writerVars, readerVars, delivered, handles>>

\* Mutant: the last guard leaves the object mark behind.
StoreEmpty_Forgotten(r, g) ==
    /\ g.at = "destroyed"
    /\ Leaves(r, g)
    /\ UNCHANGED <<bucketVars, writerVars, readerVars, delivered, ownerVars>>

StoreEmpty(r, g) ==
    /\ g.at = "destroyed"
    /\ m_counter' = [m_counter EXCEPT ![g.bucket] = EMPTY_DATA_MARK]
    /\ Leaves(r, g)
    /\ UNCHANGED <<m_seqn, m_storage, writerVars, readerVars, delivered, ownerVars>>
-----------------------------------------------------------------------------
(***************************************************************************)
(* A handle goes between its calls; the last one destroys the buckets, and *)
(* no guard may be open then.                                              *)
(***************************************************************************)
DestroyBuckets(alive) ==
    /\ m_storage' =
           [b \in Buckets |-> IF b \in alive THEN NoEvent ELSE m_storage[b]]
    /\ m_seqn' =
           [b \in Buckets |-> IF b \in alive THEN DUMMY_EVENT_SEQ_NUM ELSE m_seqn[b]]
    /\ m_counter' = [b \in Buckets |-> EMPTY_DATA_MARK]
    /\ destroyed' = destroyed + Cardinality(alive)

\* Mutant: the number tells whether an event is alive, as it does in the bucket
\* of the one-to-one queue; here it is left behind.
BucketDestructors_BySeqn ==
    DestroyBuckets({b \in Buckets : m_seqn[b] # DUMMY_EVENT_SEQ_NUM})

BucketDestructors ==
    DestroyBuckets({b \in Buckets : m_counter[b] # EMPTY_DATA_MARK})

DropHandle(h) ==
    /\ h \in handles
    /\ h = Writer => w_pc = "idle"
    /\ h \in Readers => Object \/ guards[h] = {}
    /\ handles = {h} => \A r \in Readers : guards[r] = {}
    /\ handles' = handles \ {h}
    /\ IF handles' = {} THEN BucketDestructors ELSE UNCHANGED <<bucketVars, destroyed>>
    /\ UNCHANGED <<writerVars, readerVars, guards, delivered>>

Finished == handles = {} /\ UNCHANGED vars

WriterStep == TryWriteFull \/ TryWriteStart \/ Construct \/ StampCounter \/ Publish

GuardStep(r, g) ==
    \/ CopyEvent(r, g) \/ PodFetchSub(r, g)
    \/ GetEvent(r, g) \/ GuardFetchSub(r, g) \/ DestroyEvent(r, g)
    \/ StoreEmpty(r, g)

Next ==
    \/ WriterStep
    \/ \E r \in Readers :
        \/ TryReadMiss(r)
        \/ TryReadHit(r)
        \/ \E g \in guards[r] : GuardStep(r, g)
    \/ \E h \in MayDrop : DropHandle(h)
    \/ Finished

Spec == Init /\ [][Next]_vars

\* A step that closes guard g, whichever it is at.
Closes(r, g) ==
    \/ CopyEvent(r, g) \/ PodFetchSub(r, g)
    \/ GuardFetchSub(r, g) \/ DestroyEvent(r, g) \/ StoreEmpty(r, g)

(***************************************************************************)
(* As in One2OneQueue: a started try_write completes, a reader that is not *)
(* dropped keeps calling try_read, and guards are destroyed at last.       *)
(***************************************************************************)
Fairness ==
    /\ WF_vars(Construct) /\ WF_vars(StampCounter) /\ WF_vars(Publish)
    /\ \A r \in Readers :
        /\ WF_vars(TryReadHit(r))
        /\ \A b \in Buckets :
            WF_vars(\E g \in guards[r] : g.bucket = b /\ Closes(r, g))

FairSpec == Spec /\ Fairness
-----------------------------------------------------------------------------
(***************************************************************************)
(* Properties.                                                             *)
(***************************************************************************)
Held(r) == {g.event : g \in guards[r]}
Unreleased(r) == Held(r) \cup taken[r]..(sent - 1)

\* An event a reader looks at stays whole until that reader's guard is gone,
\* whatever the other readers and their guards do: only the last one destroys
\* it, and only after that does the writer reuse the bucket.
GuardSeesItsEvent ==
    \A r \in Readers : \A g \in guards[r] :
        g.at = "open" => m_storage[g.bucket] = g.event

\* An event object is alive exactly in the buckets whose counter is not zero,
\* apart from the one the writer is filling and those whose last guard has just
\* destroyed it: the destructor of the ring buffer may go by the counter.
MarkIsExact ==
    Object =>
        \A b \in Buckets :
            m_storage[b] # NoEvent <=>
                \/ w_pc \in {"stamp", "publish"} /\ b = w_next_bucket
                \/ /\ m_counter[b] # EMPTY_DATA_MARK
                   /\ ~ \E r \in Readers : \E g \in guards[r] :
                            g.at = "destroyed" /\ g.bucket = b

\* try_write refuses an event exactly when some reader has not given back the
\* event one lap earlier: one slow reader is enough, and the last one to finish
\* makes room.
FullIffUnreleased ==
    WriterIdle =>
        (~ FoundEmpty <=> \E r \in Readers : (sent - Cap) \in Unreleased(r))

\* try_read returns an event exactly when one is unread by this reader, although
\* the numbers of events given back stay in the buckets.
EmptyIffAllTaken ==
    \A r \in Readers \cap handles : FoundNext(r) <=> taken[r] < sent

\* Once the last handle has gone every event written has been destroyed, once.
DestroyedOnce == (Object /\ handles = {}) => destroyed = sent

\* What the writer and every reader show their users is a bounded broadcast FIFO.
Ch == INSTANCE Channel WITH held <- [r \in Readers |-> Held(r)]

ImplementsChannel == Ch!ChannelSpec

\* Every event published is read by every reader that is not dropped, however
\* slow the other readers are.
PublishedIsTaken ==
    \A r \in Readers : \A parity \in {0, 1} :
        (taken[r] < sent /\ taken[r] % 2 = parity)
            ~> (taken[r] % 2 # parity \/ r \notin handles)

\* While no handle is dropped, a writer that finds the channel full finds room
\* later.
FullIsTemporary ==
    (WriterIdle /\ ~ FoundEmpty) ~> (FoundEmpty \/ handles # Handles)

(***************************************************************************)
(* The readers exist and none of them calls try_read: what the writer sees *)
(* of slow readers.                                                        *)
(***************************************************************************)
SlowReadersSpec == Init /\ [][WriterStep]_vars
=============================================================================
