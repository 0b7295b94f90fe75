---------------------------- MODULE One2OneQueue ----------------------------
(***************************************************************************)
(* The one-writer/one-reader channel: one2one_seqnum_stream_queue_impl,    *)
(* its bucket, the pod and the object reader, the object guard and the     *)
(* release of the ring buffer when the last handle goes.                   *)
(*                                                                         *)
(* Writer and reader share only the buckets.  A bucket is one atomic       *)
(* sequence number and raw storage; every access to either is a step of    *)
(* its own, and the two threads interleave between any two of them.  What  *)
(* one thread alone can see (the two counters it advances) moves with the  *)
(* shared access next to it.                                               *)
(*                                                                         *)
(* The counters are unsigned words that wrap: counter_t has CntMod values, *)
(* a published sequence number has SeqMod of them (the word without its    *)
(* top bit), and the largest value is the mark of an empty bucket.         *)
(* Masking with 2^k - 1 is written % 2^k.                                  *)
(*                                                                         *)
(* An event is its ordinal.  sent and taken, which count events without    *)
(* wrapping, are history variables: no guard of the code's steps reads     *)
(* them, except the bound MaxEvents.                                       *)
(***************************************************************************)
EXTENDS Integers

CONSTANTS
    Cap,        \* m_storage_mask + 1
    SeqMod,     \* SEQNUM_MASK + 1
    Object,     \* TRUE: the object queue (guards); FALSE: the pod queue
    MaxEvents   \* bound: events the writer starts to write

(***************************************************************************)
(* channel_helper::to2pow gives a power of two not above a quarter of the  *)
(* counter's range, so a queue's capacity divides SEQNUM_MASK + 1 and fits *)
(* into it at least twice.                                                 *)
(***************************************************************************)
ASSUME QueueAssumption ==
    /\ Cap \in Nat \ {0}
    /\ SeqMod \in Nat
    /\ \E k \in 2..SeqMod : SeqMod = Cap * k
    /\ Object \in BOOLEAN
    /\ MaxEvents \in Nat

CntMod == 2 * SeqMod
SEQNUM_MASK == SeqMod - 1
DUMMY_EVENT_SEQ_NUM == CntMod - 1
MIN_EVENT_SEQ_NUM == 0

\* Mutant: the whole word is published, so that an event can look like the mark.
Masked_Unmasked(n) == n

\* The sequence number a counter publishes or waits for.
Masked(n) == n % SeqMod

Writer == "writer"
Reader == "reader"

Buckets == 0..(Cap - 1)
NoEvent == -1

VARIABLES
    m_seqn,         \* bucket -> published sequence number, or the mark
    m_storage,      \* bucket -> the event object alive there, or NoEvent
    w_next_seq_num, \* the queue's m_next_seq_num
    w_next_bucket,  \* the queue's m_next_bucket
    w_pc,           \* where the writer is inside try_write
    r_next_seq_num, \* the reader's m_next_seq_num
    r_next_bucket,  \* the reader's m_next_bucket
    guards,         \* events read and not given back, with their bucket
    closing,        \* those whose event is copied out or destroyed
    delivered,      \* the event the user saw last through try_read/guard
    handles,        \* the shared_ptr owners of the ring buffer
    sent,           \* history: events published
    taken           \* history: successful try_read calls

writerVars == <<w_next_seq_num, w_next_bucket, w_pc, sent>>
readerVars == <<r_next_seq_num, r_next_bucket, taken>>
guardVars  == <<guards, closing, delivered>>
bucketVars == <<m_seqn, m_storage>>
vars == <<bucketVars, writerVars, readerVars, guardVars, handles>>

GuardSet == [bucket : Buckets, event : Nat]

TypeOK ==
    /\ m_seqn \in [Buckets -> 0..DUMMY_EVENT_SEQ_NUM]
    /\ m_storage \in [Buckets -> Nat \cup {NoEvent}]
    /\ w_next_seq_num \in 0..(CntMod - 1)
    /\ w_next_bucket \in Buckets
    /\ w_pc \in {"idle", "construct", "publish"}
    /\ r_next_seq_num \in 0..(CntMod - 1)
    /\ r_next_bucket \in Buckets
    /\ guards \subseteq GuardSet
    /\ closing \subseteq guards
    /\ delivered \in Nat \cup {NoEvent}
    /\ handles \subseteq {Writer, Reader}
    /\ sent \in Nat
    /\ taken \in Nat

Init ==
    /\ m_seqn = [b \in Buckets |-> DUMMY_EVENT_SEQ_NUM]
    /\ m_storage = [b \in Buckets |-> NoEvent]
    /\ w_next_seq_num = MIN_EVENT_SEQ_NUM
    /\ w_next_bucket = MIN_EVENT_SEQ_NUM
    /\ w_pc = "idle"
    /\ r_next_seq_num = MIN_EVENT_SEQ_NUM
    /\ r_next_bucket = MIN_EVENT_SEQ_NUM
    /\ guards = {}
    /\ closing = {}
    /\ delivered = NoEvent
    /\ handles = {Writer, Reader}
    /\ sent = 0
    /\ taken = 0
-----------------------------------------------------------------------------
(***************************************************************************)
(* try_write.  The load of the bucket's sequence number decides; then the  *)
(* event is constructed in place, and the store that publishes it comes    *)
(* last, with the writer's own counters.                                   *)
(***************************************************************************)
WriterIdle == Writer \in handles /\ w_pc = "idle"

FoundEmpty == m_seqn[w_next_bucket] = DUMMY_EVENT_SEQ_NUM

TryWriteFull ==
    /\ WriterIdle
    /\ ~ FoundEmpty
    /\ UNCHANGED vars

\* Mutant: the bucket is published before the event is in it.
TryWriteStart_PublishFirst ==
    /\ WriterIdle
    /\ sent < MaxEvents
    /\ FoundEmpty
    /\ m_seqn' = [m_seqn EXCEPT ![w_next_bucket] = Masked(w_next_seq_num)]
    /\ w_pc' = "construct"
    /\ UNCHANGED <<w_next_seq_num, w_next_bucket, sent, m_storage, readerVars,
                   guardVars, handles>>

TryWriteStart ==
    /\ WriterIdle
    /\ sent < MaxEvents
    /\ FoundEmpty
    /\ w_pc' = "construct"
    /\ UNCHANGED <<w_next_seq_num, w_next_bucket, sent, bucketVars, readerVars,
                   guardVars, handles>>

Construct ==
    /\ w_pc = "construct"
    /\ m_storage' = [m_storage EXCEPT ![w_next_bucket] = sent]
    /\ w_pc' = "publish"
    /\ UNCHANGED <<m_seqn, w_next_seq_num, w_next_bucket, sent, readerVars,
                   guardVars, handles>>

Publish ==
    /\ w_pc = "publish"
    /\ m_seqn' = [m_seqn EXCEPT ![w_next_bucket] = Masked(w_next_seq_num)]
    /\ w_next_seq_num' = (w_next_seq_num + 1) % CntMod
    /\ w_next_bucket' = w_next_seq_num' % Cap
    /\ w_pc' = "idle"
    /\ sent' = sent + 1
    /\ UNCHANGED <<m_storage, readerVars, guardVars, handles>>
-----------------------------------------------------------------------------
(***************************************************************************)
(* try_read.  A hit advances the reader and hands out the bucket.  The pod *)
(* reader copies the event and gives the bucket back before it returns, so *)
(* it has at most one bucket in hand; the object reader returns a guard,   *)
(* and any number of guards may be open, on this or on other threads.      *)
(***************************************************************************)
ReaderIdle == Reader \in handles /\ (Object \/ guards = {})

\* Mutant: the reader forgets that sequence numbers are masked.
Expected_Unmasked == r_next_seq_num

Expected == Masked(r_next_seq_num)

FoundNext == m_seqn[r_next_bucket] = Expected

TryReadMiss ==
    /\ ReaderIdle
    /\ ~ FoundNext
    /\ UNCHANGED vars

\* Mutant: the moved-from temporary try_read builds still owns the bucket, and
\* its destructor gives the bucket back (the pod reader: the mark goes before
\* the copy).
TryReadHit_ReleasesAtOnce ==
    /\ ReaderIdle
    /\ FoundNext
    /\ r_next_seq_num' = (r_next_seq_num + 1) % CntMod
    /\ r_next_bucket' = r_next_seq_num' % Cap
    /\ guards' = guards \cup {[bucket |-> r_next_bucket, event |-> taken]}
    /\ taken' = taken + 1
    /\ m_seqn' = [m_seqn EXCEPT ![r_next_bucket] = DUMMY_EVENT_SEQ_NUM]
    /\ UNCHANGED <<m_storage, writerVars, closing, delivered, handles>>

TryReadHit ==
    /\ ReaderIdle
    /\ FoundNext
    /\ r_next_seq_num' = (r_next_seq_num + 1) % CntMod
    /\ r_next_bucket' = r_next_seq_num' % Cap
    /\ guards' = guards \cup {[bucket |-> r_next_bucket, event |-> taken]}
    /\ taken' = taken + 1
    /\ UNCHANGED <<bucketVars, writerVars, closing, delivered, handles>>

\* The pod reader copies the event out of the bucket.
CopyEvent(g) ==
    /\ ~ Object
    /\ g \notin closing
    /\ delivered' = m_storage[g.bucket]
    /\ closing' = closing \cup {g}
    /\ UNCHANGED <<bucketVars, writerVars, readerVars, guards, handles>>

\* The user looks at the event through the guard, as often as it likes.
GetEvent(g) ==
    /\ Object
    /\ g \notin closing
    /\ delivered' = m_storage[g.bucket]
    /\ UNCHANGED <<bucketVars, writerVars, readerVars, guards, closing, handles>>

\* Mutant: the destructor of the event is not called.
DestroyEvent_Forgotten(g) ==
    /\ Object
    /\ g \notin closing
    /\ closing' = closing \cup {g}
    /\ UNCHANGED <<bucketVars, writerVars, readerVars, guards, delivered, handles>>

\* The guard's destructor destroys the event ...
DestroyEvent(g) ==
    /\ Object
    /\ g \notin closing
    /\ m_storage' = [m_storage EXCEPT ![g.bucket] = NoEvent]
    /\ closing' = closing \cup {g}
    /\ UNCHANGED <<m_seqn, writerVars, readerVars, guards, delivered, handles>>

\* Mutant: the bucket is not marked.
ReleaseBucket_NoMark(g) ==
    /\ g \in closing
    /\ guards' = guards \ {g}
    /\ closing' = closing \ {g}
    /\ UNCHANGED <<bucketVars, writerVars, readerVars, delivered, handles>>

\* ... and marks the bucket empty; the pod reader does so after its copy.
ReleaseBucket(g) ==
    /\ g \in closing
    /\ m_seqn' = [m_seqn EXCEPT ![g.bucket] = DUMMY_EVENT_SEQ_NUM]
    /\ guards' = guards \ {g}
    /\ closing' = closing \ {g}
    /\ UNCHANGED <<m_storage, writerVars, readerVars, delivered, handles>>
-----------------------------------------------------------------------------
(***************************************************************************)
(* The writer and the reader each own the ring buffer; the last one to go  *)
(* runs the destructor of every bucket, which destroys the event of a      *)
(* bucket not marked empty.  A handle goes between its calls.  A guard     *)
(* holds a reference to its bucket and no share of the buffer: it must be  *)
(* gone before the last handle is.                                         *)
(***************************************************************************)
\* Mutant: the buffer is freed and the events in it are not destroyed.
BucketDestructors_None ==
    /\ m_seqn' = [b \in Buckets |-> DUMMY_EVENT_SEQ_NUM]
    /\ UNCHANGED m_storage

BucketDestructors ==
    /\ m_storage' = [b \in Buckets |->
            IF m_seqn[b] # DUMMY_EVENT_SEQ_NUM THEN NoEvent ELSE m_storage[b]]
    /\ m_seqn' = [b \in Buckets |-> DUMMY_EVENT_SEQ_NUM]

DropHandle(h) ==
    /\ h \in handles
    /\ h = Writer => w_pc = "idle"
    /\ h = Reader => Object \/ guards = {}
    /\ handles = {h} => guards = {}
    /\ handles' = handles \ {h}
    /\ IF handles' = {} THEN BucketDestructors ELSE UNCHANGED bucketVars
    /\ UNCHANGED <<writerVars, readerVars, guardVars>>

\* Every handle is gone: nothing is left to happen.
Finished == handles = {} /\ UNCHANGED vars

WriterStep == TryWriteFull \/ TryWriteStart \/ Construct \/ Publish

ReaderStep == TryReadMiss \/ TryReadHit

GuardStep ==
    \E g \in guards :
        CopyEvent(g) \/ GetEvent(g) \/ DestroyEvent(g) \/ ReleaseBucket(g)

Next ==
    \/ WriterStep
    \/ ReaderStep
    \/ GuardStep
    \/ \E h \in {Writer, Reader} : DropHandle(h)
    \/ Finished

Spec == Init /\ [][Next]_vars

\* Some guard of bucket b takes the step A.
GuardsOf(b, A(_)) == \E g \in guards : g.bucket = b /\ A(g)

(***************************************************************************)
(* Threads poll their handles and guards are scope objects: a started      *)
(* try_write completes, a reader that is not dropped calls try_read again, *)
(* and every guard is destroyed at last.  Nothing makes a writer write.    *)
(***************************************************************************)
Fairness ==
    /\ WF_vars(Construct)
    /\ WF_vars(Publish)
    /\ WF_vars(TryReadHit)
    /\ \A b \in Buckets :
        /\ WF_vars(GuardsOf(b, CopyEvent) \/ GuardsOf(b, DestroyEvent))
        /\ WF_vars(GuardsOf(b, ReleaseBucket))

FairSpec == Spec /\ Fairness
-----------------------------------------------------------------------------
(***************************************************************************)
(* Properties.                                                             *)
(***************************************************************************)
\* The events the writer may not overwrite yet.
Held == {g.event : g \in guards}
Unreleased == Held \cup taken..(sent - 1)

\* An event a reader has been given stays whole until that reader is done with
\* it: try_write reuses a bucket only after the guard's destructor (or the pod
\* reader's store) has marked it, however the guards are ordered and however
\* often the sequence number has wrapped.
GuardSeesItsEvent ==
    \A g \in guards \ closing : m_storage[g.bucket] = g.event

\* The sequence number tells exactly where an event object is alive, apart from
\* the bucket the writer is filling and those whose guard is half way through
\* its destructor.  So neither construct_at nor a destructor ever meets a bucket
\* in the wrong state: no event is destroyed twice, none is overwritten alive.
MarkIsExact ==
    Object =>
        \A b \in Buckets :
            m_storage[b] # NoEvent <=>
                \/ w_pc = "publish" /\ b = w_next_bucket
                \/ /\ m_seqn[b] # DUMMY_EVENT_SEQ_NUM
                   /\ \A g \in closing : g.bucket # b

\* try_write refuses an event only when the channel really holds Cap events
\* back: the event it would overwrite is unread or in a guard.  When it accepts,
\* that event has been given back.
FullIffUnreleased ==
    WriterIdle => (~ FoundEmpty <=> (sent - Cap) \in Unreleased)

\* try_read returns an event exactly when one is unread.  A sequence number left
\* over from an earlier lap, or from 2^(w-1) events ago, is never taken for the
\* next one.
EmptyIffAllTaken ==
    Reader \in handles => (FoundNext <=> taken < sent)

\* When the last handle has gone no event is left alive in the ring buffer.
NothingLeaks ==
    (Object /\ handles = {}) => \A b \in Buckets : m_storage[b] = NoEvent

\* What the two threads show their users is a bounded FIFO: the detailed queue
\* implements Channel with the events in guards held.
Ch == INSTANCE Channel WITH
        Readers   <- {Reader},
        taken     <- [r \in {Reader} |-> taken],
        held      <- [r \in {Reader} |-> Held],
        delivered <- [r \in {Reader} |-> delivered]

ImplementsChannel == Ch!ChannelSpec

\* A writer that finds the channel full finds room later, unless one of the two
\* handles is dropped: buckets do not stay marked once they are given back.
FullIsTemporary ==
    (WriterIdle /\ ~ FoundEmpty) ~> (FoundEmpty \/ handles # {Writer, Reader})
=============================================================================
