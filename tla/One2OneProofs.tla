--------------------------- MODULE One2OneProofs ----------------------------
(***************************************************************************)
(* Proofs about One2OneQueue, for every capacity, every width of the       *)
(* counter and any number of events: its type invariant and an inductive   *)
(* invariant from which the safety properties follow.                      *)
(*                                                                         *)
(* The argument.  The events not given back lie in a window of Cap         *)
(* ordinals that ends at the newest one, so no two of them share a bucket; *)
(* each one's bucket carries its sequence number, and every bucket that    *)
(* carries a number has such an event.  A bucket that the writer finds     *)
(* empty is therefore no event's bucket, and a number the reader waits for *)
(* cannot be an older event's, because the window is shorter than the      *)
(* range of sequence numbers.                                              *)
(***************************************************************************)
EXTENDS One2OneQueue, ModArithmetic

\* What the proofs use of the constants.
LEMMA Sizes ==
    /\ Cap \in Positive
    /\ SeqMod \in Positive
    /\ CntMod \in Positive
    /\ 2 * Cap <= SeqMod
    /\ CntMod = SeqMod * 2
    /\ Multiple(SeqMod, Cap)
    /\ DUMMY_EVENT_SEQ_NUM \in Nat
    /\ SeqMod <= DUMMY_EVENT_SEQ_NUM
    /\ DUMMY_EVENT_SEQ_NUM = CntMod - 1
<1>1. /\ Cap \in Positive /\ SeqMod \in Positive /\ 2 * Cap <= SeqMod
      /\ Multiple(SeqMod, Cap)
  BY QueueAssumption, RingSizes
<1>2. CntMod = SeqMod * 2
  BY <1>1 DEF CntMod, Positive
<1> QED BY <1>1, <1>2 DEF DUMMY_EVENT_SEQ_NUM, Positive

\* How the wrapped counters follow the number of events they count.
LEMMA CounterOf ==
    ASSUME NEW n \in Nat
    PROVE  /\ n % CntMod \in 0..(CntMod - 1)
           /\ n % Cap \in Buckets
           /\ n % SeqMod \in 0..(SeqMod - 1)
           /\ n % SeqMod # DUMMY_EVENT_SEQ_NUM
           /\ n % SeqMod \in 0..DUMMY_EVENT_SEQ_NUM
           /\ Masked(n % CntMod) = n % SeqMod
           /\ (n % CntMod) % Cap = n % Cap
           /\ ((n % CntMod) + 1) % CntMod = (n + 1) % CntMod
           /\ ((n + 1) % CntMod) % Cap = (n + 1) % Cap
<1>1. Wrapped(n, Cap, SeqMod, CntMod)
  BY Sizes, RingNumbers
<1>2. n % SeqMod # DUMMY_EVENT_SEQ_NUM /\ n % SeqMod \in 0..DUMMY_EVENT_SEQ_NUM
  BY <1>1, Sizes DEF Positive, Wrapped
<1> QED BY <1>1, <1>2 DEF Buckets, Masked, Wrapped

LEMMA ZeroCounters ==
    0 % CntMod = 0 /\ 0 % Cap = 0 /\ 0 % SeqMod = 0 /\ 0 \in Buckets
<1>1. \A n \in Positive : 0 % n = 0
  <2> SUFFICES ASSUME NEW n \in Positive PROVE 0 % n = 0
    OBVIOUS
  <2>1. 0 \in 0..(n - 1) /\ 0 = n * 0 + 0
    BY DEF Positive
  <2> QED BY <2>1, ModUnique
<1> QED BY <1>1, Sizes DEF Buckets, Positive
-----------------------------------------------------------------------------
(***************************************************************************)
(* The inductive invariant.                                                *)
(***************************************************************************)
\* The wrapped counters follow the histories.
Counters ==
    /\ w_next_seq_num = sent % CntMod
    /\ w_next_bucket = sent % Cap
    /\ r_next_seq_num = taken % CntMod
    /\ r_next_bucket = taken % Cap

\* What is not given back fits into one lap.
Window ==
    /\ taken <= sent
    /\ \A e \in Unreleased : e < sent /\ sent - e <= Cap

GuardsInPlace ==
    \A g \in guards : g.event < taken /\ g.bucket = g.event % Cap

\* While a handle is left, an event's bucket carries its number and, until its
\* guard is half way through its destructor, the event.
Marked ==
    handles # {} =>
        \A e \in Unreleased : m_seqn[e % Cap] = e % SeqMod

Stored ==
    handles # {} =>
        \A e \in Unreleased :
            (\A g \in closing : g.event # e) => m_storage[e % Cap] = e

\* A bucket that carries a number is some event's.
Owned ==
    \A b \in Buckets :
        m_seqn[b] # DUMMY_EVENT_SEQ_NUM => \E e \in Unreleased : b = e % Cap

WriterPlace ==
    /\ w_pc # "idle" => Writer \in handles /\ FoundEmpty /\ sent < MaxEvents
    /\ w_pc = "publish" => m_storage[w_next_bucket] = sent

\* An event object is alive only where the mark says so (or in the writer's hand).
StoredIsMarked ==
    Object =>
        \A b \in Buckets :
            m_storage[b] # NoEvent =>
                \/ w_pc = "publish" /\ b = w_next_bucket
                \/ /\ m_seqn[b] # DUMMY_EVENT_SEQ_NUM
                   /\ \A g \in closing : g.bucket # b

Gone ==
    handles = {} =>
        guards = {} /\ \A b \in Buckets : m_seqn[b] = DUMMY_EVENT_SEQ_NUM

IInv ==
    /\ TypeOK
    /\ Counters
    /\ Window
    /\ GuardsInPlace
    /\ Marked
    /\ Stored
    /\ Owned
    /\ WriterPlace
    /\ StoredIsMarked
    /\ Gone
-----------------------------------------------------------------------------
LEMMA UnreleasedAreNats == TypeOK => Unreleased \subseteq Nat /\ Held \subseteq Nat
BY DEF TypeOK, Unreleased, Held, GuardSet

\* Events not given back are in different buckets.
LEMMA OneLap ==
    ASSUME IInv, NEW e \in Unreleased, NEW f \in Unreleased, e % Cap = f % Cap
    PROVE  e = f
<1>1. e \in Nat /\ f \in Nat /\ sent \in Nat /\ Cap \in Positive
  BY UnreleasedAreNats, Sizes DEF IInv, TypeOK
<1>2. e < sent /\ sent - e <= Cap /\ f < sent /\ sent - f <= Cap
  BY DEF IInv, Window
<1>3. e - f < Cap /\ f - e < Cap
  BY <1>1, <1>2 DEF Positive
<1>4. CASE e <= f
  BY <1>1, <1>3, <1>4, ModInjective
<1>5. CASE f <= e
  BY <1>1, <1>3, <1>5, ModInjective
<1> QED BY <1>1, <1>4, <1>5

\* A bucket the writer finds empty is no event's, and the window has room.
LEMMA EmptyHasRoom ==
    ASSUME IInv, handles # {}, FoundEmpty, NEW e \in Unreleased
    PROVE  e % Cap # w_next_bucket /\ sent - e < Cap
<1>1. e \in Nat /\ sent \in Nat /\ Cap \in Positive
  BY UnreleasedAreNats, Sizes DEF IInv, TypeOK
<1>2. e < sent /\ sent - e <= Cap
  BY DEF IInv, Window
<1>3. m_seqn[e % Cap] # DUMMY_EVENT_SEQ_NUM
  BY <1>1, CounterOf DEF IInv, Marked
<1>4. e % Cap # w_next_bucket
  BY <1>3 DEF FoundEmpty
<1>5. w_next_bucket = sent % Cap
  BY DEF IInv, Counters
<1>6. sent # e + Cap
  BY <1>1, <1>4, <1>5, ModAddModulus
<1> QED BY <1>1, <1>2, <1>4, <1>6 DEF Positive

\* The number the reader waits for is an unread event's: an older one of the same
\* number would be SeqMod events back, out of the window.
LEMMA HitIsUnread ==
    ASSUME IInv, FoundNext
    PROVE  taken < sent
<1> SUFFICES ASSUME taken = sent PROVE FALSE
  BY DEF IInv, Window, TypeOK
<1>1. sent \in Nat /\ Cap \in Positive /\ SeqMod \in Positive /\ 2 * Cap <= SeqMod
  BY Sizes DEF IInv, TypeOK
<1>2. m_seqn[sent % Cap] = sent % SeqMod /\ sent % Cap \in Buckets
  BY <1>1, CounterOf DEF IInv, Counters, FoundNext, Expected
<1>3. sent % SeqMod # DUMMY_EVENT_SEQ_NUM
  BY <1>1, CounterOf
<1>4. PICK e \in Unreleased : sent % Cap = e % Cap
  BY <1>2, <1>3 DEF IInv, Owned
<1>5. handles # {}
  BY <1>2, <1>3 DEF IInv, Gone
<1>6. m_seqn[e % Cap] = e % SeqMod
  BY <1>5 DEF IInv, Marked
<1>7. e \in Nat /\ e < sent /\ sent - e <= Cap
  BY UnreleasedAreNats DEF IInv, Window
<1>8. e % SeqMod = sent % SeqMod
  BY <1>2, <1>4, <1>6
<1>9. sent - e < SeqMod /\ e <= sent
  BY <1>1, <1>7 DEF Positive
<1>10. e = sent
  BY <1>1, <1>7, <1>8, <1>9, ModInjective
<1> QED BY <1>1, <1>7, <1>10

LEMMA InitIInv == Init => IInv
<1> SUFFICES ASSUME Init PROVE IInv
  OBVIOUS
<1>1. TypeOK
  BY ZeroCounters, Sizes
     DEF Init, TypeOK, MIN_EVENT_SEQ_NUM, NoEvent, Buckets, Writer, Reader, Positive
<1>2. Unreleased = {}
  BY DEF Init, Unreleased, Held
<1>3. Counters
  BY ZeroCounters DEF Init, Counters, MIN_EVENT_SEQ_NUM
<1> QED BY <1>1, <1>2, <1>3
        DEF Init, IInv, Window, GuardsInPlace, Marked, Stored, Owned,
            WriterPlace, StoredIsMarked, Gone
-----------------------------------------------------------------------------
(***************************************************************************)
(* Each step of the code keeps the invariant.                              *)
(***************************************************************************)
LEMMA StartKeeps ==
    ASSUME IInv, TryWriteStart
    PROVE  IInv'
<1> USE DEF TryWriteStart, bucketVars, readerVars, guardVars
<1>1. Unreleased' = Unreleased
  BY DEF Unreleased, Held
<1>2. TypeOK'
  BY DEF IInv, TypeOK
<1>3. WriterPlace'
  BY DEF IInv, WriterPlace, WriterIdle, FoundEmpty
<1>4. StoredIsMarked'
  BY DEF IInv, StoredIsMarked, WriterIdle
<1> QED BY <1>1, <1>2, <1>3, <1>4
        DEF IInv, Counters, Window, GuardsInPlace, Marked, Stored, Owned, Gone

LEMMA ConstructKeeps ==
    ASSUME IInv, Construct
    PROVE  IInv'
<1> USE DEF Construct, readerVars, guardVars
<1>1. Unreleased' = Unreleased
  BY DEF Unreleased, Held
<1>2. w_next_bucket \in Buckets /\ sent \in Nat /\ m_storage \in [Buckets -> Nat \cup {NoEvent}]
  BY DEF IInv, TypeOK
<1>3. handles # {} /\ FoundEmpty
  BY DEF IInv, WriterPlace
<1>4. TypeOK'
  BY <1>2 DEF IInv, TypeOK
<1>5. Stored'
  <2> SUFFICES ASSUME NEW e \in Unreleased, \A g \in closing : g.event # e
               PROVE  m_storage'[e % Cap] = e
    BY <1>1 DEF Stored
  <2>1. e % Cap # w_next_bucket
    BY <1>3, EmptyHasRoom
  <2>2. m_storage[e % Cap] = e
    BY <1>3 DEF IInv, Stored
  <2>3. e % Cap \in Buckets
    BY CounterOf, UnreleasedAreNats DEF IInv
  <2> QED BY <1>2, <2>1, <2>2, <2>3
<1>6. WriterPlace'
  BY <1>2 DEF IInv, WriterPlace, FoundEmpty
<1>7. StoredIsMarked'
  BY <1>2 DEF IInv, StoredIsMarked
<1> QED BY <1>1, <1>4, <1>5, <1>6, <1>7
        DEF IInv, Counters, Window, GuardsInPlace, Marked, Owned, Gone

LEMMA PublishKeeps ==
    ASSUME IInv, Publish
    PROVE  IInv'
<1> USE DEF Publish, readerVars, guardVars
<1>1. /\ w_next_bucket = sent % Cap /\ w_next_bucket \in Buckets
      /\ w_next_seq_num = sent % CntMod
      /\ sent \in Nat /\ taken \in Nat /\ taken <= sent
      /\ m_seqn \in [Buckets -> 0..DUMMY_EVENT_SEQ_NUM]
  BY DEF IInv, Counters, TypeOK, Window
<1>2. handles # {} /\ FoundEmpty /\ Writer \in handles /\ m_storage[w_next_bucket] = sent
  BY DEF IInv, WriterPlace
<1>3. Unreleased' = Unreleased \cup {sent}
  BY <1>1 DEF Unreleased, Held
<1>4. Masked(w_next_seq_num) = sent % SeqMod
  BY <1>1, CounterOf
<1>5. sent % SeqMod \in 0..DUMMY_EVENT_SEQ_NUM /\ sent % SeqMod # DUMMY_EVENT_SEQ_NUM
  BY <1>1, CounterOf
<1>6. m_seqn' = [m_seqn EXCEPT ![w_next_bucket] = sent % SeqMod]
  BY <1>4
<1>7. \A e \in Unreleased : e % Cap # w_next_bucket /\ sent - e < Cap /\ e \in Nat
  BY <1>2, EmptyHasRoom, UnreleasedAreNats DEF IInv
<1>8. /\ w_next_seq_num' = (sent + 1) % CntMod
      /\ w_next_bucket' = (sent + 1) % Cap
      /\ w_next_seq_num' \in 0..(CntMod - 1)
      /\ w_next_bucket' \in Buckets
  BY <1>1, CounterOf
<1>9. TypeOK'
  BY <1>1, <1>5, <1>6, <1>8 DEF IInv, TypeOK
<1>10. Counters'
  BY <1>8 DEF IInv, Counters
<1>11. Window'
  <2>1. sent' = sent + 1 /\ Cap \in Positive
    BY Sizes
  <2>2. \A e \in Unreleased : e < sent' /\ sent' - e <= Cap
    BY <1>1, <1>7, <2>1 DEF IInv, Window, Positive
  <2>3. sent < sent' /\ sent' - sent <= Cap
    BY <1>1, <2>1 DEF Positive
  <2> QED BY <1>1, <1>3, <2>1, <2>2, <2>3 DEF Window
<1>12. Marked'
  <2> SUFFICES ASSUME NEW e \in Unreleased \cup {sent}
               PROVE  m_seqn'[e % Cap] = e % SeqMod
    BY <1>3 DEF Marked
  <2>1. CASE e = sent
    BY <1>1, <1>6, <2>1
  <2>2. CASE e \in Unreleased
    BY <1>1, <1>2, <1>6, <1>7, <2>2, CounterOf DEF IInv, Marked
  <2> QED BY <2>1, <2>2
<1>13. Stored'
  BY <1>1, <1>2, <1>3 DEF IInv, Stored
<1>14. Owned'
  BY <1>1, <1>3, <1>6 DEF IInv, Owned
<1>15. WriterPlace'
  BY DEF WriterPlace
<1>16. StoredIsMarked'
  <2>1. \A g \in closing : g.bucket # w_next_bucket
    <3> SUFFICES ASSUME NEW g \in closing PROVE g.bucket # w_next_bucket
      OBVIOUS
    <3>1. g \in guards /\ g.event \in Unreleased /\ g.bucket = g.event % Cap
      BY DEF IInv, TypeOK, Unreleased, Held, GuardsInPlace
    <3> QED BY <1>7, <3>1
  <2> QED BY <1>1, <1>5, <1>6, <2>1 DEF IInv, StoredIsMarked
<1>17. Gone'
  BY <1>2 DEF Gone
<1>18. GuardsInPlace'
  BY DEF IInv, GuardsInPlace
<1> QED BY <1>9, <1>10, <1>11, <1>12, <1>13, <1>14, <1>15, <1>16, <1>17, <1>18 DEF IInv

LEMMA HitKeeps ==
    ASSUME IInv, TryReadHit
    PROVE  IInv'
<1> DEFINE g == [bucket |-> r_next_bucket, event |-> taken]
<1>1. /\ r_next_bucket = taken % Cap /\ r_next_bucket \in Buckets
      /\ r_next_seq_num = taken % CntMod
      /\ sent \in Nat /\ taken \in Nat
  BY DEF IInv, Counters, TypeOK
<1>2. taken < sent
  BY HitIsUnread DEF TryReadHit
<1>3. guards' = guards \cup {g} /\ taken' = taken + 1
  BY DEF TryReadHit
<1>4. g.bucket = taken % Cap /\ g.event = taken /\ g \in GuardSet
  BY <1>1 DEF GuardSet
<1> HIDE DEF g
<1>5. /\ UNCHANGED <<m_seqn, m_storage, closing, delivered, handles, sent>>
      /\ UNCHANGED <<w_next_seq_num, w_next_bucket, w_pc>>
  BY DEF TryReadHit, bucketVars, writerVars
<1>6. Unreleased' = Unreleased
  <2>1. Held' = Held \cup {taken}
    BY <1>3, <1>4 DEF Held
  <2>2. taken..(sent - 1) = {taken} \cup (taken + 1)..(sent - 1)
    BY <1>1, <1>2
  <2> QED BY <1>3, <1>5, <2>1, <2>2 DEF Unreleased
<1>7. /\ r_next_seq_num' = (taken + 1) % CntMod
      /\ r_next_bucket' = (taken + 1) % Cap
      /\ r_next_seq_num' \in 0..(CntMod - 1)
      /\ r_next_bucket' \in Buckets
  BY <1>1, CounterOf DEF TryReadHit
<1>8. TypeOK'
  BY <1>1, <1>3, <1>4, <1>5, <1>7 DEF IInv, TypeOK
<1>9. Counters'
  BY <1>3, <1>5, <1>7 DEF IInv, Counters
<1>10. Window'
  BY <1>1, <1>2, <1>3, <1>5, <1>6 DEF IInv, Window
<1>11. GuardsInPlace'
  <2> SUFFICES ASSUME NEW h \in guards'
               PROVE  h.event < taken + 1 /\ h.bucket = h.event % Cap
    BY <1>3 DEF GuardsInPlace
  <2>1. CASE h = g
    BY <1>1, <1>4, <2>1
  <2>2. CASE h \in guards
    <3>1. h.event \in Nat /\ h.event < taken /\ h.bucket = h.event % Cap
      BY <2>2 DEF IInv, TypeOK, GuardSet, GuardsInPlace
    <3> QED BY <1>1, <3>1
  <2> QED BY <1>3, <2>1, <2>2
<1>12. Gone'
  BY <1>5 DEF TryReadHit, ReaderIdle, Gone
<1>13. WriterPlace' /\ StoredIsMarked' /\ Owned'
  BY <1>5, <1>6 DEF IInv, WriterPlace, FoundEmpty, StoredIsMarked, Owned
<1>14. Marked' /\ Stored'
  BY <1>5, <1>6 DEF IInv, Marked, Stored
<1> QED BY <1>8, <1>9, <1>10, <1>11, <1>12, <1>13, <1>14 DEF IInv

LEMMA CopyKeeps ==
    ASSUME IInv, NEW g \in guards, CopyEvent(g)
    PROVE  IInv'
<1> USE DEF CopyEvent, bucketVars, writerVars, readerVars
<1>1. Unreleased' = Unreleased
  BY DEF Unreleased, Held
<1>2. g.bucket \in Buckets
  BY DEF IInv, TypeOK, GuardSet
<1>3. TypeOK'
  BY <1>2 DEF IInv, TypeOK
<1>4. Stored'
  BY <1>1 DEF IInv, Stored
<1>5. WriterPlace' /\ StoredIsMarked'
  BY DEF IInv, WriterPlace, FoundEmpty, StoredIsMarked
<1> QED BY <1>1, <1>3, <1>4, <1>5
        DEF IInv, Counters, Window, GuardsInPlace, Marked, Owned, Gone

LEMMA GetKeeps ==
    ASSUME IInv, NEW g \in guards, GetEvent(g)
    PROVE  IInv'
<1> USE DEF GetEvent, bucketVars, writerVars, readerVars
<1>1. Unreleased' = Unreleased
  BY DEF Unreleased, Held
<1>2. g.bucket \in Buckets
  BY DEF IInv, TypeOK, GuardSet
<1>3. TypeOK'
  BY <1>2 DEF IInv, TypeOK
<1> QED BY <1>1, <1>3
        DEF IInv, Counters, Window, GuardsInPlace, Marked, Stored, Owned,
            WriterPlace, FoundEmpty, StoredIsMarked, Gone

LEMMA DestroyKeeps ==
    ASSUME IInv, NEW g \in guards, DestroyEvent(g)
    PROVE  IInv'
<1> USE DEF DestroyEvent, writerVars, readerVars
<1>1. Unreleased' = Unreleased
  BY DEF Unreleased, Held
<1>2. /\ g.event \in Unreleased /\ g.bucket = g.event % Cap /\ g.bucket \in Buckets
      /\ m_storage \in [Buckets -> Nat \cup {NoEvent}]
  BY DEF IInv, TypeOK, Unreleased, Held, GuardsInPlace, GuardSet
<1>3. handles # {}
  BY DEF IInv, Gone
<1>4. TypeOK'
  BY <1>2 DEF IInv, TypeOK
<1>5. Stored'
  <2> SUFFICES ASSUME NEW e \in Unreleased, \A h \in closing \cup {g} : h.event # e
               PROVE  m_storage'[e % Cap] = e
    BY <1>1 DEF Stored
  <2>1. e # g.event
    OBVIOUS
  <2>2. e % Cap # g.bucket
    BY <1>2, <2>1, OneLap
  <2>3. e % Cap \in Buckets
    BY CounterOf, UnreleasedAreNats DEF IInv
  <2>4. m_storage[e % Cap] = e
    BY <1>3 DEF IInv, Stored
  <2> QED BY <1>2, <2>2, <2>3, <2>4
<1>6. m_seqn[g.bucket] # DUMMY_EVENT_SEQ_NUM
  BY <1>2, <1>3, CounterOf, UnreleasedAreNats DEF IInv, Marked
<1>7. WriterPlace'
  BY <1>2, <1>6 DEF IInv, WriterPlace, FoundEmpty
<1>8. StoredIsMarked'
  BY <1>2 DEF IInv, StoredIsMarked
<1> QED BY <1>1, <1>4, <1>5, <1>7, <1>8
        DEF IInv, Counters, Window, GuardsInPlace, Marked, Owned, Gone

LEMMA ReleaseKeeps ==
    ASSUME IInv, NEW g \in guards, ReleaseBucket(g)
    PROVE  IInv'
<1>1. /\ g.event \in Unreleased /\ g.bucket = g.event % Cap /\ g.bucket \in Buckets
      /\ g.event \in Nat /\ g.event < taken /\ taken \in Nat /\ sent \in Nat
      /\ m_seqn \in [Buckets -> 0..DUMMY_EVENT_SEQ_NUM]
      /\ DUMMY_EVENT_SEQ_NUM \in Nat
  BY Sizes DEF IInv, TypeOK, Unreleased, Held, GuardsInPlace, GuardSet
<1>2. /\ m_seqn' = [m_seqn EXCEPT ![g.bucket] = DUMMY_EVENT_SEQ_NUM]
      /\ guards' = guards \ {g} /\ closing' = closing \ {g} /\ g \in closing
      /\ UNCHANGED <<m_storage, sent, taken, handles, delivered, w_pc>>
      /\ UNCHANGED <<w_next_seq_num, w_next_bucket, r_next_seq_num, r_next_bucket>>
  BY DEF ReleaseBucket, writerVars, readerVars
<1>3. handles # {}
  BY DEF IInv, Gone
<1>4. \A h \in guards : h.event = g.event => h = g
  <2> SUFFICES ASSUME NEW h \in guards, h.event = g.event PROVE h = g
    OBVIOUS
  <2>1. h \in GuardSet /\ g \in GuardSet /\ h.bucket = g.bucket
    BY <1>1 DEF IInv, TypeOK, GuardsInPlace
  <2> QED BY <2>1 DEF GuardSet
<1>5. Unreleased' = Unreleased \ {g.event}
  <2>1. Held' = Held \ {g.event}
    BY <1>2, <1>4 DEF Held
  <2>2. g.event \notin taken..(sent - 1)
    BY <1>1
  <2> QED BY <1>2, <2>1, <2>2 DEF Unreleased
<1>6. \A e \in Unreleased' : e % Cap # g.bucket /\ e % Cap \in Buckets
  BY <1>1, <1>5, OneLap, CounterOf, UnreleasedAreNats DEF IInv
<1>7. TypeOK'
  BY <1>1, <1>2 DEF IInv, TypeOK
<1>8. Counters' /\ Window' /\ GuardsInPlace'
  BY <1>2, <1>5 DEF IInv, Counters, Window, GuardsInPlace
<1>9. Marked'
  BY <1>1, <1>2, <1>3, <1>5, <1>6 DEF IInv, Marked
<1>10. Stored'
  <2> SUFFICES ASSUME NEW e \in Unreleased', \A h \in closing' : h.event # e
               PROVE  m_storage[e % Cap] = e
    BY <1>2 DEF Stored
  <2>1. e \in Unreleased /\ e # g.event
    BY <1>5
  <2>2. \A h \in closing : h.event # e
    BY <1>2, <2>1
  <2> QED BY <1>3, <2>1, <2>2 DEF IInv, Stored
<1>11. Owned'
  <2> SUFFICES ASSUME NEW b \in Buckets, m_seqn'[b] # DUMMY_EVENT_SEQ_NUM
               PROVE  \E e \in Unreleased' : b = e % Cap
    BY DEF Owned
  <2>1. b # g.bucket /\ m_seqn[b] # DUMMY_EVENT_SEQ_NUM
    BY <1>1, <1>2
  <2>2. PICK e \in Unreleased : b = e % Cap
    BY <2>1 DEF IInv, Owned
  <2> QED BY <1>1, <1>5, <2>1, <2>2
<1>12. WriterPlace'
  BY <1>1, <1>2 DEF IInv, WriterPlace, FoundEmpty, TypeOK
<1>13. StoredIsMarked'
  <2> SUFFICES ASSUME Object, NEW b \in Buckets, m_storage[b] # NoEvent,
                      ~ (w_pc = "publish" /\ b = w_next_bucket)
               PROVE  /\ m_seqn'[b] # DUMMY_EVENT_SEQ_NUM
                      /\ \A h \in closing' : h.bucket # b
    BY <1>2 DEF StoredIsMarked
  <2>1. m_seqn[b] # DUMMY_EVENT_SEQ_NUM /\ \A h \in closing : h.bucket # b
    BY DEF IInv, StoredIsMarked
  <2> QED BY <1>1, <1>2, <2>1
<1>14. Gone'
  BY <1>2, <1>3 DEF Gone
<1> QED BY <1>7, <1>8, <1>9, <1>10, <1>11, <1>12, <1>13, <1>14 DEF IInv

LEMMA DropKeeps ==
    ASSUME IInv, NEW h \in {Writer, Reader}, DropHandle(h)
    PROVE  IInv'
<1> USE DEF DropHandle, writerVars, readerVars, guardVars
<1>1. Unreleased' = Unreleased /\ w_pc \in {"idle", "construct", "publish"}
  BY DEF Unreleased, Held, IInv, TypeOK
<1>2. w_pc # "idle" => Writer \in handles'
  BY DEF IInv, WriterPlace
<1>3. CASE handles' # {}
  <2> USE <1>3 DEF bucketVars
  <2>1. TypeOK'
    BY DEF IInv, TypeOK
  <2>2. WriterPlace'
    BY <1>2 DEF IInv, WriterPlace, FoundEmpty
  <2>3. handles # {}
    OBVIOUS
  <2> QED BY <1>1, <2>1, <2>2, <2>3
          DEF IInv, Counters, Window, GuardsInPlace, Marked, Stored, Owned,
              StoredIsMarked, Gone
<1>4. CASE handles' = {}
  <2>1. BucketDestructors /\ handles = {h} /\ guards = {} /\ w_pc = "idle"
    BY <1>1, <1>2, <1>4
  <2>2. m_seqn' = [b \in Buckets |-> DUMMY_EVENT_SEQ_NUM]
    BY <2>1 DEF BucketDestructors
  <2>3. m_storage' \in [Buckets -> Nat \cup {NoEvent}]
    BY <2>1 DEF BucketDestructors, IInv, TypeOK
  <2>4. DUMMY_EVENT_SEQ_NUM \in 0..DUMMY_EVENT_SEQ_NUM
    BY Sizes
  <2>5. TypeOK'
    BY <2>2, <2>3, <2>4 DEF IInv, TypeOK
  <2>6. closing = {}
    BY <2>1 DEF IInv, TypeOK
  <2>7. StoredIsMarked'
    BY <2>1, <2>6 DEF IInv, StoredIsMarked, BucketDestructors
  <2> QED BY <1>1, <1>4, <2>1, <2>2, <2>5, <2>7
          DEF IInv, Counters, Window, GuardsInPlace, Marked, Stored, Owned,
              WriterPlace, Gone
<1> QED BY <1>3, <1>4

LEMMA StutterKeeps ==
    ASSUME IInv, UNCHANGED vars
    PROVE  IInv'
BY DEF vars, bucketVars, writerVars, readerVars, guardVars, IInv, TypeOK,
       Counters, Window, GuardsInPlace, Marked, Stored, Owned, WriterPlace,
       StoredIsMarked, Gone, Unreleased, Held, FoundEmpty

LEMMA NextKeeps == IInv /\ [Next]_vars => IInv'
<1> SUFFICES ASSUME IInv, [Next]_vars PROVE IInv'
  OBVIOUS
<1>1. CASE TryWriteStart
  BY <1>1, StartKeeps
<1>2. CASE Construct
  BY <1>2, ConstructKeeps
<1>3. CASE Publish
  BY <1>3, PublishKeeps
<1>4. CASE TryReadHit
  BY <1>4, HitKeeps
<1>5. CASE GuardStep
  BY <1>5, CopyKeeps, GetKeeps, DestroyKeeps, ReleaseKeeps DEF GuardStep
<1>6. CASE \E h \in {Writer, Reader} : DropHandle(h)
  BY <1>6, DropKeeps
<1>7. CASE UNCHANGED vars
  BY <1>7, StutterKeeps
<1> QED BY <1>1, <1>2, <1>3, <1>4, <1>5, <1>6, <1>7
        DEF Next, WriterStep, ReaderStep, TryWriteFull, TryReadMiss, Finished
-----------------------------------------------------------------------------
\* Every reachable state satisfies the inductive invariant.
THEOREM Inductive == Spec => []IInv
<1>1. Init => IInv
  BY InitIInv
<1>2. IInv /\ [Next]_vars => IInv'
  BY NextKeeps
<1> QED BY <1>1, <1>2, PTL DEF Spec

\* The counters stay inside their words and every bucket index inside the ring,
\* for every capacity and counter width the code can be instantiated with.
THEOREM TypeCorrect == Spec => []TypeOK
<1>1. IInv => TypeOK
  BY DEF IInv
<1> QED BY <1>1, Inductive, PTL

\* A guard's bucket holds its event until its destructor begins.
LEMMA GuardHasItsEvent == IInv => GuardSeesItsEvent
<1>1. ASSUME IInv, NEW g \in guards \ closing
      PROVE  m_storage[g.bucket] = g.event
  <2>1. g.event \in Unreleased /\ g.bucket = g.event % Cap
    BY <1>1 DEF IInv, GuardsInPlace, Unreleased, Held
  <2>2. \A h \in closing : h.event # g.event
    <3> SUFFICES ASSUME NEW h \in closing, h.event = g.event PROVE FALSE
      OBVIOUS
    <3>1. h \in GuardSet /\ g \in GuardSet /\ h.bucket = g.bucket
      BY <1>1 DEF IInv, TypeOK, GuardsInPlace
    <3>2. h = g
      BY <3>1 DEF GuardSet
    <3> QED BY <1>1, <3>2
  <2>3. handles # {}
    BY <1>1 DEF IInv, Gone
  <2> QED BY <1>1, <2>1, <2>2, <2>3 DEF IInv, Stored
<1> QED BY <1>1 DEF GuardSeesItsEvent

\* An event in a guard is not overwritten or destroyed by anyone else.
THEOREM GuardsAreSafe == Spec => []GuardSeesItsEvent
<1> QED BY GuardHasItsEvent, Inductive, PTL

\* The mark tells exactly where an event object is alive, so that none is leaked,
\* overwritten alive or destroyed twice.
THEOREM MarksAreExact == Spec => []MarkIsExact
<1>1. ASSUME IInv, Object, NEW b \in Buckets, w_pc = "publish", b = w_next_bucket
      PROVE  m_storage[b] # NoEvent
  BY <1>1 DEF IInv, WriterPlace, TypeOK, NoEvent
<1>2. ASSUME IInv, Object, NEW b \in Buckets,
             m_seqn[b] # DUMMY_EVENT_SEQ_NUM, \A g \in closing : g.bucket # b
      PROVE  m_storage[b] # NoEvent
  <2>1. PICK e \in Unreleased : b = e % Cap
    BY <1>2 DEF IInv, Owned
  <2>2. \A g \in closing : g.event # e
    BY <1>2, <2>1 DEF IInv, TypeOK, GuardsInPlace
  <2>3. handles # {} /\ e \in Nat
    BY <1>2, UnreleasedAreNats DEF IInv, Gone
  <2>4. m_storage[b] = e
    BY <1>2, <2>1, <2>2, <2>3 DEF IInv, Stored
  <2> QED BY <2>3, <2>4 DEF NoEvent
<1>3. IInv => MarkIsExact
  BY <1>1, <1>2 DEF MarkIsExact, IInv, StoredIsMarked
<1> QED BY <1>3, Inductive, PTL

\* When the last handle goes nothing is left alive in the ring buffer.
THEOREM NoLeak == Spec => []NothingLeaks
<1>1. IInv => NothingLeaks
  BY DEF IInv, StoredIsMarked, Gone, NothingLeaks, WriterPlace
<1> QED BY <1>1, Inductive, PTL

\* try_write refuses exactly when the event a lap back is not given back.
THEOREM FullIsExact == Spec => []FullIffUnreleased
<1>1. ASSUME IInv, WriterIdle, (sent - Cap) \in Unreleased
      PROVE  ~ FoundEmpty
  <2> SUFFICES ASSUME FoundEmpty PROVE FALSE
    OBVIOUS
  <2>1. handles # {}
    BY <1>1 DEF WriterIdle
  <2>2. sent - (sent - Cap) < Cap
    BY <1>1, <2>1, EmptyHasRoom
  <2> QED BY <1>1, <2>2, Sizes DEF IInv, TypeOK, Positive
<1>2. ASSUME IInv, WriterIdle, ~ FoundEmpty
      PROVE  (sent - Cap) \in Unreleased
  <2>1. /\ w_next_bucket = sent % Cap /\ w_next_bucket \in Buckets
        /\ sent \in Nat /\ Cap \in Positive
    BY <1>2, Sizes DEF IInv, TypeOK, Counters
  <2>2. PICK e \in Unreleased : sent % Cap = e % Cap
    BY <1>2, <2>1 DEF IInv, Owned, FoundEmpty
  <2>3. e \in Nat /\ e < sent /\ sent - e <= Cap
    BY <1>2, UnreleasedAreNats DEF IInv, Window
  <2>4. e + Cap \in Nat /\ (e + Cap) % Cap = sent % Cap
    <3>1. e + Cap \in Nat
      BY <2>1, <2>3 DEF Positive
    <3>2. (e + Cap) % Cap = e % Cap
      BY <2>1, <2>3, ModAddModulus
    <3> QED BY <2>2, <3>1, <3>2
  <2>5. sent <= e + Cap /\ (e + Cap) - sent < Cap
    BY <2>1, <2>3 DEF Positive
  <2>6. sent = e + Cap
    BY <2>1, <2>4, <2>5, ModInjective
  <2> QED BY <2>1, <2>2, <2>3, <2>6 DEF Positive
<1>3. IInv => FullIffUnreleased
  BY <1>1, <1>2 DEF FullIffUnreleased
<1> QED BY <1>3, Inductive, PTL

\* try_read succeeds exactly when an event is unread.
THEOREM EmptyIsExact == Spec => []EmptyIffAllTaken
<1>1. ASSUME IInv, Reader \in handles, taken < sent
      PROVE  FoundNext
  <2>1. taken \in Unreleased /\ taken \in Nat
    BY <1>1 DEF IInv, TypeOK, Unreleased
  <2>2. m_seqn[taken % Cap] = taken % SeqMod
    BY <1>1, <2>1 DEF IInv, Marked
  <2>3. r_next_bucket = taken % Cap /\ Masked(r_next_seq_num) = taken % SeqMod
    BY <1>1, <2>1, CounterOf DEF IInv, Counters
  <2> QED BY <2>2, <2>3 DEF FoundNext, Expected
<1>2. IInv => EmptyIffAllTaken
  BY <1>1, HitIsUnread DEF EmptyIffAllTaken
<1> QED BY <1>2, Inductive, PTL
-----------------------------------------------------------------------------
(***************************************************************************)
(* The queue implements Channel: the writer's store of the sequence number *)
(* is the write, the reader's load of it the take, the store of the mark   *)
(* the release; the other steps do not show.                               *)
(***************************************************************************)
LEMMA InitImplements == Init => Ch!ChannelInit
BY DEF Init, Ch!ChannelInit, Held, NoEvent, Ch!Nothing, Writer, Reader

LEMMA PublishImplements ==
    ASSUME IInv, Publish
    PROVE  Ch!Write
<1>1. handles # {} /\ FoundEmpty /\ Writer \in handles /\ sent < MaxEvents
  BY DEF IInv, WriterPlace, Publish
<1>2. (sent - Cap) \notin Unreleased
  <2> SUFFICES ASSUME (sent - Cap) \in Unreleased PROVE FALSE
    OBVIOUS
  <2>1. sent - (sent - Cap) < Cap
    BY <1>1, EmptyHasRoom
  <2> QED BY <2>1, Sizes DEF IInv, TypeOK, Positive
<1>3. \A r \in {Reader} : ~ Ch!Unreleased(r, sent - Cap)
  BY <1>2 DEF Ch!Unreleased, Unreleased
<1> QED BY <1>1, <1>3 DEF Ch!Write, Publish, readerVars, guardVars, Held

LEMMA HitImplements ==
    ASSUME IInv, TryReadHit
    PROVE  Ch!Take(Reader)
<1>1. taken < sent
  BY HitIsUnread DEF TryReadHit
<1>2. Held' = Held \cup {taken}
  <2> DEFINE g == [bucket |-> r_next_bucket, event |-> taken]
  <2>1. g.event = taken /\ guards' = guards \cup {g}
    BY DEF TryReadHit
  <2> HIDE DEF g
  <2> QED BY <2>1 DEF Held
<1> QED BY <1>1, <1>2
        DEF Ch!Take, TryReadHit, ReaderIdle, writerVars, bucketVars

LEMMA LookImplements ==
    ASSUME IInv, NEW g \in guards, CopyEvent(g) \/ GetEvent(g)
    PROVE  Ch!Look(Reader)
<1>1. g.event \in Held /\ g.event \in Unreleased /\ g.bucket = g.event % Cap
  BY DEF IInv, GuardsInPlace, Unreleased, Held
<1>2. g \notin closing /\ delivered' = m_storage[g.bucket]
  BY DEF CopyEvent, GetEvent
<1>3. \A h \in closing : h.event # g.event
  <2> SUFFICES ASSUME NEW h \in closing, h.event = g.event PROVE FALSE
    OBVIOUS
  <2>1. h \in GuardSet /\ g \in GuardSet /\ h.bucket = g.bucket
    BY DEF IInv, TypeOK, GuardsInPlace
  <2>2. h = g
    BY <2>1 DEF GuardSet
  <2> QED BY <1>2, <2>2
<1>4. handles # {}
  BY DEF IInv, Gone
<1>5. delivered' = g.event
  BY <1>1, <1>2, <1>3, <1>4 DEF IInv, Stored
<1>6. UNCHANGED <<sent, taken, guards, handles>>
  BY DEF CopyEvent, GetEvent, writerVars, readerVars
<1> QED BY <1>1, <1>5, <1>6 DEF Ch!Look, Held

LEMMA ReleaseImplements ==
    ASSUME IInv, NEW g \in guards, ReleaseBucket(g)
    PROVE  Ch!Release(Reader)
<1>1. \A h \in guards : h.event = g.event => h = g
  <2> SUFFICES ASSUME NEW h \in guards, h.event = g.event PROVE h = g
    OBVIOUS
  <2>1. h \in GuardSet /\ g \in GuardSet /\ h.bucket = g.bucket
    BY DEF IInv, TypeOK, GuardsInPlace
  <2> QED BY <2>1 DEF GuardSet
<1>2. g.event \in Held /\ Held' = Held \ {g.event}
  BY <1>1 DEF Held, ReleaseBucket
<1>3. UNCHANGED <<sent, taken, delivered, handles>>
  BY DEF ReleaseBucket, writerVars, readerVars
<1> QED BY <1>2, <1>3 DEF Ch!Release, Ch!ReleaseEvent

LEMMA DropImplements ==
    ASSUME IInv, NEW h \in {Writer, Reader}, DropHandle(h)
    PROVE  Ch!Drop(h)
BY DEF DropHandle, Ch!Drop, Held, writerVars, readerVars, guardVars

LEMMA NextImplements == IInv /\ [Next]_vars => [Ch!ChannelNext]_(Ch!channelVars)
<1> SUFFICES ASSUME IInv, [Next]_vars PROVE [Ch!ChannelNext]_(Ch!channelVars)
  OBVIOUS
<1> USE DEF Ch!channelVars
<1>1. CASE TryWriteStart \/ Construct \/ UNCHANGED vars
  BY <1>1 DEF TryWriteStart, Construct, vars, bucketVars, writerVars,
              readerVars, guardVars, Held
<1>2. CASE Publish
  BY <1>2, PublishImplements DEF Ch!ChannelNext
<1>3. CASE TryReadHit
  BY <1>3, HitImplements DEF Ch!ChannelNext
<1>4. ASSUME NEW g \in guards, CopyEvent(g) \/ GetEvent(g)
      PROVE  Ch!ChannelNext
  BY <1>4, LookImplements DEF Ch!ChannelNext
<1>5. ASSUME NEW g \in guards, DestroyEvent(g)
      PROVE  UNCHANGED Ch!channelVars
  BY <1>5 DEF DestroyEvent, writerVars, readerVars, Held
<1>6. ASSUME NEW g \in guards, ReleaseBucket(g)
      PROVE  Ch!ChannelNext
  BY <1>6, ReleaseImplements DEF Ch!ChannelNext
<1>7. CASE \E h \in {Writer, Reader} : DropHandle(h)
  BY <1>7, DropImplements DEF Ch!ChannelNext
<1> QED BY <1>1, <1>2, <1>3, <1>4, <1>5, <1>6, <1>7
        DEF Next, WriterStep, ReaderStep, GuardStep, TryWriteFull, TryReadMiss,
            Finished

\* The ring buffer with its wrapping counters is a bounded FIFO.
THEOREM QueueImplementsChannel == Spec => ImplementsChannel
<1>1. Init => Ch!ChannelInit
  BY InitImplements
<1>2. IInv /\ [Next]_vars => [Ch!ChannelNext]_(Ch!channelVars)
  BY NextImplements
<1> QED BY <1>1, <1>2, Inductive, PTL
        DEF Spec, ImplementsChannel, Ch!ChannelSpec
-----------------------------------------------------------------------------
(***************************************************************************)
(* What a user of the pod queue knows of its own calls.                    *)
(***************************************************************************)
\* Having read n events, the reader is polling for event n or inside the call that
\* found it.
PollsFor(n) ==
    \/ guards = {} /\ taken = n
    \/ /\ taken = n + 1
       /\ \E g : guards = {g} /\ g.event = n
       /\ closing # {} => delivered = n

HasRead(n) == guards = {} /\ taken = n + 1 /\ delivered = n

\* The call that finds the event returns it.
LEMMA PodReaderStep ==
    ASSUME ~ Object, IInv, NEW n \in Nat, PollsFor(n), ReaderStep \/ GuardStep
    PROVE  /\ IF closing # {} /\ closing' = {} THEN HasRead(n)' ELSE PollsFor(n)'
           /\ UNCHANGED <<sent, w_pc>>
<1>1. closing \subseteq guards
  BY DEF IInv, TypeOK
<1>2. CASE TryReadMiss
  BY <1>2 DEF TryReadMiss, PollsFor, HasRead, vars, writerVars, readerVars, guardVars
<1>3. CASE TryReadHit
  <2>1. guards = {} /\ closing = {} /\ taken = n
    BY <1>1, <1>3 DEF TryReadHit, ReaderIdle, PollsFor
  <2>2. /\ guards' = {[bucket |-> r_next_bucket, event |-> n]} /\ taken' = n + 1
        /\ UNCHANGED <<closing, sent, w_pc>>
    BY <1>3, <2>1 DEF TryReadHit, writerVars
  <2>3. PICK g : g = [bucket |-> r_next_bucket, event |-> n]
    OBVIOUS
  <2>4. guards' = {g} /\ g.event = n /\ closing' = {}
    BY <2>1, <2>2, <2>3
  <2>5. PollsFor(n)'
    BY <2>2, <2>4 DEF PollsFor
  <2> QED BY <2>1, <2>2, <2>5
<1>4. CASE GuardStep
  <2>1. PICK g \in guards : CopyEvent(g) \/ ReleaseBucket(g)
    BY <1>4 DEF GuardStep, GetEvent, DestroyEvent
  <2>2. /\ taken = n + 1 /\ guards = {g} /\ g.event = n
        /\ closing # {} => delivered = n
    BY <2>1 DEF PollsFor
  <2>3. CASE CopyEvent(g)
    <3>1. m_storage[g.bucket] = n
      BY <2>1, <2>2, <2>3, GuardHasItsEvent DEF GuardSeesItsEvent, CopyEvent
    <3>2. delivered' = n /\ closing' # {} /\ UNCHANGED <<guards, taken, sent, w_pc>>
      BY <2>3, <3>1 DEF CopyEvent, readerVars, writerVars
    <3> QED BY <2>2, <3>2 DEF PollsFor
  <2>4. CASE ReleaseBucket(g)
    <3>1. /\ closing # {} /\ closing' = {} /\ guards' = {}
          /\ UNCHANGED <<taken, delivered, sent, w_pc>>
      BY <1>1, <2>2, <2>4 DEF ReleaseBucket, readerVars, writerVars
    <3> QED BY <2>2, <3>1 DEF HasRead
  <2> QED BY <2>1, <2>3, <2>4
<1> QED BY <1>2, <1>3, <1>4 DEF ReaderStep

\* A call of try_write publishes an event or none.
LEMMA WriterCall ==
    ASSUME IInv, WriterStep
    PROVE  /\ UNCHANGED <<taken, guards, closing, delivered>>
           /\ sent' = sent \/ sent' = sent + 1
           /\ sent \in Nat
BY DEF WriterStep, TryWriteFull, TryWriteStart, Construct, Publish, IInv, TypeOK, vars,
       writerVars, readerVars, guardVars
=============================================================================
