--------------------------- MODULE One2EachProofs ---------------------------
(***************************************************************************)
(* Proofs about One2EachQueue, for every capacity, counter width, number   *)
(* of readers and of events, for the pod and for the object queue: an      *)
(* inductive invariant, the safety properties that follow from it, and the *)
(* refinement of Channel.                                                  *)
(*                                                                         *)
(* The argument.  Every reader's events that are not given back lie in a   *)
(* window of Cap ordinals that ends at the newest one, so two of them in   *)
(* one bucket are the same event.  The counter of an event's bucket is the *)
(* number of readers that still need the event, and one more in the object *)
(* queue: it reaches the mark when the last of them lets go, who alone     *)
(* then destroys the event.  A counter at zero is therefore no event's.    *)
(* The numbers are never cleared; each names the newest event of its       *)
(* bucket, and that one cannot have the number the reader waits for unless *)
(* it is unread, because a lap is shorter than the range of numbers.       *)
(*                                                                         *)
(* At the end, the memory orders of the pod queue: what each release left  *)
(* with an atomic covers every use of the storage that an acquire load of  *)
(* it has to know of.                                                      *)
(***************************************************************************)
EXTENDS One2EachMemory, ModArithmetic, FiniteSetTheorems

\* The stamp fits into its word.  It does not when the object queue counts in
\* std::uint8_t and has the 255 readers create_reader hands out: one2each_255
\* shows what happens then.
StampFits == Object => NReaders + CONSTRUCTED_DATA_MARK < CntMod

\* What the stamp adds to the number of readers.
Mark == IF Object THEN CONSTRUCTED_DATA_MARK ELSE EMPTY_DATA_MARK

\* Places of a guard that has not counted down yet.
InUse == {"open", "copied"}

\* The readers the counter of event e's bucket counts.
Needs(e) ==
    {r \in Readers :
        \/ e \in taken[r]..(sent - 1)
        \/ \E g \in guards[r] : g.event = e /\ g.at \in InUse}
\* What the proofs use of the constants.
LEMMA Sizes ==
    /\ Cap \in Positive
    /\ SeqMod \in Positive
    /\ CntMod \in Positive
    /\ 2 * Cap <= SeqMod
    /\ CntMod = SeqMod * 2
    /\ Multiple(SeqMod, Cap)
    /\ DUMMY_EVENT_SEQ_NUM \in Nat
    /\ SeqMod <= DUMMY_EVENT_SEQ_NUM
    /\ DUMMY_EVENT_SEQ_NUM = CntMod - 1
<1>1. /\ Cap \in Positive /\ SeqMod \in Positive /\ 2 * Cap <= SeqMod
      /\ Multiple(SeqMod, Cap)
  BY EachAssumption, RingSizes
<1>2. CntMod = SeqMod * 2
  BY <1>1 DEF CntMod, Positive
<1> QED BY <1>1, <1>2 DEF DUMMY_EVENT_SEQ_NUM, Positive

\* How the wrapped counters follow the number of events they count.
LEMMA CounterOf ==
    ASSUME NEW n \in Nat
    PROVE  /\ n % CntMod \in 0..(CntMod - 1)
           /\ n % Cap \in Buckets
           /\ n % SeqMod # DUMMY_EVENT_SEQ_NUM
           /\ n % SeqMod \in 0..DUMMY_EVENT_SEQ_NUM
           /\ Masked(n % CntMod) = n % SeqMod
           /\ (n % CntMod) % Cap = n % Cap
           /\ ((n % CntMod) + 1) % CntMod = (n + 1) % CntMod
           /\ ((n + 1) % CntMod) % Cap = (n + 1) % Cap
<1>1. Wrapped(n, Cap, SeqMod, CntMod)
  BY Sizes, RingNumbers
<1>2. n % SeqMod # DUMMY_EVENT_SEQ_NUM /\ n % SeqMod \in 0..DUMMY_EVENT_SEQ_NUM
  BY <1>1, Sizes DEF Positive, Wrapped
<1> QED BY <1>1, <1>2 DEF Buckets, Masked, Wrapped

LEMMA ZeroCounters == 0 % CntMod = 0 /\ 0 % Cap = 0
<1>1. \A n \in Positive : 0 % n = 0
  <2> SUFFICES ASSUME NEW n \in Positive PROVE 0 % n = 0
    OBVIOUS
  <2>1. 0 \in 0..(n - 1) /\ 0 = n * 0 + 0
    BY DEF Positive
  <2> QED BY <2>1, ModUnique
<1> QED BY <1>1, Sizes

\* The readers can be counted, and the writer's handle is none of them.
LEMMA ReadersCounted ==
    /\ IsFiniteSet(Readers)
    /\ Cardinality(Readers) = NReaders
    /\ NReaders \in Positive
    /\ Writer \notin Readers
<1>1. NReaders \in 1..255
  BY EachAssumption DEF DUMMY_READER_ID
<1>2. Readers = 0..(NReaders - 1)
  BY DEF Readers, MIN_READER_ID
<1>3. IsFiniteSet(0..(NReaders - 1)) /\ Cardinality(0..(NReaders - 1)) = NReaders
  BY <1>1, FS_Interval
<1> QED BY <1>1, <1>2, <1>3 DEF Writer, DUMMY_READER_ID, Positive

LEMMA MarkIs ==
    /\ Mark \in {0, 1}
    /\ Mark = 1 <=> Object
    /\ CONSTRUCTED_DATA_MARK = 1
    /\ EMPTY_DATA_MARK = 0
BY EachAssumption DEF Mark, CONSTRUCTED_DATA_MARK, EMPTY_DATA_MARK

LEMMA StampCounts == StampFits => Stamp = NReaders + Mark
<1> SUFFICES ASSUME StampFits PROVE Stamp = NReaders + Mark
  OBVIOUS
<1>1. NReaders + Mark \in Nat /\ NReaders + Mark < CntMod
  BY ReadersCounted, EachAssumption, Sizes
     DEF StampFits, Mark, CONSTRUCTED_DATA_MARK, EMPTY_DATA_MARK, Positive
<1>2. NReaders + Mark \in 0..(CntMod - 1) /\ NReaders + Mark = CntMod * 0 + (NReaders + Mark)
  BY <1>1, Sizes DEF Positive
<1>3. (NReaders + Mark) % CntMod = NReaders + Mark
  BY <1>1, <1>2, Sizes, ModUnique
<1> QED BY <1>3, ReadersCounted DEF Stamp, Mark, EMPTY_DATA_MARK, Positive

LEMMA StampType == Stamp \in 0..(CntMod - 1)
<1>1. NReaders \in Nat /\ NReaders + CONSTRUCTED_DATA_MARK \in Nat
  BY ReadersCounted DEF CONSTRUCTED_DATA_MARK, Positive
<1>2. \A n \in Nat : n % CntMod \in 0..(CntMod - 1)
  BY Sizes, DivMod
<1> QED BY <1>1, <1>2 DEF Stamp

\* The number of readers that need an event, whatever it is.
LEMMA NeedsCounted ==
    ASSUME NEW e
    PROVE  /\ Needs(e) \subseteq Readers
           /\ IsFiniteSet(Needs(e))
           /\ Cardinality(Needs(e)) \in 0..NReaders
           /\ Cardinality(Needs(e)) = 0 <=> Needs(e) = {}
<1>1. Needs(e) \subseteq Readers
  BY DEF Needs
<1>2. IsFiniteSet(Needs(e)) /\ Cardinality(Needs(e)) <= NReaders
  BY <1>1, ReadersCounted, FS_Subset
<1>3. Cardinality(Needs(e)) \in Nat
  BY <1>2, FS_CardinalityType
<1> QED BY <1>1, <1>2, <1>3, FS_EmptySet, ReadersCounted DEF Positive

\* What a reader has not given back it needs, or its last guard is finishing.
LEMMA UnreleasedIs ==
    ASSUME TypeOK, NEW r \in Readers, NEW e
    PROVE  /\ e \in Unreleased(r) => e \in Nat
           /\ r \in Needs(e) => e \in Unreleased(r)
           /\ (e \in Unreleased(r) /\ r \notin Needs(e)) =>
                \E g \in guards[r] : g.event = e /\ g.at \notin InUse
<1>1. guards[r] \subseteq GuardSet /\ taken[r] \in Nat /\ sent \in Nat
  BY DEF TypeOK
<1>2. \A g \in guards[r] : g.event \in Nat
  BY <1>1 DEF GuardSet
<1> QED BY <1>1, <1>2 DEF Unreleased, Held, Needs
-----------------------------------------------------------------------------
(***************************************************************************)
(* The inductive invariant.                                                *)
(***************************************************************************)
\* The wrapped counters follow the histories.
Counters ==
    /\ w_next_seq_num = sent % CntMod
    /\ w_next_bucket = sent % Cap
    /\ \A r \in Readers :
        /\ r_next_seq_num[r] = taken[r] % CntMod
        /\ r_next_bucket[r] = taken[r] % Cap

\* What is not given back fits into one lap.
Window ==
    \A r \in Readers :
        /\ taken[r] <= sent
        /\ \A e \in Unreleased(r) : e < sent /\ sent - e <= Cap

GuardsInPlace ==
    \A r \in Readers : \A g \in guards[r] :
        /\ g.event < taken[r]
        /\ g.bucket = g.event % Cap
        /\ g.at # IF Object THEN "copied" ELSE "last"
        /\ Object \/ g.at # "destroyed"
        /\ \A h \in guards[r] : h.event = g.event => h = g

\* The guard that found itself the last one is: nobody else has the event.
LastIsAlone ==
    \A r \in Readers : \A g \in guards[r] :
        g.at \notin InUse =>
            /\ Needs(g.event) = {}
            /\ \A s \in Readers : s # r => g.event \notin Held(s)

\* While a handle is left, each bucket in use carries its newest event's number.
Numbered ==
    handles # {} =>
        /\ \A e \in 0..(sent - 1) : sent - e <= Cap => m_seqn[e % Cap] = e % SeqMod
        /\ \A b \in Buckets :
            m_seqn[b] # DUMMY_EVENT_SEQ_NUM =>
                \E e \in 0..(sent - 1) : sent - e <= Cap /\ b = e % Cap

\* The counter of an event's bucket counts who needs it.
Counted ==
    handles # {} =>
        \A r \in Readers : \A e \in Unreleased(r) :
            m_counter[e % Cap] = Cardinality(Needs(e)) + Mark

\* A bucket whose counter is not zero is some event's, or the writer's.
Owned ==
    \A b \in Buckets :
        m_counter[b] # EMPTY_DATA_MARK =>
            \/ w_pc = "publish" /\ b = w_next_bucket
            \/ \E r \in Readers : \E e \in Unreleased(r) : b = e % Cap

\* An event not given back is in its bucket until its last guard destroys it.
Stored ==
    handles # {} =>
        \A r \in Readers : \A e \in Unreleased(r) :
            (\A g \in guards[r] : g.at = "destroyed" => g.event # e)
                => m_storage[e % Cap] = e

\* Where the writer is, and that nobody has the bucket it works on.
WriterPlace ==
    w_pc # "idle" =>
        /\ Writer \in handles
        /\ sent < MaxEvents
        /\ \A r \in Readers : \A e \in Unreleased(r) : sent - e < Cap
        /\ m_counter[w_next_bucket]
               = IF w_pc = "publish" THEN Stamp ELSE EMPTY_DATA_MARK
        /\ w_pc # "construct" => m_storage[w_next_bucket] = sent

\* An event object is alive only where the counter says so, or in the writer's
\* hand.
StoredIsCounted ==
    Object =>
        \A b \in Buckets :
            m_storage[b] # NoEvent =>
                \/ w_pc \in {"stamp", "publish"} /\ b = w_next_bucket
                \/ /\ m_counter[b] # EMPTY_DATA_MARK
                   /\ \A r \in Readers : \A g \in guards[r] :
                        g.at = "destroyed" => g.bucket # b

\* The buckets with a published event object in them.
Alive ==
    {b \in Buckets :
        /\ m_storage[b] # NoEvent
        /\ ~ (w_pc \in {"stamp", "publish"} /\ b = w_next_bucket)}

\* Every event published is alive or has been destroyed once.
Balance == Object => destroyed + Cardinality(Alive) = sent

Gone ==
    handles = {} =>
        /\ \A r \in Readers : guards[r] = {}
        /\ \A b \in Buckets : m_counter[b] = EMPTY_DATA_MARK

IInv ==
    /\ TypeOK
    /\ Counters
    /\ Window
    /\ GuardsInPlace
    /\ LastIsAlone
    /\ Numbered
    /\ Counted
    /\ Owned
    /\ Stored
    /\ WriterPlace
    /\ StoredIsCounted
    /\ Balance
    /\ Gone
-----------------------------------------------------------------------------
(***************************************************************************)
(* What the invariant says about the events in the ring.                   *)
(***************************************************************************)
\* Events not given back are in different buckets, whoever has them.
LEMMA OneLap ==
    ASSUME IInv, NEW r \in Readers, NEW s \in Readers,
           NEW e \in Unreleased(r), NEW f \in Unreleased(s), e % Cap = f % Cap
    PROVE  e = f
<1>1. e \in Nat /\ f \in Nat /\ sent \in Nat /\ Cap \in Positive
  BY UnreleasedIs, Sizes DEF IInv, TypeOK
<1>2. e < sent /\ sent - e <= Cap /\ f < sent /\ sent - f <= Cap
  BY DEF IInv, Window
<1>3. e - f < Cap /\ f - e < Cap
  BY <1>1, <1>2 DEF Positive
<1>4. CASE e <= f
  BY <1>1, <1>3, <1>4, ModInjective
<1>5. CASE f <= e
  BY <1>1, <1>3, <1>5, ModInjective
<1> QED BY <1>1, <1>4, <1>5

\* Somebody needs what is not given back, or the mark is still there.
LEMMA CounterIsNotZero ==
    ASSUME IInv, handles # {}, NEW r \in Readers, NEW e \in Unreleased(r)
    PROVE  m_counter[e % Cap] # EMPTY_DATA_MARK
<1>1. m_counter[e % Cap] = Cardinality(Needs(e)) + Mark
  BY DEF IInv, Counted
<1>2. CASE Object
  BY <1>1, <1>2, NeedsCounted, MarkIs, ReadersCounted DEF Positive
<1>3. CASE ~ Object
  <2>1. \A g \in guards[r] : g.at \in InUse
    BY <1>3 DEF IInv, TypeOK, GuardSet, GuardsInPlace, InUse
  <2>2. r \in Needs(e)
    BY <2>1, UnreleasedIs DEF IInv
  <2> QED BY <1>1, <2>2, NeedsCounted, MarkIs, ReadersCounted DEF Positive
<1> QED BY <1>2, <1>3

\* A bucket the writer finds empty is no event's, and the window has room.
LEMMA EmptyHasRoom ==
    ASSUME IInv, handles # {}, FoundEmpty, NEW r \in Readers, NEW e \in Unreleased(r)
    PROVE  sent - e < Cap
<1>1. e \in Nat /\ sent \in Nat /\ Cap \in Positive
  BY UnreleasedIs, Sizes DEF IInv, TypeOK
<1>2. e < sent /\ sent - e <= Cap
  BY DEF IInv, Window
<1>3. e % Cap # w_next_bucket
  BY CounterIsNotZero DEF FoundEmpty
<1>4. w_next_bucket = sent % Cap
  BY DEF IInv, Counters
<1>5. sent # e + Cap
  BY <1>1, <1>3, <1>4, ModAddModulus
<1> QED BY <1>1, <1>2, <1>5 DEF Positive

\* Nobody has an event in the bucket the writer works on.
LEMMA WriterIsAlone ==
    ASSUME IInv, w_pc # "idle"
    PROVE  \A r \in Readers : \A e \in Unreleased(r) : e % Cap # w_next_bucket
<1> SUFFICES ASSUME NEW r \in Readers, NEW e \in Unreleased(r), e % Cap = w_next_bucket
             PROVE  FALSE
  OBVIOUS
<1>1. e \in Nat /\ sent \in Nat /\ Cap \in Positive
  BY UnreleasedIs, Sizes DEF IInv, TypeOK
<1>2. e < sent /\ sent - e < Cap /\ w_next_bucket = sent % Cap
  BY DEF IInv, Window, WriterPlace, Counters
<1>3. e = sent
  BY <1>1, <1>2, ModInjective
<1> QED BY <1>1, <1>2, <1>3

\* A guard and its event.
LEMMA GuardIs ==
    ASSUME IInv, NEW r \in Readers, NEW g \in guards[r]
    PROVE  /\ g \in GuardSet
           /\ g.event \in Nat /\ g.event \in Unreleased(r) /\ g.event \in Held(r)
           /\ g.event < taken[r] /\ g.event \notin taken[r]..(sent - 1)
           /\ g.bucket = g.event % Cap /\ g.bucket \in Buckets
           /\ handles # {}
<1>1. g \in GuardSet /\ taken[r] \in Nat /\ sent \in Nat
  BY DEF IInv, TypeOK
<1>2. g.event < taken[r] /\ g.bucket = g.event % Cap /\ g.event \in Nat /\ g.bucket \in Buckets
  BY <1>1 DEF IInv, GuardsInPlace, GuardSet
<1>3. handles # {}
  BY DEF IInv, Gone
<1> QED BY <1>1, <1>2, <1>3 DEF Unreleased, Held

\* The number the reader waits for is an unread event's: an older one of the same
\* number would be SeqMod events back, out of the lap the buckets hold.
LEMMA HitIsUnread ==
    ASSUME IInv, NEW r \in Readers, r \in handles, FoundNext(r)
    PROVE  taken[r] < sent
<1> SUFFICES ASSUME taken[r] = sent PROVE FALSE
  BY DEF IInv, Window, TypeOK
<1>1. sent \in Nat /\ Cap \in Positive /\ SeqMod \in Positive /\ 2 * Cap <= SeqMod
  BY Sizes DEF IInv, TypeOK
<1>2. m_seqn[sent % Cap] = sent % SeqMod /\ sent % Cap \in Buckets
  BY <1>1, CounterOf DEF IInv, Counters, FoundNext, Expected
<1>3. sent % SeqMod # DUMMY_EVENT_SEQ_NUM
  BY <1>1, CounterOf
<1>4. PICK e \in 0..(sent - 1) : sent - e <= Cap /\ sent % Cap = e % Cap
  BY <1>2, <1>3 DEF IInv, Numbered
<1>5. m_seqn[e % Cap] = e % SeqMod
  BY <1>4 DEF IInv, Numbered
<1>6. e \in Nat /\ e < sent
  BY <1>1, <1>4
<1>7. e % SeqMod = sent % SeqMod
  BY <1>2, <1>4, <1>5
<1>8. sent - e < SeqMod /\ e <= sent
  BY <1>1, <1>4, <1>6 DEF Positive
<1>9. e = sent
  BY <1>1, <1>6, <1>7, <1>8, ModInjective
<1> QED BY <1>1, <1>6, <1>9

LEMMA InitIInv == Init => IInv
<1> SUFFICES ASSUME Init PROVE IInv
  OBVIOUS
<1>0. 0 \in Buckets /\ CntMod \in Positive
  BY Sizes DEF Buckets, Positive
<1>1. TypeOK
  BY <1>0, Sizes DEF Init, TypeOK, MIN_EVENT_SEQ_NUM, EMPTY_DATA_MARK, Positive
<1>2. \A r \in Readers : Unreleased(r) = {}
  BY DEF Init, Unreleased, Held
<1>3. Counters
  BY ZeroCounters DEF Init, Counters, MIN_EVENT_SEQ_NUM
<1>4. Balance
  <2>1. Alive = {}
    BY DEF Init, Alive
  <2> QED BY <2>1, FS_EmptySet DEF Init, Balance
<1>5. Numbered /\ Window
  BY <1>2 DEF Init, Numbered, Window
<1>6. Handles # {}
  BY DEF Handles
<1> QED BY <1>1, <1>2, <1>3, <1>4, <1>5, <1>6
        DEF Init, IInv, GuardsInPlace, LastIsAlone, Counted, Owned, Stored,
            WriterPlace, StoredIsCounted, Gone
-----------------------------------------------------------------------------
(***************************************************************************)
(* The writer's steps keep the invariant.                                  *)
(***************************************************************************)
\* A step that neither takes, publishes nor moves a guard changes nobody's events.
LEMMA SameEvents ==
    ASSUME UNCHANGED <<taken, sent, guards>>
    PROVE  /\ \A r \in Readers : Held(r)' = Held(r)
           /\ \A r \in Readers : Unreleased(r)' = Unreleased(r)
           /\ \A e : Needs(e)' = Needs(e)
BY DEF Held, Unreleased, Needs

LEMMA StartKeeps ==
    ASSUME IInv, TryWriteStart
    PROVE  IInv'
<1> USE DEF TryWriteStart, bucketVars, readerVars, ownerVars
<1>1. handles # {} /\ FoundEmpty
  BY DEF WriterIdle
<1>2. WriterPlace'
  BY <1>1, SameEvents, EmptyHasRoom DEF WriterPlace, WriterIdle, FoundEmpty
<1>3. TypeOK'
  BY DEF IInv, TypeOK
<1>4. Owned' /\ StoredIsCounted'
  BY SameEvents DEF IInv, Owned, StoredIsCounted, WriterIdle
<1>5. Balance'
  <2>1. Alive' = Alive
    BY DEF Alive, WriterIdle
  <2> QED BY <2>1 DEF IInv, Balance
<1>6. Window' /\ LastIsAlone'
  BY SameEvents DEF IInv, Window, LastIsAlone
<1>7. Counted'
  BY SameEvents DEF IInv, Counted
<1>8. Stored'
  BY SameEvents DEF IInv, Stored
<1> QED BY <1>2, <1>3, <1>4, <1>5, <1>6, <1>7, <1>8
        DEF IInv, Counters, GuardsInPlace, Numbered, Gone

LEMMA ConstructKeeps ==
    ASSUME IInv, Construct
    PROVE  IInv'
<1> USE DEF Construct, readerVars, ownerVars
<1>1. /\ w_next_bucket \in Buckets /\ sent \in Nat
      /\ m_storage \in [Buckets -> Nat \cup {NoEvent}]
      /\ m_counter[w_next_bucket] = EMPTY_DATA_MARK
  BY DEF IInv, TypeOK, WriterPlace
<1>2. \A r \in Readers : \A e \in Unreleased(r) :
          e % Cap # w_next_bucket /\ e % Cap \in Buckets
  BY WriterIsAlone, UnreleasedIs, CounterOf DEF IInv
<1>3. TypeOK'
  BY <1>1 DEF IInv, TypeOK
<1>4. Stored'
  BY <1>1, <1>2, SameEvents DEF IInv, Stored
<1>5. WriterPlace'
  BY <1>1, SameEvents DEF IInv, WriterPlace
<1>6. Owned' /\ StoredIsCounted'
  BY <1>1, SameEvents DEF IInv, Owned, StoredIsCounted
<1>7. Balance'
  <2> SUFFICES ASSUME Object PROVE Alive' = Alive
    BY DEF IInv, Balance
  <2>1. m_storage[w_next_bucket] = NoEvent
    BY <1>1 DEF IInv, StoredIsCounted
  <2> QED BY <1>1, <2>1 DEF Alive
<1>8. Window' /\ LastIsAlone'
  BY SameEvents DEF IInv, Window, LastIsAlone
<1>9. Counted'
  BY SameEvents DEF IInv, Counted
<1> QED BY <1>3, <1>4, <1>5, <1>6, <1>7, <1>8, <1>9
        DEF IInv, Counters, GuardsInPlace, Numbered, Gone

LEMMA StampKeeps ==
    ASSUME IInv, StampCounter
    PROVE  IInv'
<1> USE DEF StampCounter, readerVars, ownerVars
<1>1. /\ w_next_bucket \in Buckets /\ m_counter \in [Buckets -> 0..(CntMod - 1)]
      /\ handles # {} /\ m_storage[w_next_bucket] = sent
  BY DEF IInv, TypeOK, WriterPlace
<1>2. \A r \in Readers : \A e \in Unreleased(r) :
          e % Cap # w_next_bucket /\ e % Cap \in Buckets
  BY WriterIsAlone, UnreleasedIs, CounterOf DEF IInv
<1>3. TypeOK'
  BY <1>1, StampType DEF IInv, TypeOK
<1>4. Counted'
  BY <1>1, <1>2, SameEvents DEF IInv, Counted
<1>5. Owned' /\ StoredIsCounted'
  BY <1>1, SameEvents DEF IInv, Owned, StoredIsCounted
<1>6. WriterPlace'
  BY <1>1, SameEvents DEF IInv, WriterPlace
<1>7. Balance'
  <2>1. Alive' = Alive
    BY DEF Alive
  <2> QED BY <2>1 DEF IInv, Balance
<1>8. Window' /\ LastIsAlone'
  BY SameEvents DEF IInv, Window, LastIsAlone
<1>9. Stored' /\ Gone'
  BY <1>1, SameEvents DEF IInv, Stored, Gone
<1> QED BY <1>3, <1>4, <1>5, <1>6, <1>7, <1>8, <1>9
        DEF IInv, Counters, GuardsInPlace, Numbered

LEMMA AliveIsFinite == IsFiniteSet(Alive) /\ Cardinality(Alive) \in Nat
<1>1. Cap - 1 \in Int /\ 0 \in Int
  BY Sizes DEF Positive
<1>2. IsFiniteSet(Buckets)
  BY <1>1, FS_Interval DEF Buckets
<1>3. Alive \subseteq Buckets
  BY DEF Alive
<1> QED BY <1>2, <1>3, FS_Subset, FS_CardinalityType

LEMMA PublishKeeps ==
    ASSUME StampFits, IInv, Publish
    PROVE  IInv'
<1> USE DEF Publish, readerVars, ownerVars
<1>1. /\ w_next_bucket = sent % Cap /\ w_next_bucket \in Buckets
      /\ w_next_seq_num = sent % CntMod
      /\ sent \in Nat /\ taken \in [Readers -> Nat]
      /\ \A r \in Readers : taken[r] \in Nat /\ taken[r] <= sent
      /\ m_seqn \in [Buckets -> 0..DUMMY_EVENT_SEQ_NUM]
  BY DEF IInv, Counters, TypeOK, Window
<1>2. /\ handles # {} /\ m_storage[w_next_bucket] = sent
      /\ m_counter[w_next_bucket] = Stamp
  BY DEF IInv, WriterPlace
<1>3. /\ \A r \in Readers : Held(r)' = Held(r)
      /\ \A r \in Readers : Unreleased(r)' = Unreleased(r) \cup {sent}
      /\ \A e : e = sent => Needs(e)' = Readers
      /\ \A e : e # sent => Needs(e)' = Needs(e)
  <2>1. \A r \in Readers : taken[r]..(sent' - 1) = taken[r]..(sent - 1) \cup {sent}
    BY <1>1
  <2>2. \A r \in Readers : Held(r)' = Held(r)
    BY DEF Held
  <2>3. \A r \in Readers : Unreleased(r)' = Unreleased(r) \cup {sent}
    BY <2>1, <2>2 DEF Unreleased
  <2>4. ASSUME NEW e, e = sent
        PROVE  Needs(e)' = Readers
    BY <2>1, <2>4 DEF Needs
  <2>5. ASSUME NEW e, e # sent
        PROVE  Needs(e)' = Needs(e)
    BY <2>1, <2>5 DEF Needs
  <2> QED BY <2>2, <2>3, <2>4, <2>5
<1>4. m_seqn' = [m_seqn EXCEPT ![w_next_bucket] = sent % SeqMod]
  BY <1>1, CounterOf
<1>5. \A r \in Readers : \A e \in Unreleased(r) :
          /\ e % Cap # w_next_bucket /\ sent - e < Cap
          /\ e \in Nat /\ e # sent /\ e % Cap \in Buckets
  BY WriterIsAlone, UnreleasedIs, CounterOf DEF IInv, WriterPlace, Window
<1>6. /\ w_next_seq_num' = (sent + 1) % CntMod
      /\ w_next_bucket' = (sent + 1) % Cap
      /\ w_next_seq_num' \in 0..(CntMod - 1)
      /\ w_next_bucket' \in Buckets
  BY <1>1, CounterOf
<1>7. TypeOK'
  BY <1>1, <1>4, <1>6, CounterOf DEF IInv, TypeOK
<1>8. Counters'
  BY <1>6 DEF IInv, Counters
<1>9. Window'
  BY <1>1, <1>3, <1>5, Sizes DEF IInv, Window, Positive
<1>10. LastIsAlone'
  <2>1. \A r \in Readers : \A g \in guards[r] : g.event # sent
    BY <1>1, GuardIs
  <2> QED BY <1>3, <2>1 DEF IInv, LastIsAlone
<1>11. Numbered'
  <2>1. ASSUME NEW e \in 0..sent, sent + 1 - e <= Cap
        PROVE  m_seqn'[e % Cap] = e % SeqMod
    <3>1. CASE e = sent
      BY <1>1, <1>4, <3>1
    <3>2. CASE e # sent
      <4>1. e \in 0..(sent - 1) /\ e \in Nat /\ sent - e < Cap /\ sent - e <= Cap /\ e <= sent
        BY <1>1, <2>1, <3>2, Sizes DEF Positive
      <4>2. e % Cap # sent % Cap
        BY <1>1, <3>2, <4>1, Sizes, ModInjective
      <4>3. e % Cap \in Buckets
        BY <4>1, CounterOf
      <4>4. m_seqn[e % Cap] = e % SeqMod
        BY <1>2, <4>1 DEF IInv, Numbered
      <4> QED BY <1>1, <1>4, <4>2, <4>3, <4>4
    <3> QED BY <3>1, <3>2
  <2>2. ASSUME NEW b \in Buckets, m_seqn'[b] # DUMMY_EVENT_SEQ_NUM
        PROVE  \E e \in 0..sent : sent + 1 - e <= Cap /\ b = e % Cap
    <3>1. CASE b = w_next_bucket
      BY <1>1, <3>1, Sizes DEF Positive
    <3>2. CASE b # w_next_bucket
      <4>1. PICK e \in 0..(sent - 1) : sent - e <= Cap /\ b = e % Cap
        BY <1>1, <1>2, <1>4, <2>2, <3>2 DEF IInv, Numbered
      <4>2. e \in Nat /\ e \in 0..sent
        BY <1>1, <4>1
      <4>3. sent # e + Cap
        BY <1>1, <3>2, <4>1, <4>2, Sizes, ModAddModulus
      <4>4. sent + 1 - e <= Cap
        BY <1>1, <4>1, <4>2, <4>3, Sizes DEF Positive
      <4> QED BY <4>1, <4>2, <4>4
    <3> QED BY <3>1, <3>2
  <2>3. sent' = sent + 1 /\ sent' - 1 = sent
    BY <1>1
  <2> QED BY <2>1, <2>2, <2>3 DEF Numbered
<1>12. Counted'
  <2> SUFFICES ASSUME NEW r \in Readers, NEW e \in Unreleased(r) \cup {sent}
               PROVE  m_counter[e % Cap] = Cardinality(Needs(e)') + Mark
    BY <1>3 DEF Counted
  <2>1. CASE e = sent
    <3>1. Needs(e)' = Readers
      BY <1>3, <2>1
    <3>2. m_counter[e % Cap] = Stamp
      BY <1>1, <1>2, <2>1
    <3> QED BY <3>1, <3>2, ReadersCounted, StampCounts
  <2>2. CASE e \in Unreleased(r)
    BY <1>2, <1>3, <1>5, <2>2 DEF IInv, Counted
  <2> QED BY <2>1, <2>2
<1>13. Owned'
  <2>1. Readers # {}
    BY ReadersCounted, FS_EmptySet DEF Positive
  <2> QED BY <1>1, <1>3, <2>1 DEF IInv, Owned
<1>14. Stored'
  BY <1>1, <1>2, <1>3, <1>5 DEF IInv, Stored
<1>15. WriterPlace'
  BY DEF WriterPlace
<1>16. StoredIsCounted'
  <2>1. m_counter[w_next_bucket] # EMPTY_DATA_MARK
    BY <1>2, StampCounts, ReadersCounted, MarkIs DEF Positive
  <2>2. \A r \in Readers : \A g \in guards[r] : g.bucket # w_next_bucket
    BY <1>5, GuardIs
  <2> QED BY <2>1, <2>2 DEF IInv, StoredIsCounted
<1>17. Balance'
  <2> SUFFICES ASSUME Object PROVE destroyed + Cardinality(Alive') = sent + 1
    BY DEF Balance
  <2>1. w_next_bucket \notin Alive /\ Alive' = Alive \cup {w_next_bucket}
    BY <1>1, <1>2 DEF Alive, NoEvent
  <2>2. Cardinality(Alive') = Cardinality(Alive) + 1
    BY <2>1, AliveIsFinite, FS_AddElement
  <2> QED BY <2>2, AliveIsFinite DEF IInv, Balance, TypeOK
<1>18. GuardsInPlace' /\ Gone'
  BY <1>2 DEF IInv, GuardsInPlace, Gone
<1> QED BY <1>7, <1>8, <1>9, <1>10, <1>11, <1>12, <1>13, <1>14, <1>15, <1>16,
           <1>17, <1>18 DEF IInv
-----------------------------------------------------------------------------
(***************************************************************************)
(* The readers' steps keep the invariant.                                  *)
(***************************************************************************)
LEMMA HitKeeps ==
    ASSUME IInv, NEW r \in Readers, TryReadHit(r)
    PROVE  IInv'
<1> DEFINE g == [bucket |-> r_next_bucket[r], event |-> taken[r], at |-> "open"]
<1>1. /\ r_next_bucket[r] = taken[r] % Cap /\ r_next_bucket[r] \in Buckets
      /\ r_next_seq_num[r] = taken[r] % CntMod
      /\ sent \in Nat /\ taken[r] \in Nat /\ taken \in [Readers -> Nat]
      /\ guards \in [Readers -> SUBSET GuardSet]
  BY DEF IInv, Counters, TypeOK
<1>2. taken[r] < sent /\ r \in handles
  BY HitIsUnread DEF TryReadHit, ReaderIdle
<1>3. /\ guards' = [guards EXCEPT ![r] = guards[r] \cup {g}]
      /\ taken' = [taken EXCEPT ![r] = taken[r] + 1]
  BY <1>1 DEF TryReadHit
<1>4. /\ g.bucket = taken[r] % Cap /\ g.event = taken[r] /\ g.at = "open"
      /\ g \in GuardSet
  BY <1>1 DEF GuardSet
<1> HIDE DEF g
<1>5. UNCHANGED <<m_seqn, m_counter, m_storage, w_next_seq_num, w_next_bucket, w_pc,
                  sent, delivered, handles, destroyed>>
  BY DEF TryReadHit, bucketVars, writerVars, ownerVars
<1>6. /\ guards'[r] = guards[r] \cup {g} /\ taken'[r] = taken[r] + 1
      /\ \A s \in Readers : s # r => guards'[s] = guards[s] /\ taken'[s] = taken[s]
  BY <1>1, <1>3
<1>7. taken[r]..(sent - 1) = {taken[r]} \cup (taken[r] + 1)..(sent - 1)
  BY <1>1, <1>2
<1>8. /\ Held(r)' = Held(r) \cup {taken[r]}
      /\ \A s \in Readers : s # r => Held(s)' = Held(s)
  BY <1>4, <1>6 DEF Held
<1>9. \A s \in Readers : Unreleased(s)' = Unreleased(s)
  BY <1>5, <1>6, <1>7, <1>8 DEF Unreleased
<1>10. ASSUME NEW e
       PROVE  Needs(e)' = Needs(e)
  BY <1>4, <1>5, <1>6, <1>7 DEF Needs, InUse
<1>11. /\ r_next_seq_num' = [r_next_seq_num EXCEPT ![r] = (taken[r] + 1) % CntMod]
       /\ r_next_bucket' = [r_next_bucket EXCEPT ![r] = (taken[r] + 1) % Cap]
       /\ (taken[r] + 1) % CntMod \in 0..(CntMod - 1)
       /\ (taken[r] + 1) % Cap \in Buckets
  <2>1. taken[r] + 1 \in Nat
    BY <1>1
  <2>2. /\ (taken[r] + 1) % CntMod \in 0..(CntMod - 1)
        /\ (taken[r] + 1) % Cap \in Buckets
    BY <2>1, CounterOf
  <2>3. /\ (r_next_seq_num[r] + 1) % CntMod = (taken[r] + 1) % CntMod
        /\ ((r_next_seq_num[r] + 1) % CntMod) % Cap = (taken[r] + 1) % Cap
    BY <1>1, CounterOf
  <2> QED BY <2>2, <2>3 DEF TryReadHit
<1>12. TypeOK'
  <2>1. guards' \in [Readers -> SUBSET GuardSet] /\ taken' \in [Readers -> Nat]
    BY <1>1, <1>3, <1>4
  <2>2. /\ r_next_seq_num' \in [Readers -> 0..(CntMod - 1)]
        /\ r_next_bucket' \in [Readers -> Buckets]
    BY <1>11 DEF IInv, TypeOK
  <2> QED BY <1>5, <2>1, <2>2 DEF IInv, TypeOK
<1>13. Counters'
  BY <1>1, <1>5, <1>6, <1>11 DEF IInv, TypeOK, Counters
<1>14. Window'
  <2>1. ASSUME NEW s \in Readers PROVE taken'[s] <= sent
    <3>1. CASE s = r
      BY <1>1, <1>2, <1>6, <3>1
    <3>2. CASE s # r
      BY <1>6, <3>2 DEF IInv, Window
    <3> QED BY <3>1, <3>2
  <2> QED BY <1>5, <1>9, <2>1 DEF IInv, Window
<1>15. GuardsInPlace'
  <2> SUFFICES ASSUME NEW s \in Readers, NEW k \in guards'[s]
               PROVE  /\ k.event < taken'[s] /\ k.bucket = k.event % Cap
                      /\ k.at # IF Object THEN "copied" ELSE "last"
                      /\ Object \/ k.at # "destroyed"
                      /\ \A h \in guards'[s] : h.event = k.event => h = k
    BY DEF GuardsInPlace
  <2>1. CASE s # r
    BY <1>6, <2>1 DEF IInv, GuardsInPlace
  <2>2. CASE s = r /\ k = g
    <3>1. \A h \in guards[r] : h.event # taken[r]
      BY <1>1, GuardIs
    <3> QED BY <1>1, <1>4, <1>6, <2>2, <3>1
  <2>3. CASE s = r /\ k # g
    <3>1. k \in guards[r] /\ k.event \in Nat /\ k.event < taken[r]
      BY <1>6, <2>3, GuardIs
    <3>2. k.event # g.event /\ k.event < taken[r] + 1
      BY <1>1, <1>4, <3>1
    <3> QED BY <1>6, <2>3, <3>1, <3>2 DEF IInv, GuardsInPlace
  <2> QED BY <2>1, <2>2, <2>3
<1>16. LastIsAlone'
  <2> SUFFICES ASSUME NEW s \in Readers, NEW k \in guards'[s], k.at \notin InUse
               PROVE  /\ Needs(k.event) = {}
                      /\ \A t \in Readers : t # s => k.event \notin Held(t)'
    BY <1>10 DEF LastIsAlone
  <2>1. k \in guards[s]
    BY <1>4, <1>6 DEF InUse
  <2>2. Needs(k.event) = {} /\ \A t \in Readers : t # s => k.event \notin Held(t)
    BY <2>1 DEF IInv, LastIsAlone
  <2>3. r \in Needs(taken[r])
    BY <1>1, <1>2 DEF Needs
  <2> QED BY <1>8, <2>2, <2>3
<1>17. Numbered' /\ Owned' /\ Gone'
  BY <1>2, <1>5, <1>9 DEF IInv, Numbered, Owned, Gone
<1>18. Counted'
  BY <1>5, <1>9, <1>10 DEF IInv, Counted
<1>19. Stored'
  BY <1>4, <1>5, <1>6, <1>9 DEF IInv, Stored
<1>20. WriterPlace'
  BY <1>5, <1>9 DEF IInv, WriterPlace
<1>21. StoredIsCounted'
  BY <1>4, <1>5, <1>6 DEF IInv, StoredIsCounted
<1>22. Balance'
  BY <1>5 DEF IInv, Balance, Alive
<1> QED BY <1>12, <1>13, <1>14, <1>15, <1>16, <1>17, <1>18, <1>19, <1>20, <1>21,
           <1>22 DEF IInv

\* What moving a guard changes.
LEMMA MoveIs ==
    ASSUME IInv, NEW r \in Readers, NEW g \in guards[r],
           NEW at \in {"open", "copied", "last", "destroyed"}, Moves(r, g, at),
           UNCHANGED <<taken, sent>>
    PROVE  /\ \E m \in GuardSet :
                /\ m.bucket = g.bucket /\ m.event = g.event /\ m.at = at
                /\ guards'[r] = (guards[r] \ {g}) \cup {m}
           /\ \A s \in Readers : s # r => guards'[s] = guards[s]
           /\ guards' \in [Readers -> SUBSET GuardSet]
           /\ \A s \in Readers : Held(s)' = Held(s)
           /\ \A s \in Readers : Unreleased(s)' = Unreleased(s)
<1>1. guards \in [Readers -> SUBSET GuardSet] /\ g \in GuardSet
  BY DEF IInv, TypeOK
<1>2. PICK m : m = [g EXCEPT !.at = at]
  OBVIOUS
<1>3. m \in GuardSet /\ m.bucket = g.bucket /\ m.event = g.event /\ m.at = at
  BY <1>1, <1>2 DEF GuardSet
<1>4. guards' = [guards EXCEPT ![r] = (guards[r] \ {g}) \cup {m}]
  BY <1>2 DEF Moves
<1>5. guards'[r] = (guards[r] \ {g}) \cup {m}
  BY <1>1, <1>4
<1>6. \A s \in Readers : s # r => guards'[s] = guards[s]
  BY <1>1, <1>4
<1>7. guards' \in [Readers -> SUBSET GuardSet]
  BY <1>1, <1>3, <1>4
<1>8. \A s \in Readers : Held(s)' = Held(s)
  <2>1. Held(r)' = Held(r)
    BY <1>3, <1>5 DEF Held
  <2> QED BY <1>6, <2>1 DEF Held
<1>9. \A s \in Readers : Unreleased(s)' = Unreleased(s)
  BY <1>8 DEF Unreleased
<1> QED BY <1>3, <1>5, <1>6, <1>7, <1>8, <1>9

\* What closing a guard changes.
LEMMA LeaveIs ==
    ASSUME IInv, NEW r \in Readers, NEW g \in guards[r], Leaves(r, g),
           UNCHANGED <<taken, sent>>
    PROVE  /\ guards'[r] = guards[r] \ {g}
           /\ \A s \in Readers : s # r => guards'[s] = guards[s]
           /\ guards' \in [Readers -> SUBSET GuardSet]
           /\ Held(r)' = Held(r) \ {g.event}
           /\ \A s \in Readers : s # r => Held(s)' = Held(s)
           /\ Unreleased(r)' = Unreleased(r) \ {g.event}
           /\ \A s \in Readers : s # r => Unreleased(s)' = Unreleased(s)
<1>1. guards \in [Readers -> SUBSET GuardSet]
  BY DEF IInv, TypeOK
<1>2. guards'[r] = guards[r] \ {g}
  BY <1>1 DEF Leaves
<1>3. \A s \in Readers : s # r => guards'[s] = guards[s]
  BY <1>1 DEF Leaves
<1>4. guards' \in [Readers -> SUBSET GuardSet]
  BY <1>1 DEF Leaves
<1>5. Held(r)' = Held(r) \ {g.event}
  <2>1. \A h \in guards[r] : h.event = g.event => h = g
    BY DEF IInv, GuardsInPlace
  <2> QED BY <1>2, <2>1 DEF Held
<1>6. \A s \in Readers : s # r => Held(s)' = Held(s)
  BY <1>3 DEF Held
<1>7. Unreleased(r)' = Unreleased(r) \ {g.event}
  BY <1>5, GuardIs DEF Unreleased
<1>8. \A s \in Readers : s # r => Unreleased(s)' = Unreleased(s)
  BY <1>6 DEF Unreleased
<1> QED BY <1>2, <1>3, <1>4, <1>5, <1>6, <1>7, <1>8

\* A move keeps the shape of the guards.
LEMMA MoveKeepsPlaces ==
    ASSUME IInv, NEW r \in Readers, NEW g \in guards[r],
           NEW at \in {"open", "copied", "last", "destroyed"}, Moves(r, g, at),
           UNCHANGED <<taken, sent>>,
           at # (IF Object THEN "copied" ELSE "last"), Object \/ at # "destroyed"
    PROVE  GuardsInPlace'
<1>1. PICK m \in GuardSet :
          /\ m.bucket = g.bucket /\ m.event = g.event /\ m.at = at
          /\ guards'[r] = (guards[r] \ {g}) \cup {m}
  BY MoveIs
<1>2. \A s \in Readers : s # r => guards'[s] = guards[s]
  BY MoveIs
<1> SUFFICES ASSUME NEW s \in Readers, NEW k \in guards'[s]
             PROVE  /\ k.event < taken[s] /\ k.bucket = k.event % Cap
                    /\ k.at # IF Object THEN "copied" ELSE "last"
                    /\ Object \/ k.at # "destroyed"
                    /\ \A h \in guards'[s] : h.event = k.event => h = k
  BY DEF GuardsInPlace
<1>3. CASE s # r
  BY <1>2, <1>3 DEF IInv, GuardsInPlace
<1>4. CASE s = r /\ k = m
  BY <1>1, <1>4 DEF IInv, GuardsInPlace
<1>5. CASE s = r /\ k # m
  BY <1>1, <1>5 DEF IInv, GuardsInPlace
<1> QED BY <1>3, <1>4, <1>5

LEMMA LeaveKeepsPlaces ==
    ASSUME IInv, NEW r \in Readers, NEW g \in guards[r], Leaves(r, g),
           UNCHANGED <<taken, sent>>
    PROVE  GuardsInPlace'
<1>1. guards'[r] \subseteq guards[r] /\ \A s \in Readers : s # r => guards'[s] = guards[s]
  BY LeaveIs
<1>2. \A s \in Readers : guards'[s] \subseteq guards[s]
  BY <1>1
<1> QED BY <1>2 DEF IInv, GuardsInPlace

\* A move that is not a count down keeps who needs which event.
LEMMA MoveKeepsNeeds ==
    ASSUME IInv, NEW r \in Readers, NEW g \in guards[r],
           NEW at \in {"open", "copied", "last", "destroyed"}, Moves(r, g, at),
           UNCHANGED <<taken, sent>>, g.at \in InUse <=> at \in InUse
    PROVE  (\A e : Needs(e)' = Needs(e)) /\ LastIsAlone'
<1>1. PICK m \in GuardSet :
          /\ m.bucket = g.bucket /\ m.event = g.event /\ m.at = at
          /\ guards'[r] = (guards[r] \ {g}) \cup {m}
  BY MoveIs
<1>2. \A s \in Readers : s # r => guards'[s] = guards[s]
  BY MoveIs
<1>3. ASSUME NEW e PROVE Needs(e)' = Needs(e)
  BY <1>1, <1>2 DEF Needs
<1>4. LastIsAlone'
  <2> SUFFICES ASSUME NEW s \in Readers, NEW k \in guards'[s], k.at \notin InUse
               PROVE  /\ Needs(k.event) = {}
                      /\ \A t \in Readers : t # s => k.event \notin Held(t)'
    BY <1>3 DEF LastIsAlone
  <2>1. \E h \in guards[s] : h.event = k.event /\ h.at \notin InUse
    BY <1>1, <1>2
  <2>2. Needs(k.event) = {} /\ \A t \in Readers : t # s => k.event \notin Held(t)
    BY <2>1 DEF IInv, LastIsAlone
  <2> QED BY <2>2, MoveIs
<1> QED BY <1>3, <1>4

LEMMA CopyKeeps ==
    ASSUME IInv, NEW r \in Readers, NEW g \in guards[r], CopyEvent(r, g)
    PROVE  IInv'
<1>1. UNCHANGED <<m_seqn, m_counter, m_storage, w_next_seq_num, w_next_bucket, w_pc,
                  sent, r_next_seq_num, r_next_bucket, taken, handles, destroyed>>
  BY DEF CopyEvent, bucketVars, writerVars, readerVars, ownerVars
<1>2. Moves(r, g, "copied") /\ g.at = "open" /\ ~ Object
  BY DEF CopyEvent
<1>3. PICK m \in GuardSet :
          /\ m.bucket = g.bucket /\ m.event = g.event /\ m.at = "copied"
          /\ guards'[r] = (guards[r] \ {g}) \cup {m}
  BY <1>1, <1>2, MoveIs
<1>4. /\ \A s \in Readers : s # r => guards'[s] = guards[s]
      /\ guards' \in [Readers -> SUBSET GuardSet]
      /\ \A s \in Readers : Unreleased(s)' = Unreleased(s)
  BY <1>1, <1>2, MoveIs
<1>5. (\A e : Needs(e)' = Needs(e)) /\ LastIsAlone'
  BY <1>1, <1>2, MoveKeepsNeeds DEF InUse
<1>6. GuardsInPlace'
  BY <1>1, <1>2, MoveKeepsPlaces
<1>7. TypeOK'
  <2>1. m_storage[g.bucket] \in Nat \cup {NoEvent}
    BY GuardIs DEF IInv, TypeOK
  <2>2. delivered' \in [Readers -> Nat \cup {NoEvent}]
    BY <2>1 DEF CopyEvent, IInv, TypeOK
  <2> QED BY <1>1, <1>4, <2>2 DEF IInv, TypeOK
<1>8. Counters' /\ Window' /\ Numbered' /\ Owned'
  BY <1>1, <1>4 DEF IInv, Counters, Window, Numbered, Owned
<1>9. Counted'
  BY <1>1, <1>4, <1>5 DEF IInv, Counted
<1>10. Stored'
  <2>1. \A s \in Readers : \A k \in guards[s] : k.at # "destroyed"
    BY <1>2 DEF IInv, GuardsInPlace
  <2> QED BY <1>1, <1>4, <2>1 DEF IInv, Stored
<1>11. WriterPlace'
  BY <1>1, <1>4 DEF IInv, WriterPlace
<1>12. StoredIsCounted' /\ Balance'
  BY <1>2 DEF StoredIsCounted, Balance
<1>13. Gone'
  BY <1>1, GuardIs DEF IInv, Gone
<1> QED BY <1>5, <1>6, <1>7, <1>8, <1>9, <1>10, <1>11, <1>12, <1>13 DEF IInv

LEMMA GetKeeps ==
    ASSUME IInv, NEW r \in Readers, NEW g \in guards[r], GetEvent(r, g)
    PROVE  IInv'
<1>1. UNCHANGED <<m_seqn, m_counter, m_storage, w_next_seq_num, w_next_bucket, w_pc,
                  sent, r_next_seq_num, r_next_bucket, taken, guards, handles, destroyed>>
  BY DEF GetEvent, bucketVars, writerVars, readerVars, ownerVars
<1>2. m_storage[g.bucket] \in Nat \cup {NoEvent}
  BY GuardIs DEF IInv, TypeOK
<1>3. TypeOK'
  BY <1>1, <1>2 DEF GetEvent, IInv, TypeOK
<1>4. Counters' /\ Window' /\ GuardsInPlace' /\ Numbered' /\ Owned'
  BY <1>1, SameEvents DEF IInv, Counters, Window, GuardsInPlace, Numbered, Owned
<1>5. LastIsAlone'
  BY <1>1, SameEvents DEF IInv, LastIsAlone
<1>6. Counted'
  BY <1>1, SameEvents DEF IInv, Counted
<1>7. Stored' /\ WriterPlace'
  BY <1>1, SameEvents DEF IInv, Stored, WriterPlace
<1>8. StoredIsCounted' /\ Balance' /\ Gone'
  BY <1>1 DEF IInv, StoredIsCounted, Balance, Alive, Gone
<1> QED BY <1>3, <1>4, <1>5, <1>6, <1>7, <1>8 DEF IInv

\* What counting down finds and leaves.
LEMMA CountDownIs ==
    ASSUME IInv, NEW r \in Readers, NEW g \in guards[r], g.at \in InUse,
           CountDown(g.bucket)
    PROVE  LET n == Cardinality(Needs(g.event))
           IN  /\ r \in Needs(g.event)
               /\ n \in Nat \ {0}
               /\ m_counter[g.bucket] = n + Mark
               /\ m_counter' = [m_counter EXCEPT ![g.bucket] = n - 1 + Mark]
               /\ n - 1 + Mark \in 0..(CntMod - 1)
               /\ Cardinality(Needs(g.event) \ {r}) = n - 1
               /\ n = 1 <=> Needs(g.event) = {r}
<1> DEFINE n == Cardinality(Needs(g.event))
<1>1. r \in Needs(g.event)
  BY DEF Needs
<1>2. n \in Nat \ {0}
  BY <1>1, NeedsCounted, ReadersCounted DEF Positive
<1>3. m_counter[g.bucket] = n + Mark
  BY GuardIs DEF IInv, Counted
<1>4. n + Mark \in 0..(CntMod - 1)
  BY <1>3, GuardIs DEF IInv, TypeOK
<1>5. n - 1 + Mark \in 0..(CntMod - 1)
  BY <1>2, <1>4, MarkIs, Sizes DEF Positive
<1>6. (m_counter[g.bucket] - 1) % CntMod = n - 1 + Mark
  <2>1. /\ m_counter[g.bucket] - 1 \in Nat
        /\ m_counter[g.bucket] - 1 = CntMod * 0 + (n - 1 + Mark)
    BY <1>2, <1>3, <1>5, MarkIs, Sizes DEF Positive
  <2> QED BY <1>5, <2>1, Sizes, ModUnique
<1>7. Cardinality(Needs(g.event) \ {r}) = n - 1
  BY <1>1, NeedsCounted, FS_RemoveElement
<1>8. IsFiniteSet(Needs(g.event) \ {r})
  BY <1>1, NeedsCounted, FS_RemoveElement
<1>9. n = 1 <=> Needs(g.event) \ {r} = {}
  BY <1>2, <1>7, <1>8, FS_EmptySet
<1> HIDE DEF n
<1>10. m_counter' = [m_counter EXCEPT ![g.bucket] = n - 1 + Mark]
  BY <1>6 DEF CountDown
<1> QED BY <1>1, <1>2, <1>3, <1>5, <1>7, <1>9, <1>10 DEF n

\* A reader lets go of an event that others, or nobody, still need: the pod
\* reader's fetch_sub, and the guard's that is not the last.
LEMMA LetGoKeeps ==
    ASSUME IInv, NEW r \in Readers, NEW g \in guards[r], g.at \in InUse,
           CountDown(g.bucket), Leaves(r, g),
           Object => Cardinality(Needs(g.event)) # 1,
           UNCHANGED <<m_seqn, m_storage, w_next_seq_num, w_next_bucket, w_pc, sent,
                       r_next_seq_num, r_next_bucket, taken, delivered, handles,
                       destroyed>>
    PROVE  IInv'
<1> DEFINE n == Cardinality(Needs(g.event))
<1>1. /\ r \in Needs(g.event) /\ n \in Nat \ {0}
      /\ m_counter[g.bucket] = n + Mark
      /\ m_counter' = [m_counter EXCEPT ![g.bucket] = n - 1 + Mark]
      /\ n - 1 + Mark \in 0..(CntMod - 1)
      /\ Cardinality(Needs(g.event) \ {r}) = n - 1
      /\ n = 1 <=> Needs(g.event) = {r}
      /\ Object => n # 1
  BY CountDownIs
<1> HIDE DEF n
<1>2. /\ g.event \in Nat /\ g.event \in Unreleased(r) /\ handles # {}
      /\ g.bucket = g.event % Cap /\ g.bucket \in Buckets
      /\ g.event \notin taken[r]..(sent - 1)
      /\ m_counter \in [Buckets -> 0..(CntMod - 1)]
  BY GuardIs DEF IInv, TypeOK
<1>3. /\ guards'[r] = guards[r] \ {g}
      /\ \A s \in Readers : s # r => guards'[s] = guards[s]
      /\ guards' \in [Readers -> SUBSET GuardSet]
      /\ \A s \in Readers : Held(s)' \subseteq Held(s)
      /\ Unreleased(r)' = Unreleased(r) \ {g.event}
      /\ \A s \in Readers : s # r => Unreleased(s)' = Unreleased(s)
  <2>1. Held(r)' = Held(r) \ {g.event} /\ \A s \in Readers : s # r => Held(s)' = Held(s)
    BY LeaveIs
  <2>2. \A s \in Readers : Held(s)' \subseteq Held(s)
    BY <2>1
  <2> QED BY <2>2, LeaveIs
<1>4. \A s \in Readers : guards'[s] \subseteq guards[s] /\ Unreleased(s)' \subseteq Unreleased(s)
  BY <1>3
<1>5. ASSUME NEW e, e = g.event PROVE Needs(e)' = Needs(e) \ {r}
  <2>1. \A h \in guards[r] : h.event = e => h = g
    BY <1>5 DEF IInv, GuardsInPlace
  <2> QED BY <1>2, <1>3, <1>5, <2>1 DEF Needs
<1>6. ASSUME NEW e, e # g.event PROVE Needs(e)' = Needs(e)
  BY <1>3, <1>6 DEF Needs
<1>7. TypeOK'
  BY <1>1, <1>2, <1>3 DEF IInv, TypeOK
<1>8. GuardsInPlace'
  BY LeaveKeepsPlaces
<1>9. Counters' /\ Window' /\ Numbered' /\ Gone'
  BY <1>2, <1>4 DEF IInv, Counters, Window, Numbered, Gone
<1>10. LastIsAlone'
  <2> SUFFICES ASSUME NEW s \in Readers, NEW k \in guards'[s], k.at \notin InUse
               PROVE  /\ Needs(k.event)' = {}
                      /\ \A t \in Readers : t # s => k.event \notin Held(t)'
    BY DEF LastIsAlone
  <2>1. Needs(k.event) = {} /\ \A t \in Readers : t # s => k.event \notin Held(t)
    BY <1>4 DEF IInv, LastIsAlone
  <2> QED BY <1>1, <1>3, <1>6, <2>1
<1>11. Counted'
  <2> SUFFICES ASSUME NEW s \in Readers, NEW e \in Unreleased(s)'
               PROVE  m_counter'[e % Cap] = Cardinality(Needs(e)') + Mark
    BY DEF Counted
  <2>1. e \in Unreleased(s) /\ e % Cap \in Buckets
    BY <1>4, UnreleasedIs, CounterOf DEF IInv
  <2>2. CASE e = g.event
    <3>1. Cardinality(Needs(e)') = n - 1
      BY <1>1, <1>5, <2>2
    <3> QED BY <1>1, <1>2, <2>2, <3>1
  <2>3. CASE e # g.event
    <3>1. e % Cap # g.bucket
      BY <1>2, <2>1, <2>3, OneLap
    <3>2. m_counter[e % Cap] = Cardinality(Needs(e)) + Mark
      BY <1>2, <2>1 DEF IInv, Counted
    <3> QED BY <1>1, <1>2, <1>6, <2>1, <2>3, <3>1, <3>2
  <2> QED BY <2>2, <2>3
<1>12. Owned'
  <2> SUFFICES ASSUME NEW b \in Buckets, m_counter'[b] # EMPTY_DATA_MARK
               PROVE  \/ w_pc = "publish" /\ b = w_next_bucket
                      \/ \E s \in Readers : \E e \in Unreleased(s)' : b = e % Cap
    BY DEF Owned
  <2>1. CASE b = g.bucket
    <3>1. m_counter'[b] = n - 1 + Mark
      BY <1>1, <1>2, <2>1
    <3>2. n # 1
      BY <1>1, <3>1, MarkIs
    <3>3. PICK s \in Needs(g.event) : s # r
      BY <1>1, <3>2
    <3>4. s \in Readers /\ g.event \in Unreleased(s)'
      BY <1>3, <3>3, NeedsCounted, UnreleasedIs DEF IInv
    <3> QED BY <1>2, <2>1, <3>4
  <2>2. CASE b # g.bucket
    <3>1. \/ w_pc = "publish" /\ b = w_next_bucket
          \/ \E s \in Readers : \E e \in Unreleased(s) : b = e % Cap
      BY <1>1, <1>2, <2>2 DEF IInv, Owned
    <3>2. ASSUME NEW s \in Readers, NEW e \in Unreleased(s), b = e % Cap
          PROVE  e \in Unreleased(s)'
      BY <1>2, <1>3, <2>2, <3>2
    <3> QED BY <3>1, <3>2
  <2> QED BY <2>1, <2>2
<1>13. Stored'
  <2> SUFFICES ASSUME NEW s \in Readers, NEW e \in Unreleased(s)',
                      \A k \in guards'[s] : k.at = "destroyed" => k.event # e
               PROVE  m_storage[e % Cap] = e
    BY DEF Stored
  <2>1. \A k \in guards[s] : k.at = "destroyed" => k.event # e
    BY <1>3 DEF InUse
  <2> QED BY <1>2, <1>4, <2>1 DEF IInv, Stored
<1>14. WriterPlace'
  <2>1. w_pc # "idle" => g.bucket # w_next_bucket
    BY <1>2, WriterIsAlone
  <2>2. w_pc # "idle" => m_counter'[w_next_bucket] = m_counter[w_next_bucket]
    BY <1>1, <1>2, <2>1 DEF IInv, TypeOK
  <2> QED BY <1>4, <2>2 DEF IInv, WriterPlace
<1>15. StoredIsCounted'
  <2>1. Object => n - 1 + Mark # EMPTY_DATA_MARK
    BY <1>1, MarkIs
  <2>2. Object => \A b \in Buckets :
            m_counter[b] # EMPTY_DATA_MARK => m_counter'[b] # EMPTY_DATA_MARK
    BY <1>1, <1>2, <2>1
  <2> QED BY <1>4, <2>2 DEF IInv, StoredIsCounted
<1>16. Balance'
  BY DEF IInv, Balance, Alive
<1> QED BY <1>7, <1>8, <1>9, <1>10, <1>11, <1>12, <1>13, <1>14, <1>15, <1>16 DEF IInv

LEMMA PodKeeps ==
    ASSUME IInv, NEW r \in Readers, NEW g \in guards[r], PodFetchSub(r, g)
    PROVE  IInv'
<1>1. ~ Object /\ g.at \in InUse
  BY DEF PodFetchSub, InUse, IInv, GuardsInPlace
<1> QED BY <1>1, LetGoKeeps
        DEF PodFetchSub, writerVars, readerVars, ownerVars

\* The guard's destructor finds itself the last one.
LEMMA LastKeeps ==
    ASSUME IInv, NEW r \in Readers, NEW g \in guards[r], g.at = "open", Object,
           CountDown(g.bucket), Moves(r, g, "last"),
           Cardinality(Needs(g.event)) = 1,
           UNCHANGED <<m_seqn, m_storage, w_next_seq_num, w_next_bucket, w_pc, sent,
                       r_next_seq_num, r_next_bucket, taken, delivered, handles,
                       destroyed>>
    PROVE  IInv'
<1>1. /\ Needs(g.event) = {r}
      /\ m_counter' = [m_counter EXCEPT ![g.bucket] = 1]
  <2>1. Mark = 1 /\ 1 - 1 + Mark = 1
    BY MarkIs
  <2> QED BY <2>1, CountDownIs DEF InUse
<1>2. /\ g.event \in Nat /\ g.event \in Unreleased(r) /\ handles # {}
      /\ g.bucket = g.event % Cap /\ g.bucket \in Buckets
      /\ g.event \notin taken[r]..(sent - 1)
      /\ m_counter \in [Buckets -> 0..(CntMod - 1)]
  BY GuardIs DEF IInv, TypeOK
<1>3. PICK m \in GuardSet :
          /\ m.bucket = g.bucket /\ m.event = g.event /\ m.at = "last"
          /\ guards'[r] = (guards[r] \ {g}) \cup {m}
  BY MoveIs
<1>4. /\ \A s \in Readers : s # r => guards'[s] = guards[s]
      /\ guards' \in [Readers -> SUBSET GuardSet]
      /\ \A s \in Readers : Held(s)' = Held(s)
      /\ \A s \in Readers : Unreleased(s)' = Unreleased(s)
  BY MoveIs
<1>5. ASSUME NEW e, e = g.event PROVE Needs(e)' = {}
  <2>1. \A h \in guards[r] : h.event = e => h = g
    BY <1>5 DEF IInv, GuardsInPlace
  <2>2. r \notin Needs(e)'
    BY <1>2, <1>3, <1>5, <2>1 DEF Needs, InUse
  <2>3. Needs(e)' \subseteq Needs(e)
    BY <1>3, <1>4 DEF Needs, InUse
  <2> QED BY <1>1, <1>5, <2>2, <2>3
<1>6. ASSUME NEW e, e # g.event PROVE Needs(e)' = Needs(e)
  BY <1>3, <1>4, <1>6 DEF Needs
<1>7. TypeOK'
  <2>1. 1 \in 0..(CntMod - 1)
    BY Sizes DEF Positive
  <2> QED BY <1>1, <1>2, <1>4, <2>1 DEF IInv, TypeOK
<1>8. GuardsInPlace'
  BY MoveKeepsPlaces
<1>9. Counters' /\ Window' /\ Numbered' /\ Gone'
  BY <1>2, <1>4 DEF IInv, Counters, Window, Numbered, Gone
<1>10. LastIsAlone'
  <2> SUFFICES ASSUME NEW s \in Readers, NEW k \in guards'[s], k.at \notin InUse
               PROVE  /\ Needs(k.event)' = {}
                      /\ \A t \in Readers : t # s => k.event \notin Held(t)
    BY <1>4 DEF LastIsAlone
  <2>1. CASE s = r /\ k = m
    <3> SUFFICES ASSUME NEW t \in Readers, t # r, g.event \in Held(t) PROVE FALSE
      BY <1>3, <1>5, <2>1
    <3>1. PICK h \in guards[t] : h.event = g.event
      BY DEF Held
    <3>2. t \notin Needs(g.event)
      BY <1>1
    <3>3. h.at \notin InUse
      BY <3>1, <3>2 DEF Needs
    <3>4. Needs(g.event) = {}
      BY <3>1, <3>3 DEF IInv, LastIsAlone
    <3> QED BY <1>1, <3>4
  <2>2. CASE ~ (s = r /\ k = m)
    <3>1. k \in guards[s]
      BY <1>3, <1>4, <2>2
    <3>2. Needs(k.event) = {} /\ \A t \in Readers : t # s => k.event \notin Held(t)
      BY <3>1 DEF IInv, LastIsAlone
    <3> QED BY <1>1, <1>6, <3>2
  <2> QED BY <2>1, <2>2
<1>11. Counted'
  <2> SUFFICES ASSUME NEW s \in Readers, NEW e \in Unreleased(s)
               PROVE  m_counter'[e % Cap] = Cardinality(Needs(e)') + Mark
    BY <1>4 DEF Counted
  <2>1. e % Cap \in Buckets
    BY UnreleasedIs, CounterOf DEF IInv
  <2>2. CASE e = g.event
    <3>1. Cardinality(Needs(e)') = 0
      BY <1>5, <2>2, FS_EmptySet
    <3>2. m_counter'[e % Cap] = 1
      BY <1>1, <1>2, <2>2
    <3> QED BY <3>1, <3>2, MarkIs
  <2>3. CASE e # g.event
    <3>1. e % Cap # g.bucket
      BY <1>2, <2>3, OneLap
    <3>2. m_counter[e % Cap] = Cardinality(Needs(e)) + Mark
      BY <1>2 DEF IInv, Counted
    <3> QED BY <1>1, <1>2, <1>6, <2>1, <2>3, <3>1, <3>2
  <2> QED BY <2>2, <2>3
<1>12. Owned'
  <2>1. \A b \in Buckets : b # g.bucket => m_counter'[b] = m_counter[b]
    BY <1>1, <1>2
  <2> QED BY <1>2, <1>4, <2>1 DEF IInv, Owned
<1>13. Stored'
  <2> SUFFICES ASSUME NEW s \in Readers, NEW e \in Unreleased(s),
                      \A k \in guards'[s] : k.at = "destroyed" => k.event # e
               PROVE  m_storage[e % Cap] = e
    BY <1>4 DEF Stored
  <2>1. \A k \in guards[s] : k.at = "destroyed" => k.event # e
    BY <1>3, <1>4
  <2> QED BY <1>2, <2>1 DEF IInv, Stored
<1>14. WriterPlace'
  <2>1. w_pc # "idle" => g.bucket # w_next_bucket
    BY <1>2, WriterIsAlone
  <2>2. w_pc # "idle" => m_counter'[w_next_bucket] = m_counter[w_next_bucket]
    BY <1>1, <1>2, <2>1 DEF IInv, TypeOK
  <2> QED BY <1>4, <2>2 DEF IInv, WriterPlace
<1>15. StoredIsCounted'
  <2>1. \A b \in Buckets :
            m_counter[b] # EMPTY_DATA_MARK => m_counter'[b] # EMPTY_DATA_MARK
    BY <1>1, <1>2, MarkIs
  <2>2. \A s \in Readers : \A k \in guards'[s] : k.at = "destroyed" => k \in guards[s]
    BY <1>3, <1>4
  <2> QED BY <2>1, <2>2 DEF IInv, StoredIsCounted
<1>16. Balance'
  BY DEF IInv, Balance, Alive
<1> QED BY <1>7, <1>8, <1>9, <1>10, <1>11, <1>12, <1>13, <1>14, <1>15, <1>16 DEF IInv

LEMMA GuardKeeps ==
    ASSUME IInv, NEW r \in Readers, NEW g \in guards[r], GuardFetchSub(r, g)
    PROVE  IInv'
<1>1. g.at = "open" /\ g.at \in InUse /\ Object /\ CountDown(g.bucket)
  BY DEF GuardFetchSub, InUse
<1>2. m_counter[g.bucket] = 2 <=> Cardinality(Needs(g.event)) = 1
  <2>1. /\ Cardinality(Needs(g.event)) \in Nat
        /\ m_counter[g.bucket] = Cardinality(Needs(g.event)) + Mark
    BY <1>1, CountDownIs
  <2> QED BY <1>1, <2>1, MarkIs
<1>3. CASE m_counter[g.bucket] = 2
  <2>1. Moves(r, g, "last")
    BY <1>3 DEF GuardFetchSub, CONSTRUCTED_DATA_MARK
  <2> QED BY <1>1, <1>2, <1>3, <2>1, LastKeeps
          DEF GuardFetchSub, writerVars, readerVars, ownerVars
<1>4. CASE m_counter[g.bucket] # 2
  <2>1. Leaves(r, g)
    BY <1>4 DEF GuardFetchSub, CONSTRUCTED_DATA_MARK
  <2> QED BY <1>1, <1>2, <1>4, <2>1, LetGoKeeps
          DEF GuardFetchSub, writerVars, readerVars, ownerVars
<1> QED BY <1>3, <1>4

LEMMA DestroyKeeps ==
    ASSUME IInv, NEW r \in Readers, NEW g \in guards[r], DestroyEvent(r, g)
    PROVE  IInv'
<1>1. /\ g.at = "last" /\ g.at \notin InUse /\ Object /\ Moves(r, g, "destroyed")
      /\ m_storage' = [m_storage EXCEPT ![g.bucket] = NoEvent]
      /\ destroyed' = destroyed + 1
      /\ UNCHANGED <<m_seqn, m_counter, w_next_seq_num, w_next_bucket, w_pc, sent,
                     r_next_seq_num, r_next_bucket, taken, delivered, handles>>
  BY DEF DestroyEvent, InUse, IInv, GuardsInPlace, writerVars, readerVars
<1>2. /\ g.event \in Nat /\ g.event \in Unreleased(r) /\ handles # {}
      /\ g.bucket = g.event % Cap /\ g.bucket \in Buckets
      /\ m_storage \in [Buckets -> Nat \cup {NoEvent}] /\ destroyed \in Nat
  BY GuardIs DEF IInv, TypeOK
<1>3. PICK m \in GuardSet :
          /\ m.bucket = g.bucket /\ m.event = g.event /\ m.at = "destroyed"
          /\ guards'[r] = (guards[r] \ {g}) \cup {m}
  BY <1>1, MoveIs
<1>4. /\ \A s \in Readers : s # r => guards'[s] = guards[s]
      /\ guards' \in [Readers -> SUBSET GuardSet]
      /\ \A s \in Readers : Unreleased(s)' = Unreleased(s)
  BY <1>1, MoveIs
<1>5. (\A e : Needs(e)' = Needs(e)) /\ LastIsAlone'
  BY <1>1, MoveKeepsNeeds DEF InUse
<1>6. /\ Needs(g.event) = {}
      /\ \A s \in Readers : s # r => g.event \notin Unreleased(s)
  <2>1. Needs(g.event) = {} /\ \A s \in Readers : s # r => g.event \notin Held(s)
    BY <1>1 DEF IInv, LastIsAlone
  <2> QED BY <2>1 DEF Unreleased, Needs
<1>7. TypeOK'
  BY <1>1, <1>2, <1>4 DEF IInv, TypeOK
<1>8. GuardsInPlace'
  BY <1>1, MoveKeepsPlaces
<1>9. Counters' /\ Window' /\ Numbered' /\ Owned'
  BY <1>1, <1>4 DEF IInv, Counters, Window, Numbered, Owned
<1>10. Counted'
  BY <1>1, <1>4, <1>5 DEF IInv, Counted
<1>11. Stored'
  <2> SUFFICES ASSUME NEW s \in Readers, NEW e \in Unreleased(s),
                      \A k \in guards'[s] : k.at = "destroyed" => k.event # e
               PROVE  m_storage'[e % Cap] = e
    BY <1>4 DEF Stored
  <2>1. e # g.event
    BY <1>3, <1>6
  <2>2. e % Cap # g.bucket /\ e % Cap \in Buckets
    BY <1>2, <2>1, OneLap, UnreleasedIs, CounterOf DEF IInv
  <2>3. \A k \in guards[s] : k.at = "destroyed" => k.event # e
    BY <1>1, <1>3, <1>4
  <2>4. m_storage[e % Cap] = e
    BY <1>2, <2>3 DEF IInv, Stored
  <2> QED BY <1>1, <1>2, <2>2, <2>4
<1>12. w_pc # "idle" => g.bucket # w_next_bucket
  BY <1>2, WriterIsAlone
<1>13. WriterPlace'
  <2>1. w_pc # "idle" => m_storage'[w_next_bucket] = m_storage[w_next_bucket]
    BY <1>1, <1>2, <1>12 DEF IInv, TypeOK
  <2> QED BY <1>1, <1>4, <2>1 DEF IInv, WriterPlace
<1>14. StoredIsCounted'
  <2> SUFFICES ASSUME NEW b \in Buckets, m_storage'[b] # NoEvent
               PROVE  \/ w_pc \in {"stamp", "publish"} /\ b = w_next_bucket
                      \/ /\ m_counter[b] # EMPTY_DATA_MARK
                         /\ \A s \in Readers : \A k \in guards'[s] :
                                k.at = "destroyed" => k.bucket # b
    BY <1>1 DEF StoredIsCounted
  <2>1. b # g.bucket /\ m_storage[b] # NoEvent
    BY <1>1, <1>2
  <2>2. ASSUME NEW s \in Readers, NEW k \in guards'[s], k \notin guards[s]
        PROVE  k.bucket # b
    BY <1>3, <1>4, <2>1, <2>2
  <2> QED BY <1>1, <2>1, <2>2 DEF IInv, StoredIsCounted
<1>15. Balance'
  <2>1. m_storage[g.bucket] = g.event
    <3>1. \A k \in guards[r] : k.at = "destroyed" => k.event # g.event
      BY <1>1 DEF IInv, GuardsInPlace
    <3> QED BY <1>2, <3>1 DEF IInv, Stored
  <2>2. g.bucket \in Alive
    BY <1>2, <1>12, <2>1 DEF Alive, NoEvent
  <2>3. Alive' = Alive \ {g.bucket}
    BY <1>1, <1>2 DEF Alive
  <2>4. Cardinality(Alive') = Cardinality(Alive) - 1
    BY <2>2, <2>3, AliveIsFinite, FS_RemoveElement
  <2> QED BY <1>1, <1>2, <2>4, AliveIsFinite DEF IInv, Balance, TypeOK
<1>16. Gone'
  BY <1>1, <1>2 DEF Gone
<1> QED BY <1>5, <1>7, <1>8, <1>9, <1>10, <1>11, <1>13, <1>14, <1>15, <1>16 DEF IInv

LEMMA StoreKeeps ==
    ASSUME IInv, NEW r \in Readers, NEW g \in guards[r], StoreEmpty(r, g)
    PROVE  IInv'
<1>1. /\ g.at = "destroyed" /\ g.at \notin InUse /\ Object /\ Leaves(r, g)
      /\ m_counter' = [m_counter EXCEPT ![g.bucket] = EMPTY_DATA_MARK]
      /\ UNCHANGED <<m_seqn, m_storage, w_next_seq_num, w_next_bucket, w_pc, sent,
                     r_next_seq_num, r_next_bucket, taken, delivered, handles,
                     destroyed>>
  BY DEF StoreEmpty, InUse, IInv, GuardsInPlace, writerVars, readerVars, ownerVars
<1>2. /\ g.event \in Nat /\ g.event \in Unreleased(r) /\ handles # {}
      /\ g.bucket = g.event % Cap /\ g.bucket \in Buckets
      /\ m_counter \in [Buckets -> 0..(CntMod - 1)]
  BY GuardIs DEF IInv, TypeOK
<1>3. /\ guards'[r] = guards[r] \ {g}
      /\ \A s \in Readers : s # r => guards'[s] = guards[s]
      /\ guards' \in [Readers -> SUBSET GuardSet]
      /\ \A s \in Readers : Held(s)' \subseteq Held(s)
      /\ Unreleased(r)' = Unreleased(r) \ {g.event}
      /\ \A s \in Readers : s # r => Unreleased(s)' = Unreleased(s)
  <2>1. Held(r)' = Held(r) \ {g.event} /\ \A s \in Readers : s # r => Held(s)' = Held(s)
    BY <1>1, LeaveIs
  <2>2. \A s \in Readers : Held(s)' \subseteq Held(s)
    BY <2>1
  <2> QED BY <1>1, <2>2, LeaveIs
<1>4. \A s \in Readers : guards'[s] \subseteq guards[s] /\ Unreleased(s)' \subseteq Unreleased(s)
  BY <1>3
<1>5. ASSUME NEW e PROVE Needs(e)' = Needs(e)
  BY <1>1, <1>3 DEF Needs
<1>6. \A s \in Readers : g.event \notin Unreleased(s)'
  <2>1. Needs(g.event) = {} /\ \A s \in Readers : s # r => g.event \notin Held(s)
    BY <1>1 DEF IInv, LastIsAlone
  <2>2. \A s \in Readers : s # r => g.event \notin Unreleased(s)
    BY <2>1 DEF Unreleased, Needs
  <2> QED BY <1>3, <2>2
<1>7. \A s \in Readers : \A e \in Unreleased(s)' :
          e \in Unreleased(s) /\ e % Cap # g.bucket /\ e % Cap \in Buckets
  <2> SUFFICES ASSUME NEW s \in Readers, NEW e \in Unreleased(s)'
               PROVE  e \in Unreleased(s) /\ e % Cap # g.bucket /\ e % Cap \in Buckets
    OBVIOUS
  <2>1. e \in Unreleased(s) /\ e # g.event
    BY <1>4, <1>6
  <2> QED BY <1>2, <2>1, OneLap, UnreleasedIs, CounterOf DEF IInv
<1>8. TypeOK'
  <2>1. EMPTY_DATA_MARK \in 0..(CntMod - 1)
    BY Sizes, MarkIs DEF Positive
  <2> QED BY <1>1, <1>2, <1>3, <2>1 DEF IInv, TypeOK
<1>9. GuardsInPlace'
  BY <1>1, LeaveKeepsPlaces
<1>10. Counters' /\ Window' /\ Numbered'
  BY <1>1, <1>4 DEF IInv, Counters, Window, Numbered
<1>11. LastIsAlone'
  BY <1>3, <1>4, <1>5 DEF IInv, LastIsAlone
<1>12. Counted'
  <2> SUFFICES ASSUME NEW s \in Readers, NEW e \in Unreleased(s)'
               PROVE  m_counter'[e % Cap] = Cardinality(Needs(e)) + Mark
    BY <1>5 DEF Counted
  <2> QED BY <1>1, <1>2, <1>7 DEF IInv, Counted
<1>13. Owned'
  <2> SUFFICES ASSUME NEW b \in Buckets, m_counter'[b] # EMPTY_DATA_MARK
               PROVE  \/ w_pc = "publish" /\ b = w_next_bucket
                      \/ \E s \in Readers : \E e \in Unreleased(s)' : b = e % Cap
    BY <1>1 DEF Owned
  <2>1. b # g.bucket /\ m_counter[b] # EMPTY_DATA_MARK
    BY <1>1, <1>2
  <2>2. ASSUME NEW s \in Readers, NEW e \in Unreleased(s), b = e % Cap
        PROVE  e \in Unreleased(s)'
    BY <1>2, <1>3, <2>1, <2>2
  <2> QED BY <2>1, <2>2 DEF IInv, Owned
<1>14. Stored'
  <2> SUFFICES ASSUME NEW s \in Readers, NEW e \in Unreleased(s)',
                      \A k \in guards'[s] : k.at = "destroyed" => k.event # e
               PROVE  m_storage[e % Cap] = e
    BY <1>1 DEF Stored
  <2>1. \A k \in guards[s] : k.at = "destroyed" => k.event # e
    BY <1>3, <1>6
  <2> QED BY <1>2, <1>4, <2>1 DEF IInv, Stored
<1>15. WriterPlace'
  <2>1. w_pc # "idle" => g.bucket # w_next_bucket
    BY <1>2, WriterIsAlone
  <2>2. w_pc # "idle" => m_counter'[w_next_bucket] = m_counter[w_next_bucket]
    BY <1>1, <1>2, <2>1 DEF IInv, TypeOK
  <2> QED BY <1>1, <1>4, <2>2 DEF IInv, WriterPlace
<1>16. StoredIsCounted'
  <2> SUFFICES ASSUME NEW b \in Buckets, m_storage[b] # NoEvent,
                      ~ (w_pc \in {"stamp", "publish"} /\ b = w_next_bucket)
               PROVE  /\ m_counter'[b] # EMPTY_DATA_MARK
                      /\ \A s \in Readers : \A k \in guards'[s] :
                            k.at = "destroyed" => k.bucket # b
    BY <1>1 DEF StoredIsCounted
  <2>1. /\ m_counter[b] # EMPTY_DATA_MARK
        /\ \A s \in Readers : \A k \in guards[s] : k.at = "destroyed" => k.bucket # b
    BY <1>1 DEF IInv, StoredIsCounted
  <2> QED BY <1>1, <1>2, <1>4, <2>1
<1>17. Balance'
  BY <1>1 DEF IInv, Balance, Alive
<1>18. Gone'
  BY <1>1, <1>2 DEF Gone
<1> QED BY <1>8, <1>9, <1>10, <1>11, <1>12, <1>13, <1>14, <1>15, <1>16, <1>17, <1>18
        DEF IInv
-----------------------------------------------------------------------------
(***************************************************************************)
(* Destroying a handle, and the last one.                                  *)
(***************************************************************************)
\* The counter tells exactly where an event object is alive.
LEMMA CounterIsExact ==
    ASSUME IInv, Object, NEW b \in Buckets
    PROVE  m_storage[b] # NoEvent <=>
                \/ w_pc \in {"stamp", "publish"} /\ b = w_next_bucket
                \/ /\ m_counter[b] # EMPTY_DATA_MARK
                   /\ ~ \E r \in Readers : \E g \in guards[r] :
                            g.at = "destroyed" /\ g.bucket = b
<1>1. ASSUME w_pc \in {"stamp", "publish"}, b = w_next_bucket
      PROVE  m_storage[b] # NoEvent
  BY <1>1 DEF IInv, TypeOK, WriterPlace, NoEvent
<1>2. ASSUME m_counter[b] # EMPTY_DATA_MARK, ~ (w_pc = "publish" /\ b = w_next_bucket),
             ~ \E r \in Readers : \E g \in guards[r] : g.at = "destroyed" /\ g.bucket = b
      PROVE  m_storage[b] # NoEvent
  <2>1. PICK r \in Readers : \E e \in Unreleased(r) : b = e % Cap
    BY <1>2 DEF IInv, Owned
  <2>2. PICK e \in Unreleased(r) : b = e % Cap
    BY <2>1
  <2>3. \A g \in guards[r] : g.at = "destroyed" => g.event # e
    BY <1>2, <2>2 DEF IInv, GuardsInPlace
  <2>4. handles # {} /\ e \in Nat
    BY <1>2, UnreleasedIs DEF IInv, Gone
  <2>5. m_storage[b] = e
    BY <2>2, <2>3, <2>4 DEF IInv, Stored
  <2> QED BY <2>4, <2>5 DEF NoEvent
<1> QED BY <1>1, <1>2 DEF IInv, StoredIsCounted

LEMMA DropKeeps ==
    ASSUME IInv, NEW h \in MayDrop, DropHandle(h)
    PROVE  IInv'
<1>1. /\ h \in handles /\ handles' = handles \ {h}
      /\ UNCHANGED <<w_next_seq_num, w_next_bucket, w_pc, sent, r_next_seq_num,
                     r_next_bucket, taken, guards, delivered>>
      /\ h = Writer => w_pc = "idle"
  BY DEF DropHandle, writerVars, readerVars
<1>2. /\ \A r \in Readers : Unreleased(r)' = Unreleased(r)
      /\ \A e : Needs(e)' = Needs(e)
  BY <1>1, SameEvents
<1>3. Counters' /\ Window' /\ GuardsInPlace'
  BY <1>1, <1>2 DEF IInv, Counters, Window, GuardsInPlace
<1>4. LastIsAlone'
  BY <1>1, SameEvents DEF IInv, LastIsAlone
<1>5. CASE handles' # {}
  <2>1. UNCHANGED <<m_seqn, m_counter, m_storage, destroyed>>
    BY <1>5 DEF DropHandle, bucketVars
  <2>2. TypeOK'
    BY <1>1, <2>1 DEF IInv, TypeOK
  <2>3. Numbered' /\ Owned' /\ Stored' /\ Gone'
    BY <1>1, <1>2, <1>5, <2>1 DEF IInv, Numbered, Owned, Stored, Gone
  <2>4. Counted'
    BY <1>1, <1>2, <2>1 DEF IInv, Counted
  <2>5. WriterPlace'
    BY <1>1, <1>2, <2>1 DEF IInv, WriterPlace
  <2>6. StoredIsCounted' /\ Balance'
    BY <1>1, <2>1 DEF IInv, StoredIsCounted, Balance, Alive
  <2> QED BY <1>3, <1>4, <2>2, <2>3, <2>4, <2>5, <2>6 DEF IInv
<1>6. CASE handles' = {}
  <2> DEFINE alive == {b \in Buckets : m_counter[b] # EMPTY_DATA_MARK}
  <2>1. /\ handles = {h} /\ w_pc = "idle"
        /\ \A r \in Readers : guards[r] = {}
    <3>1. handles = {h}
      BY <1>1, <1>6
    <3>2. \A r \in Readers : guards[r] = {}
      BY <3>1 DEF DropHandle
    <3> QED BY <1>1, <3>1, <3>2 DEF IInv, WriterPlace
  <2>2. DestroyBuckets(alive)
    BY <1>6 DEF DropHandle, BucketDestructors
  <2>3. Object => alive = Alive
    BY <2>1, CounterIsExact DEF Alive
  <2>4. IsFiniteSet(alive) /\ Cardinality(alive) \in Nat
    <3>1. Cap - 1 \in Int /\ 0 \in Int
      BY Sizes DEF Positive
    <3>2. IsFiniteSet(Buckets)
      BY <3>1, FS_Interval DEF Buckets
    <3> QED BY <3>2, FS_Subset, FS_CardinalityType
  <2>5. Object => \A b \in Buckets : m_storage'[b] = NoEvent
    <3> SUFFICES ASSUME Object, NEW b \in Buckets PROVE m_storage'[b] = NoEvent
      OBVIOUS
    <3>1. b \notin Alive => m_storage[b] = NoEvent
      BY <2>1 DEF Alive
    <3> QED BY <2>2, <2>3, <3>1 DEF DestroyBuckets
  <2>6. m_counter' = [b \in Buckets |-> EMPTY_DATA_MARK]
    BY <2>2 DEF DestroyBuckets
  <2>7. destroyed' = destroyed + Cardinality(alive)
    BY <2>2 DEF DestroyBuckets
  <2>8. TypeOK'
    <3>1. m_storage' \in [Buckets -> Nat \cup {NoEvent}]
      BY <2>2 DEF DestroyBuckets, IInv, TypeOK
    <3>2. m_seqn' \in [Buckets -> 0..DUMMY_EVENT_SEQ_NUM]
      BY <2>2, Sizes DEF DestroyBuckets, IInv, TypeOK
    <3>3. m_counter' \in [Buckets -> 0..(CntMod - 1)]
      BY <2>6, Sizes, MarkIs DEF Positive
    <3>4. destroyed' \in Nat
      BY <2>4, <2>7 DEF IInv, TypeOK
    <3> QED BY <1>1, <3>1, <3>2, <3>3, <3>4 DEF IInv, TypeOK
  <2>9. Numbered' /\ Counted' /\ Stored'
    BY <1>6 DEF Numbered, Counted, Stored
  <2>10. Owned' /\ WriterPlace'
    BY <1>1, <2>1, <2>6 DEF Owned, WriterPlace
  <2>11. StoredIsCounted'
    BY <2>5 DEF StoredIsCounted
  <2>12. Balance'
    <3> SUFFICES ASSUME Object PROVE destroyed' + Cardinality(Alive') = sent
      BY <1>1 DEF Balance
    <3>1. Alive' = {}
      BY <2>5 DEF Alive
    <3>2. destroyed' = sent
      BY <2>3, <2>7 DEF IInv, Balance
    <3> QED BY <3>1, <3>2, FS_EmptySet DEF IInv, TypeOK
  <2>13. Gone'
    BY <1>1, <2>1, <2>6 DEF Gone
  <2> QED BY <1>3, <1>4, <2>8, <2>9, <2>10, <2>11, <2>12, <2>13 DEF IInv
<1> QED BY <1>5, <1>6

LEMMA StutterKeeps ==
    ASSUME IInv, UNCHANGED vars
    PROVE  IInv'
<1> USE DEF vars, bucketVars, writerVars, readerVars, ownerVars
<1>1. TypeOK' /\ Counters' /\ Window' /\ GuardsInPlace' /\ Numbered' /\ Owned'
  BY SameEvents DEF IInv, TypeOK, Counters, Window, GuardsInPlace, Numbered, Owned
<1>2. LastIsAlone'
  BY SameEvents DEF IInv, LastIsAlone
<1>3. Counted'
  BY SameEvents DEF IInv, Counted
<1>4. Stored' /\ WriterPlace'
  BY SameEvents DEF IInv, Stored, WriterPlace
<1>5. StoredIsCounted' /\ Balance' /\ Gone'
  BY DEF IInv, StoredIsCounted, Balance, Alive, Gone
<1> QED BY <1>1, <1>2, <1>3, <1>4, <1>5 DEF IInv

LEMMA NextKeeps ==
    ASSUME StampFits, IInv, [Next]_vars
    PROVE  IInv'
<1>1. CASE WriterStep
  BY <1>1, StartKeeps, ConstructKeeps, StampKeeps, PublishKeeps, StutterKeeps
     DEF WriterStep, TryWriteFull
<1>2. ASSUME NEW r \in Readers, TryReadMiss(r) \/ TryReadHit(r)
      PROVE  IInv'
  BY <1>2, HitKeeps, StutterKeeps DEF TryReadMiss
<1>3. ASSUME NEW r \in Readers, NEW g \in guards[r], GuardStep(r, g)
      PROVE  IInv'
  BY <1>3, CopyKeeps, PodKeeps, GetKeeps, GuardKeeps, DestroyKeeps, StoreKeeps
     DEF GuardStep
<1>4. ASSUME NEW h \in MayDrop, DropHandle(h)
      PROVE  IInv'
  BY <1>4, DropKeeps
<1>5. CASE UNCHANGED vars
  BY <1>5, StutterKeeps
<1> QED BY <1>1, <1>2, <1>3, <1>4, <1>5 DEF Next, Finished
-----------------------------------------------------------------------------
\* Every reachable state satisfies the inductive invariant.
THEOREM EachInductive ==
    ASSUME StampFits
    PROVE  Spec => []IInv
<1>1. Init => IInv
  BY InitIInv
<1>2. IInv /\ [Next]_vars => IInv'
  BY NextKeeps
<1> QED BY <1>1, <1>2, PTL DEF Spec

\* The counters stay inside their words, for every capacity, counter width and
\* number of readers that create_reader admits.
THEOREM EachTypeCorrect ==
    ASSUME StampFits
    PROVE  Spec => []TypeOK
<1>1. IInv => TypeOK
  BY DEF IInv
<1> QED BY <1>1, EachInductive, PTL

\* An event a reader looks at stays whole, whatever the other readers' guards do.
THEOREM EachGuardsAreSafe ==
    ASSUME StampFits
    PROVE  Spec => []GuardSeesItsEvent
<1>1. ASSUME IInv, NEW r \in Readers, NEW g \in guards[r], g.at = "open"
      PROVE  m_storage[g.bucket] = g.event
  <2>1. \A h \in guards[r] : h.at = "destroyed" => h.event # g.event
    BY <1>1 DEF IInv, GuardsInPlace
  <2> QED BY <1>1, <2>1, GuardIs DEF IInv, Stored
<1>2. IInv => GuardSeesItsEvent
  BY <1>1 DEF GuardSeesItsEvent
<1> QED BY <1>2, EachInductive, PTL

\* The counter tells where an event object is alive, so that the destructor of the
\* ring buffer leaks none and destroys none twice.
THEOREM EachMarksAreExact ==
    ASSUME StampFits
    PROVE  Spec => []MarkIsExact
<1>1. IInv => MarkIsExact
  BY CounterIsExact DEF MarkIsExact
<1> QED BY <1>1, EachInductive, PTL

\* Every event published has been destroyed exactly once when the last handle goes.
THEOREM EachDestroyedOnce ==
    ASSUME StampFits
    PROVE  Spec => []DestroyedOnce
<1>1. ASSUME IInv, Object, handles = {}
      PROVE  destroyed = sent
  <2>1. Alive = {}
    BY <1>1 DEF IInv, Gone, StoredIsCounted, WriterPlace, Alive
  <2> QED BY <1>1, <2>1, FS_EmptySet DEF IInv, Balance, TypeOK
<1>2. IInv => DestroyedOnce
  BY <1>1 DEF DestroyedOnce
<1> QED BY <1>2, EachInductive, PTL

\* try_write refuses exactly when some reader has not given back the event a lap
\* back.
THEOREM EachFullIsExact ==
    ASSUME StampFits
    PROVE  Spec => []FullIffUnreleased
<1>1. ASSUME IInv, WriterIdle, NEW r \in Readers, (sent - Cap) \in Unreleased(r)
      PROVE  ~ FoundEmpty
  <2> SUFFICES ASSUME FoundEmpty PROVE FALSE
    OBVIOUS
  <2>1. handles # {}
    BY <1>1 DEF WriterIdle
  <2>2. sent - (sent - Cap) < Cap
    BY <1>1, <2>1, EmptyHasRoom
  <2> QED BY <1>1, <2>2, Sizes DEF IInv, TypeOK, Positive
<1>2. ASSUME IInv, WriterIdle, ~ FoundEmpty
      PROVE  \E r \in Readers : (sent - Cap) \in Unreleased(r)
  <2>1. /\ w_next_bucket = sent % Cap /\ w_next_bucket \in Buckets
        /\ sent \in Nat /\ Cap \in Positive
    BY <1>2, Sizes DEF IInv, TypeOK, Counters
  <2>2. PICK r \in Readers : \E e \in Unreleased(r) : sent % Cap = e % Cap
    BY <1>2, <2>1 DEF IInv, Owned, FoundEmpty, WriterIdle
  <2>3. PICK e \in Unreleased(r) : sent % Cap = e % Cap
    BY <2>2
  <2>4. e \in Nat /\ e < sent /\ sent - e <= Cap
    BY <1>2, UnreleasedIs DEF IInv, Window
  <2>5. e + Cap \in Nat /\ (e + Cap) % Cap = sent % Cap
    <3>1. e + Cap \in Nat
      BY <2>1, <2>4 DEF Positive
    <3>2. (e + Cap) % Cap = e % Cap
      BY <2>1, <2>4, ModAddModulus
    <3> QED BY <2>3, <3>1, <3>2
  <2>6. sent <= e + Cap /\ (e + Cap) - sent < Cap
    BY <2>1, <2>4 DEF Positive
  <2>7. sent = e + Cap
    BY <2>1, <2>5, <2>6, ModInjective
  <2>8. sent - Cap = e
    BY <2>1, <2>4, <2>7 DEF Positive
  <2> QED BY <2>8
<1>3. IInv => FullIffUnreleased
  BY <1>1, <1>2 DEF FullIffUnreleased
<1> QED BY <1>3, EachInductive, PTL

\* try_read succeeds exactly when an event is unread by this reader, although the
\* numbers of events given back stay in the buckets.
THEOREM EachEmptyIsExact ==
    ASSUME StampFits
    PROVE  Spec => []EmptyIffAllTaken
<1>1. ASSUME IInv, NEW r \in Readers, r \in handles, taken[r] < sent
      PROVE  FoundNext(r)
  <2>1. taken[r] \in Unreleased(r) /\ taken[r] \in Nat /\ sent \in Nat
    BY <1>1 DEF IInv, TypeOK, Unreleased
  <2>2. taken[r] \in 0..(sent - 1) /\ sent - taken[r] <= Cap
    BY <1>1, <2>1 DEF IInv, Window
  <2>3. m_seqn[taken[r] % Cap] = taken[r] % SeqMod
    BY <1>1, <2>2 DEF IInv, Numbered
  <2>4. /\ r_next_bucket[r] = taken[r] % Cap
        /\ Masked(r_next_seq_num[r]) = taken[r] % SeqMod
    BY <1>1, <2>1, CounterOf DEF IInv, Counters
  <2> QED BY <2>3, <2>4 DEF FoundNext, Expected
<1>2. IInv => EmptyIffAllTaken
  BY <1>1, HitIsUnread DEF EmptyIffAllTaken
<1> QED BY <1>2, EachInductive, PTL
-----------------------------------------------------------------------------
(***************************************************************************)
(* The queue implements Channel: the writer's store of the number is the   *)
(* write, a reader's load of it the take, its last store or decrement of   *)
(* the counter the release; the other steps do not show.                   *)
(***************************************************************************)
LEMMA InitImplements == Init => Ch!ChannelInit
BY DEF Init, Ch!ChannelInit, Held, NoEvent, Ch!Nothing, Handles

\* What Channel sees of the guards.
LEMMA SameHeld ==
    ASSUME \A r \in Readers : Held(r)' = Held(r)
    PROVE  [r \in Readers |-> Held(r)]' = [r \in Readers |-> Held(r)]
OBVIOUS

LEMMA PublishImplements ==
    ASSUME IInv, Publish
    PROVE  Ch!Write
<1>1. /\ Writer \in handles /\ sent < MaxEvents
      /\ \A r \in Readers : \A e \in Unreleased(r) : sent - e < Cap
  BY DEF IInv, WriterPlace, Publish
<1>2. \A r \in Readers : (sent - Cap) \notin Unreleased(r)
  BY <1>1, Sizes DEF IInv, TypeOK, Positive
<1>3. \A r \in Readers : ~ Ch!Unreleased(r, sent - Cap)
  BY <1>2 DEF Ch!Unreleased, Unreleased
<1>4. \A r \in Readers : Held(r)' = Held(r)
  BY DEF Publish, Held
<1> QED BY <1>1, <1>3, <1>4, SameHeld DEF Ch!Write, Publish, readerVars, ownerVars

LEMMA HitImplements ==
    ASSUME IInv, NEW r \in Readers, TryReadHit(r)
    PROVE  Ch!Take(r)
<1> DEFINE g == [bucket |-> r_next_bucket[r], event |-> taken[r], at |-> "open"]
<1>1. taken[r] < sent /\ r \in handles
  BY HitIsUnread DEF TryReadHit, ReaderIdle
<1>2. guards' = [guards EXCEPT ![r] = guards[r] \cup {g}]
  BY DEF TryReadHit
<1>3. g.event = taken[r]
  OBVIOUS
<1> HIDE DEF g
<1>4. guards \in [Readers -> SUBSET GuardSet]
  BY DEF IInv, TypeOK
<1>5. /\ Held(r)' = Held(r) \cup {taken[r]}
      /\ \A s \in Readers : s # r => Held(s)' = Held(s)
  BY <1>2, <1>3, <1>4 DEF Held
<1>6. [s \in Readers |-> Held(s)]'
        = [[s \in Readers |-> Held(s)] EXCEPT ![r] = @ \cup {taken[r]}]
  BY <1>5
<1> QED BY <1>1, <1>6 DEF Ch!Take, TryReadHit, writerVars, ownerVars

LEMMA LookImplements ==
    ASSUME IInv, NEW r \in Readers, NEW g \in guards[r],
           CopyEvent(r, g) \/ GetEvent(r, g)
    PROVE  Ch!Look(r)
<1>1. g.at = "open" /\ delivered' = [delivered EXCEPT ![r] = m_storage[g.bucket]]
  BY DEF CopyEvent, GetEvent
<1>2. m_storage[g.bucket] = g.event
  <2>1. \A h \in guards[r] : h.at = "destroyed" => h.event # g.event
    BY <1>1 DEF IInv, GuardsInPlace
  <2> QED BY <2>1, GuardIs DEF IInv, Stored
<1>3. UNCHANGED <<sent, taken, handles>>
  BY DEF CopyEvent, GetEvent, writerVars, readerVars, ownerVars
<1>4. \A s \in Readers : Held(s)' = Held(s)
  <2>1. CASE CopyEvent(r, g)
    BY <1>3, <2>1, MoveIs DEF CopyEvent
  <2>2. CASE GetEvent(r, g)
    BY <2>2 DEF GetEvent, Held
  <2> QED BY <2>1, <2>2
<1>5. g.event \in [s \in Readers |-> Held(s)][r]
  BY GuardIs
<1> QED BY <1>1, <1>2, <1>3, <1>4, <1>5, SameHeld DEF Ch!Look

\* Closing a guard for good is the release.
LEMMA LeaveImplements ==
    ASSUME IInv, NEW r \in Readers, NEW g \in guards[r], Leaves(r, g),
           UNCHANGED <<sent, taken, delivered, handles>>
    PROVE  Ch!Release(r)
<1>1. /\ Held(r)' = Held(r) \ {g.event}
      /\ \A s \in Readers : s # r => Held(s)' = Held(s)
  BY LeaveIs
<1>2. [s \in Readers |-> Held(s)]'
        = [[s \in Readers |-> Held(s)] EXCEPT ![r] = @ \ {g.event}]
  BY <1>1
<1>3. g.event \in [s \in Readers |-> Held(s)][r]
  BY GuardIs
<1> QED BY <1>2, <1>3 DEF Ch!Release, Ch!ReleaseEvent

LEMMA GuardImplements ==
    ASSUME IInv, NEW r \in Readers, NEW g \in guards[r], GuardStep(r, g)
    PROVE  Ch!Look(r) \/ Ch!Release(r) \/ UNCHANGED Ch!channelVars
<1>1. CASE CopyEvent(r, g) \/ GetEvent(r, g)
  BY <1>1, LookImplements
<1>2. CASE PodFetchSub(r, g) \/ StoreEmpty(r, g)
  BY <1>2, LeaveImplements
     DEF PodFetchSub, StoreEmpty, writerVars, readerVars, ownerVars
<1>3. CASE GuardFetchSub(r, g)
  <2>1. UNCHANGED <<sent, taken, delivered, handles>>
    BY <1>3 DEF GuardFetchSub, writerVars, readerVars, ownerVars
  <2>2. CASE Leaves(r, g)
    BY <2>1, <2>2, LeaveImplements
  <2>3. CASE Moves(r, g, "last")
    <3>1. \A s \in Readers : Held(s)' = Held(s)
      BY <2>1, <2>3, MoveIs
    <3> QED BY <2>1, <3>1, SameHeld DEF Ch!channelVars
  <2> QED BY <1>3, <2>2, <2>3 DEF GuardFetchSub
<1>4. CASE DestroyEvent(r, g)
  <2>1. UNCHANGED <<sent, taken, delivered, handles>>
    BY <1>4 DEF DestroyEvent, writerVars, readerVars
  <2>2. \A s \in Readers : Held(s)' = Held(s)
    BY <1>4, <2>1, MoveIs DEF DestroyEvent
  <2> QED BY <2>1, <2>2, SameHeld DEF Ch!channelVars
<1> QED BY <1>1, <1>2, <1>3, <1>4 DEF GuardStep

LEMMA DropImplements ==
    ASSUME IInv, NEW h \in MayDrop, DropHandle(h)
    PROVE  Ch!Drop(h)
<1>1. UNCHANGED <<sent, taken, guards, delivered>>
  BY DEF DropHandle, writerVars, readerVars
<1>2. \A r \in Readers : Held(r)' = Held(r)
  BY <1>1, SameEvents
<1>3. \A r \in Readers : guards[r] = {} => Held(r) = {}
  BY DEF Held
<1> QED BY <1>1, <1>2, <1>3, SameHeld DEF DropHandle, Ch!Drop

LEMMA NextImplements == IInv /\ [Next]_vars => [Ch!ChannelNext]_(Ch!channelVars)
<1> SUFFICES ASSUME IInv, [Next]_vars PROVE [Ch!ChannelNext]_(Ch!channelVars)
  OBVIOUS
<1>1. CASE TryWriteStart \/ Construct \/ StampCounter \/ UNCHANGED vars
  <2>1. UNCHANGED <<sent, taken, guards, delivered, handles>>
    BY <1>1 DEF TryWriteStart, Construct, StampCounter, vars, writerVars,
                readerVars, ownerVars
  <2> QED BY <2>1, SameEvents, SameHeld DEF Ch!channelVars
<1>2. CASE Publish
  BY <1>2, PublishImplements DEF Ch!ChannelNext
<1>3. ASSUME NEW r \in Readers, TryReadHit(r)
      PROVE  Ch!ChannelNext
  BY <1>3, HitImplements DEF Ch!ChannelNext
<1>4. ASSUME NEW r \in Readers, NEW g \in guards[r], GuardStep(r, g)
      PROVE  [Ch!ChannelNext]_(Ch!channelVars)
  BY <1>4, GuardImplements DEF Ch!ChannelNext
<1>5. ASSUME NEW h \in MayDrop, DropHandle(h)
      PROVE  Ch!ChannelNext
  BY <1>5, DropImplements, EachAssumption DEF Ch!ChannelNext, Handles
<1> QED BY <1>1, <1>2, <1>3, <1>4, <1>5
        DEF Next, WriterStep, TryWriteFull, TryReadMiss, Finished

\* The ring buffer with its counters of readers is a bounded broadcast FIFO: every
\* reader gets every event, in order, once, and whole.
THEOREM EachImplementsChannel ==
    ASSUME StampFits
    PROVE  Spec => ImplementsChannel
<1>1. Init => Ch!ChannelInit
  BY InitImplements
<1>2. IInv /\ [Next]_vars => [Ch!ChannelNext]_(Ch!channelVars)
  BY NextImplements
<1> QED BY <1>1, <1>2, EachInductive, PTL
        DEF Spec, ImplementsChannel, Ch!ChannelSpec
-----------------------------------------------------------------------------
(***************************************************************************)
(* The pod queue has no data race (One2EachMemory).  A writer that finds   *)
(* the counter at zero has acquired what every reader of the bucket        *)
(* released when it counted down; a reader that finds its number has       *)
(* acquired what the writer released with it; and between the two nobody   *)
(* else uses the bucket, which the inductive invariant above says.         *)
(***************************************************************************)
MemoryTypes ==
    /\ knows \in [Handles -> SUBSET Uses]
    /\ seqnView \in [Buckets -> SUBSET Uses]
    /\ counterView \in [Buckets -> SUBSET Uses]

UseOf(t, kind, b) == [by |-> t, kind |-> kind, of |-> b]

\* A thread is ordered after its own uses, and readers of the pod queue write
\* nothing.
OwnIsKnown == \A t \in Handles : \A u \in Uses : u.by = t => u \in knows[t]

ReadersOnlyRead ==
    \A t \in Handles : \A u \in Uses :
        u.by \in Readers /\ u.kind = "write" => u \in knows[t]

\* What a reader has read is left with the counter once it has counted down, and
\* is known to the writer from the moment it finds the bucket empty.
ReadsAreReleased ==
    \A r \in Readers : \A b \in Buckets :
        \/ UseOf(r, "read", b) \in knows[Writer] \cup counterView[b]
        \/ \E g \in guards[r] : g.bucket = b

ReadsAreAcquired ==
    w_pc # "idle" =>
        \A r \in Readers : UseOf(r, "read", w_next_bucket) \in knows[Writer]

\* What the writer wrote is left with the number, and is known to the reader that
\* found it.
WritesAreReleased ==
    \A b \in Buckets :
        \/ m_seqn[b] = DUMMY_EVENT_SEQ_NUM
        \/ w_pc \in {"stamp", "publish"} /\ b = w_next_bucket
        \/ UseOf(Writer, "write", b) \in seqnView[b]

WritesAreAcquired ==
    \A r \in Readers : \A g \in guards[r] :
        UseOf(Writer, "write", g.bucket) \in knows[r]

OrderInv ==
    /\ MemoryTypes
    /\ OwnIsKnown
    /\ ReadersOnlyRead
    /\ ReadsAreReleased
    /\ ReadsAreAcquired
    /\ WritesAreReleased
    /\ WritesAreAcquired
    /\ NoDataRace

\* Every step of the queue with its memory orders is a step of the queue.
LEMMA MemoryStep ==
    [MemoryNext]_<<vars, memoryVars>> => [Next]_vars
<1> SUFFICES ASSUME [MemoryNext]_<<vars, memoryVars>> PROVE [Next]_vars
  OBVIOUS
<1>1. CASE WriterMemory
  BY <1>1 DEF WriterMemory, Next, WriterStep
<1>2. ASSUME NEW r \in Readers, TryReadMiss(r) \/ TryReadHit(r)
      PROVE  Next
  BY <1>2 DEF Next
<1>3. ASSUME NEW r \in Readers, NEW g \in guards[r], GuardMemory(r, g)
      PROVE  Next
  BY <1>3 DEF GuardMemory, Next, GuardStep
<1>4. CASE (\E h \in MayDrop : DropHandle(h)) \/ Finished \/ UNCHANGED vars
  BY <1>4 DEF Next
<1> QED BY <1>1, <1>2, <1>3, <1>4 DEF MemoryNext

LEMMA UseIs ==
    ASSUME NEW t \in Handles, NEW kind \in {"read", "write"}, NEW b \in Buckets
    PROVE  UseOf(t, kind, b) \in Uses
BY DEF UseOf, Uses

LEMMA HandlesAre == Writer \in Handles /\ Readers \subseteq Handles
BY DEF Handles

\* A use that every conflicting use of others is known before is no race.
LEMMA UseKeeps ==
    ASSUME OrderInv, NEW t \in Handles, NEW kind \in {"read", "write"},
           NEW b \in Buckets, Use(t, kind, b),
           \A u \in Uses : u.of = b /\ u.by # t /\ (u.kind = "write" \/ kind = "write")
                => u \in knows[t]
    PROVE  /\ MemoryTypes' /\ NoDataRace' /\ OwnIsKnown'
           /\ \A v \in Handles : \A u \in Uses :
                u # UseOf(t, kind, b) => (u \in knows'[v] <=> u \in knows[v])
           /\ \A c \in Buckets : \A u \in Uses :
                u # UseOf(t, kind, b) =>
                    /\ u \in seqnView'[c] <=> u \in seqnView[c]
                    /\ u \in counterView'[c] <=> u \in counterView[c]
<1> DEFINE use == UseOf(t, kind, b)
           conflicts == {u \in Uses : /\ u.of = b /\ u.by # t
                                      /\ "write" \in {u.kind, kind}}
<1>1. use \in Uses /\ use = [by |-> t, kind |-> kind, of |-> b] /\ use.by = t
  BY UseIs DEF UseOf
<1>2. /\ knows' = [v \in Handles |->
                    IF v = t THEN knows[v] \cup {use} ELSE knows[v] \ {use}]
      /\ seqnView' = [c \in Buckets |-> seqnView[c] \ {use}]
      /\ counterView' = [c \in Buckets |-> counterView[c] \ {use}]
      /\ races' = IF conflicts \subseteq knows[t] THEN races ELSE races \cup {use}
  BY DEF Use, UseOf
<1> HIDE DEF use
<1>3. conflicts \subseteq knows[t]
  OBVIOUS
<1>4. NoDataRace'
  BY <1>2, <1>3 DEF NoDataRace, OrderInv
<1>5. MemoryTypes'
  BY <1>1, <1>2 DEF OrderInv, MemoryTypes
<1>6. OwnIsKnown'
  BY <1>1, <1>2 DEF OrderInv, OwnIsKnown
<1>7. \A v \in Handles : \A u \in Uses : u # use => (u \in knows'[v] <=> u \in knows[v])
  BY <1>2
<1>8. \A c \in Buckets : \A u \in Uses :
          u # use => /\ u \in seqnView'[c] <=> u \in seqnView[c]
                     /\ u \in counterView'[c] <=> u \in counterView[c]
  BY <1>2
<1> QED BY <1>4, <1>5, <1>6, <1>7, <1>8 DEF use

\* Steps that leave the memory and what it depends on alone.
LEMMA MemoryIdle ==
    ASSUME OrderInv, UNCHANGED <<memoryVars, m_seqn, w_pc, w_next_bucket, guards>>
    PROVE  OrderInv'
BY DEF memoryVars, OrderInv, MemoryTypes, OwnIsKnown, ReadersOnlyRead, ReadsAreReleased,
       ReadsAreAcquired, WritesAreReleased, WritesAreAcquired, NoDataRace

LEMMA StartOrders ==
    ASSUME IInv, OrderInv, TryWriteStart, Acquire(Writer, counterView[w_next_bucket])
    PROVE  OrderInv'
<1>1. /\ knows' = [knows EXCEPT ![Writer] = @ \cup counterView[w_next_bucket]]
      /\ UNCHANGED <<seqnView, counterView, races, m_seqn, guards, w_next_bucket>>
      /\ w_pc = "idle" /\ w_pc' = "construct" /\ w_next_bucket \in Buckets
  BY DEF Acquire, TryWriteStart, bucketVars, WriterIdle, IInv, TypeOK
<1>2. MemoryTypes /\ Writer \in Handles
  BY HandlesAre DEF OrderInv
<1>3. /\ \A t \in Handles : knows[t] \subseteq knows'[t]
      /\ knows'[Writer] = knows[Writer] \cup counterView[w_next_bucket]
      /\ MemoryTypes'
  BY <1>1, <1>2 DEF MemoryTypes
<1>4. ReadsAreAcquired'
  <2> SUFFICES ASSUME NEW r \in Readers
               PROVE  UseOf(r, "read", w_next_bucket) \in knows'[Writer]
    BY <1>1 DEF ReadsAreAcquired
  <2>1. \A g \in guards[r] : g.bucket # w_next_bucket
    <3> SUFFICES ASSUME NEW g \in guards[r], g.bucket = w_next_bucket PROVE FALSE
      OBVIOUS
    <3>1. m_counter[g.bucket] # EMPTY_DATA_MARK
      BY GuardIs, CounterIsNotZero
    <3> QED BY <3>1 DEF TryWriteStart, FoundEmpty
  <2> QED BY <1>1, <1>3, <2>1 DEF OrderInv, ReadsAreReleased
<1>5. OwnIsKnown' /\ ReadersOnlyRead' /\ WritesAreAcquired'
  BY <1>1, <1>3, HandlesAre DEF OrderInv, OwnIsKnown, ReadersOnlyRead, WritesAreAcquired
<1>6. ReadsAreReleased' /\ WritesAreReleased' /\ NoDataRace'
  BY <1>1, <1>3, HandlesAre
     DEF OrderInv, ReadsAreReleased, WritesAreReleased, NoDataRace
<1> QED BY <1>3, <1>4, <1>5, <1>6 DEF OrderInv

LEMMA ConstructOrders ==
    ASSUME ~ Object, IInv, OrderInv, Construct, Use(Writer, "write", w_next_bucket)
    PROVE  OrderInv'
<1> DEFINE use == UseOf(Writer, "write", w_next_bucket)
<1>1. /\ w_next_bucket \in Buckets /\ w_pc = "construct" /\ w_pc' = "stamp"
      /\ UNCHANGED <<m_seqn, guards, w_next_bucket>>
  BY DEF Construct, IInv, TypeOK
<1>2. ASSUME NEW u \in Uses, u.of = w_next_bucket, u.by # Writer
      PROVE  u \in knows[Writer]
  <2>1. u.by \in Readers /\ u.kind \in {"read", "write"}
    BY <1>2 DEF Uses, Handles
  <2>2. CASE u.kind = "write"
    BY <2>1, <2>2, HandlesAre DEF OrderInv, ReadersOnlyRead
  <2>3. CASE u.kind = "read"
    <3>1. u = UseOf(u.by, "read", w_next_bucket)
      BY <1>2, <2>3 DEF Uses, UseOf
    <3> QED BY <1>1, <2>1, <3>1 DEF OrderInv, ReadsAreAcquired
  <2> QED BY <2>1, <2>2, <2>3
<1>3. /\ MemoryTypes' /\ NoDataRace' /\ OwnIsKnown'
      /\ \A v \in Handles : \A u \in Uses :
            u # use => (u \in knows'[v] <=> u \in knows[v])
      /\ \A c \in Buckets : \A u \in Uses :
            u # use => /\ u \in seqnView'[c] <=> u \in seqnView[c]
                       /\ u \in counterView'[c] <=> u \in counterView[c]
  BY <1>1, <1>2, UseKeeps, HandlesAre
<1>4. \A r \in Readers, kind \in {"read", "write"}, b \in Buckets :
          UseOf(r, kind, b) \in Uses /\ UseOf(r, kind, b) # use
  BY UseIs, HandlesAre, ReadersCounted DEF UseOf
<1>5. \A b \in Buckets : b # w_next_bucket =>
          UseOf(Writer, "write", b) \in Uses /\ UseOf(Writer, "write", b) # use
  BY UseIs, HandlesAre DEF UseOf
<1>6. use.by = Writer
  BY DEF UseOf
<1> HIDE DEF use
<1>7. ReadersOnlyRead'
  BY <1>3, <1>6, ReadersCounted DEF OrderInv, ReadersOnlyRead
<1>8. ReadsAreReleased' /\ ReadsAreAcquired'
  BY <1>1, <1>3, <1>4, HandlesAre DEF OrderInv, ReadsAreReleased, ReadsAreAcquired
<1>9. WritesAreReleased'
  BY <1>1, <1>3, <1>5 DEF OrderInv, WritesAreReleased
<1>10. WritesAreAcquired'
  <2> SUFFICES ASSUME NEW r \in Readers, NEW g \in guards[r]
               PROVE  UseOf(Writer, "write", g.bucket) \in knows'[r]
    BY <1>1 DEF WritesAreAcquired
  <2>1. g.bucket # w_next_bucket /\ g.bucket \in Buckets
    BY <1>1, WriterIsAlone, GuardIs
  <2> QED BY <1>3, <1>5, <2>1, HandlesAre DEF OrderInv, WritesAreAcquired
<1> QED BY <1>3, <1>7, <1>8, <1>9, <1>10 DEF OrderInv

LEMMA StampOrders ==
    ASSUME IInv, OrderInv, StampCounter, RelaxedCounter(w_next_bucket)
    PROVE  OrderInv'
<1>1. /\ counterView' = [counterView EXCEPT ![w_next_bucket] = {}]
      /\ UNCHANGED <<knows, seqnView, races, m_seqn, guards, w_next_bucket>>
      /\ w_pc = "stamp" /\ w_pc' = "publish" /\ w_next_bucket \in Buckets
  BY DEF RelaxedCounter, StampCounter, IInv, TypeOK
<1>2. MemoryTypes'
  BY <1>1 DEF OrderInv, MemoryTypes
<1>3. ReadsAreReleased'
  BY <1>1 DEF OrderInv, MemoryTypes, ReadsAreReleased, ReadsAreAcquired
<1> QED BY <1>1, <1>2, <1>3
        DEF OrderInv, OwnIsKnown, ReadersOnlyRead, ReadsAreAcquired, WritesAreReleased,
            WritesAreAcquired, NoDataRace

LEMMA PublishOrders ==
    ASSUME IInv, OrderInv, Publish, ReleaseSeqn(Writer, w_next_bucket)
    PROVE  OrderInv'
<1>1. /\ seqnView' = [seqnView EXCEPT ![w_next_bucket] = knows[Writer]]
      /\ UNCHANGED <<knows, counterView, races, guards>>
      /\ w_pc' = "idle" /\ w_next_bucket \in Buckets
      /\ m_seqn' = [m_seqn EXCEPT ![w_next_bucket] = Masked(w_next_seq_num)]
  BY DEF ReleaseSeqn, Publish, IInv, TypeOK
<1>2. MemoryTypes'
  BY <1>1, HandlesAre DEF OrderInv, MemoryTypes
<1>3. WritesAreReleased'
  <2> SUFFICES ASSUME NEW b \in Buckets, m_seqn'[b] # DUMMY_EVENT_SEQ_NUM
               PROVE  UseOf(Writer, "write", b) \in seqnView'[b]
    BY DEF WritesAreReleased
  <2>1. CASE b = w_next_bucket
    <3>1. UseOf(Writer, "write", b) \in Uses /\ UseOf(Writer, "write", b).by = Writer
      BY UseIs, HandlesAre DEF UseOf
    <3>2. UseOf(Writer, "write", b) \in knows[Writer]
      BY <3>1, HandlesAre DEF OrderInv, OwnIsKnown
    <3> QED BY <1>1, <2>1, <3>2 DEF OrderInv, MemoryTypes
  <2>2. CASE b # w_next_bucket
    BY <1>1, <2>2 DEF OrderInv, MemoryTypes, WritesAreReleased, IInv, TypeOK
  <2> QED BY <2>1, <2>2
<1> QED BY <1>1, <1>2, <1>3
        DEF OrderInv, OwnIsKnown, ReadersOnlyRead, ReadsAreReleased, ReadsAreAcquired,
            WritesAreAcquired, NoDataRace

LEMMA HitOrders ==
    ASSUME IInv, OrderInv, NEW r \in Readers, TryReadHit(r),
           Acquire(r, seqnView[r_next_bucket[r]])
    PROVE  OrderInv'
<1> DEFINE b == r_next_bucket[r]
           g == [bucket |-> b, event |-> taken[r], at |-> "open"]
<1>1. /\ knows' = [knows EXCEPT ![r] = @ \cup seqnView[b]]
      /\ guards' = [guards EXCEPT ![r] = @ \cup {g}]
      /\ UNCHANGED <<seqnView, counterView, races, m_seqn, w_pc, w_next_bucket>>
      /\ b \in Buckets /\ b = taken[r] % Cap /\ taken[r] \in Nat /\ sent \in Nat
      /\ guards \in [Readers -> SUBSET GuardSet] /\ g.bucket = b
  BY DEF Acquire, TryReadHit, bucketVars, writerVars, IInv, TypeOK, Counters
<1> HIDE DEF g, b
<1>2. /\ \A t \in Handles : knows[t] \subseteq knows'[t]
      /\ knows'[r] = knows[r] \cup seqnView[b]
      /\ MemoryTypes'
  BY <1>1, HandlesAre DEF OrderInv, MemoryTypes
<1>3. /\ guards'[r] = guards[r] \cup {g}
      /\ \A s \in Readers : s # r => guards'[s] = guards[s]
  BY <1>1
<1>4. UseOf(Writer, "write", b) \in seqnView[b]
  <2>1. taken[r] < sent
    BY HitIsUnread DEF TryReadHit, ReaderIdle
  <2>2. taken[r] \in Unreleased(r)
    BY <1>1, <2>1 DEF Unreleased
  <2>3. w_pc # "idle" => b # w_next_bucket
    BY <1>1, <2>2, WriterIsAlone
  <2>4. m_seqn[b] = Masked(r_next_seq_num[r])
    BY DEF TryReadHit, FoundNext, Expected, b
  <2>5. m_seqn[b] # DUMMY_EVENT_SEQ_NUM
    BY <1>1, <2>4, CounterOf DEF IInv, Counters
  <2> QED BY <1>1, <2>3, <2>5 DEF OrderInv, WritesAreReleased
<1>5. WritesAreAcquired'
  BY <1>1, <1>2, <1>3, <1>4, HandlesAre DEF OrderInv, WritesAreAcquired
<1>6. OwnIsKnown' /\ ReadersOnlyRead' /\ ReadsAreAcquired'
  BY <1>1, <1>2, HandlesAre DEF OrderInv, OwnIsKnown, ReadersOnlyRead, ReadsAreAcquired
<1>7. ReadsAreReleased'
  BY <1>1, <1>2, <1>3, HandlesAre DEF OrderInv, ReadsAreReleased
<1> QED BY <1>1, <1>2, <1>5, <1>6, <1>7
        DEF OrderInv, WritesAreReleased, NoDataRace

LEMMA CopyOrders ==
    ASSUME IInv, OrderInv, NEW r \in Readers, NEW g \in guards[r], CopyEvent(r, g),
           Use(r, "read", g.bucket)
    PROVE  OrderInv'
<1> DEFINE use == UseOf(r, "read", g.bucket)
<1>1. /\ UNCHANGED <<m_seqn, w_pc, w_next_bucket>> /\ g.bucket \in Buckets
      /\ Moves(r, g, "copied") /\ UNCHANGED <<taken, sent>>
      /\ r \in Handles
  BY GuardIs, HandlesAre DEF CopyEvent, bucketVars, writerVars, readerVars
<1>2. PICK m \in GuardSet :
          m.bucket = g.bucket /\ guards'[r] = (guards[r] \ {g}) \cup {m}
  BY <1>1, MoveIs
<1>3. \A s \in Readers : s # r => guards'[s] = guards[s]
  BY <1>1, MoveIs
<1>4. ASSUME NEW u \in Uses, u.of = g.bucket, u.by # r, u.kind = "write"
      PROVE  u \in knows[r]
  <2>1. CASE u.by \in Readers
    BY <1>1, <1>4, <2>1 DEF OrderInv, ReadersOnlyRead
  <2>2. CASE u.by = Writer
    <3>1. u = UseOf(Writer, "write", g.bucket)
      BY <1>4, <2>2 DEF Uses, UseOf
    <3> QED BY <3>1 DEF OrderInv, WritesAreAcquired
  <2> QED BY <2>1, <2>2 DEF Uses, Handles
<1>5. /\ MemoryTypes' /\ NoDataRace' /\ OwnIsKnown'
      /\ \A v \in Handles : \A u \in Uses :
            u # use => (u \in knows'[v] <=> u \in knows[v])
      /\ \A c \in Buckets : \A u \in Uses :
            u # use => /\ u \in seqnView'[c] <=> u \in seqnView[c]
                       /\ u \in counterView'[c] <=> u \in counterView[c]
  BY <1>1, <1>4, UseKeeps
<1>6. \A t \in Handles, b \in Buckets :
          UseOf(t, "write", b) \in Uses /\ UseOf(t, "write", b) # use
  BY UseIs DEF UseOf
<1>7. \A s \in Readers, b \in Buckets :
          (s # r \/ b # g.bucket) =>
              UseOf(s, "read", b) \in Uses /\ UseOf(s, "read", b) # use
  BY UseIs, HandlesAre DEF UseOf
<1>8. use.kind = "read"
  BY DEF UseOf
<1> HIDE DEF use
<1>9. ReadersOnlyRead'
  BY <1>5, <1>8 DEF OrderInv, ReadersOnlyRead
<1>10. ReadsAreReleased'
  <2> SUFFICES ASSUME NEW s \in Readers, NEW b \in Buckets,
                      \A h \in guards'[s] : h.bucket # b
               PROVE  UseOf(s, "read", b) \in knows'[Writer] \cup counterView'[b]
    BY DEF ReadsAreReleased
  <2>1. (s # r \/ b # g.bucket) /\ \A h \in guards[s] : h.bucket # b
    BY <1>2, <1>3
  <2>2. UseOf(s, "read", b) \in knows[Writer] \cup counterView[b]
    BY <2>1 DEF OrderInv, ReadsAreReleased
  <2> QED BY <1>5, <1>7, <2>1, <2>2, HandlesAre
<1>11. ReadsAreAcquired'
  <2>1. w_pc # "idle" => g.bucket # w_next_bucket
    BY WriterIsAlone, GuardIs
  <2>2. w_next_bucket \in Buckets
    BY DEF IInv, TypeOK
  <2> QED BY <1>1, <1>5, <1>7, <2>1, <2>2, HandlesAre DEF OrderInv, ReadsAreAcquired
<1>12. WritesAreReleased'
  BY <1>1, <1>5, <1>6, HandlesAre DEF OrderInv, WritesAreReleased
<1>13. WritesAreAcquired'
  <2> SUFFICES ASSUME NEW s \in Readers, NEW h \in guards'[s]
               PROVE  UseOf(Writer, "write", h.bucket) \in knows'[s]
    BY DEF WritesAreAcquired
  <2>1. PICK k \in guards[s] : k.bucket = h.bucket
    BY <1>2, <1>3
  <2>2. UseOf(Writer, "write", k.bucket) \in knows[s] /\ k.bucket \in Buckets
    BY GuardIs DEF OrderInv, WritesAreAcquired
  <2> QED BY <1>5, <1>6, <2>1, <2>2, HandlesAre
<1> QED BY <1>5, <1>9, <1>10, <1>11, <1>12, <1>13 DEF OrderInv

LEMMA CountDownOrders ==
    ASSUME IInv, OrderInv, NEW r \in Readers, NEW g \in guards[r], PodFetchSub(r, g),
           ReleaseCountDown(r, g.bucket)
    PROVE  OrderInv'
<1>1. /\ counterView' = [counterView EXCEPT ![g.bucket] = @ \cup knows[r]]
      /\ UNCHANGED <<knows, seqnView, races, m_seqn, w_pc, w_next_bucket>>
      /\ g.bucket \in Buckets
  BY GuardIs DEF ReleaseCountDown, PodOrder, PodFetchSub, writerVars
<1>2. /\ guards'[r] = guards[r] \ {g}
      /\ \A s \in Readers : s # r => guards'[s] = guards[s]
  BY LeaveIs DEF PodFetchSub, writerVars, readerVars
<1>3. /\ \A b \in Buckets : counterView[b] \subseteq counterView'[b]
      /\ knows[r] \subseteq counterView'[g.bucket]
      /\ MemoryTypes'
  BY <1>1, HandlesAre DEF OrderInv, MemoryTypes
<1>4. ReadsAreReleased'
  <2> SUFFICES ASSUME NEW s \in Readers, NEW b \in Buckets,
                      \A h \in guards'[s] : h.bucket # b
               PROVE  UseOf(s, "read", b) \in knows[Writer] \cup counterView'[b]
    BY <1>1 DEF ReadsAreReleased
  <2>1. CASE s = r /\ b = g.bucket
    <3>1. UseOf(r, "read", b) \in Uses /\ UseOf(r, "read", b).by = r
      BY UseIs, HandlesAre DEF UseOf
    <3> QED BY <1>3, <2>1, <3>1, HandlesAre DEF OrderInv, OwnIsKnown
  <2>2. CASE s # r \/ b # g.bucket
    <3>1. \A h \in guards[s] : h.bucket # b
      BY <1>2, <2>2
    <3> QED BY <1>3, <3>1 DEF OrderInv, ReadsAreReleased
  <2> QED BY <2>1, <2>2
<1>5. WritesAreAcquired'
  BY <1>1, <1>2 DEF OrderInv, WritesAreAcquired
<1> QED BY <1>1, <1>3, <1>4, <1>5
        DEF OrderInv, OwnIsKnown, ReadersOnlyRead, ReadsAreAcquired, WritesAreReleased,
            NoDataRace

LEMMA DropOrders ==
    ASSUME OrderInv, NEW h \in MayDrop, DropHandle(h), UNCHANGED memoryVars
    PROVE  OrderInv'
<1>1. UNCHANGED <<knows, seqnView, counterView, races, w_pc, w_next_bucket, guards>>
  BY DEF DropHandle, memoryVars, writerVars
<1>2. \A b \in Buckets : m_seqn'[b] = m_seqn[b] \/ m_seqn'[b] = DUMMY_EVENT_SEQ_NUM
  <2>1. CASE handles' = {}
    BY <2>1 DEF DropHandle, BucketDestructors, DestroyBuckets
  <2>2. CASE handles' # {}
    BY <2>2 DEF DropHandle, bucketVars
  <2> QED BY <2>1, <2>2
<1> QED BY <1>1, <1>2
        DEF OrderInv, MemoryTypes, OwnIsKnown, ReadersOnlyRead, ReadsAreReleased,
            ReadsAreAcquired, WritesAreReleased, WritesAreAcquired, NoDataRace

LEMMA MemoryNextKeeps ==
    ASSUME ~ Object, IInv, OrderInv, [MemoryNext]_<<vars, memoryVars>>
    PROVE  OrderInv'
<1>1. CASE WriterMemory
  <2>1. CASE TryWriteFull /\ UNCHANGED memoryVars
    BY <2>1, MemoryIdle DEF TryWriteFull, vars, bucketVars, writerVars
  <2> QED BY <1>1, <2>1, StartOrders, ConstructOrders, StampOrders, PublishOrders
          DEF WriterMemory
<1>2. ASSUME NEW r \in Readers, TryReadMiss(r), UNCHANGED memoryVars
      PROVE  OrderInv'
  BY <1>2, MemoryIdle DEF TryReadMiss, vars, bucketVars, writerVars
<1>3. ASSUME NEW r \in Readers, TryReadHit(r), Acquire(r, seqnView[r_next_bucket[r]])
      PROVE  OrderInv'
  BY <1>3, HitOrders
<1>4. ASSUME NEW r \in Readers, NEW g \in guards[r], GuardMemory(r, g)
      PROVE  OrderInv'
  <2>1. g.at \notin {"last", "destroyed"}
    BY DEF IInv, GuardsInPlace
  <2> QED BY <1>4, <2>1, CopyOrders, CountDownOrders
          DEF GuardMemory, GetEvent, GuardFetchSub, DestroyEvent, StoreEmpty
<1>5. ASSUME NEW h \in MayDrop, DropHandle(h), UNCHANGED memoryVars
      PROVE  OrderInv'
  BY <1>5, DropOrders
<1>6. CASE UNCHANGED <<vars, memoryVars>>
  BY <1>6, MemoryIdle DEF vars, bucketVars, writerVars
<1> QED BY <1>1, <1>2, <1>3, <1>4, <1>5, <1>6 DEF MemoryNext, Finished

LEMMA MemoryInitOrders == MemoryInit => OrderInv
<1> SUFFICES ASSUME MemoryInit PROVE OrderInv
  OBVIOUS
<1>1. /\ knows = [t \in Handles |-> Uses] /\ races = {}
      /\ seqnView = [b \in Buckets |-> {}] /\ counterView = [b \in Buckets |-> {}]
      /\ m_seqn = [b \in Buckets |-> DUMMY_EVENT_SEQ_NUM]
      /\ guards = [r \in Readers |-> {}] /\ w_pc = "idle"
  BY DEF MemoryInit, Init
<1>2. ReadsAreReleased
  BY <1>1, UseIs, HandlesAre DEF ReadsAreReleased
<1> QED BY <1>1, <1>2
        DEF OrderInv, MemoryTypes, OwnIsKnown, ReadersOnlyRead, ReadsAreAcquired,
            WritesAreReleased, WritesAreAcquired, NoDataRace

\* The acquire and release operations on the two atomics of a bucket are enough for
\* the pod queue, however many readers and buckets it has: no two uses of a storage,
\* one of them a write, are unordered.
THEOREM PodHasNoDataRace ==
    ASSUME ~ Object
    PROVE  MemorySpec => []NoDataRace
<1>0. StampFits
  BY DEF StampFits
<1>1. MemoryInit => IInv /\ OrderInv
  BY InitIInv, MemoryInitOrders DEF MemoryInit
<1>2. IInv /\ OrderInv /\ [MemoryNext]_<<vars, memoryVars>> => IInv' /\ OrderInv'
  BY <1>0, MemoryStep, NextKeeps, MemoryNextKeeps
<1>3. OrderInv => NoDataRace
  BY DEF OrderInv
<1> QED BY <1>1, <1>2, <1>3, PTL DEF MemorySpec
=============================================================================
