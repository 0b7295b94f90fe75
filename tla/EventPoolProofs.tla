-------------------------- MODULE EventPoolProofs --------------------------
(***************************************************************************)
(* Why a pool that is never told about freed slabs may reuse them: when it *)
(* has more slabs than the channel has events, going round it in order is  *)
(* enough.  Event e always lies in slab e % PoolSize, the events alive at  *)
(* a time are among Cap + 1 consecutive ones, so no two share a slab and   *)
(* the slab of the next event is raw.                                      *)
(*                                                                         *)
(* Then, of the measuring program that uses the pool: its counters of      *)
(* constructions and of destructions agree in the end.                     *)
(***************************************************************************)
EXTENDS MeasureProgram, ChannelProofs, ModArithmetic, FiniteSetTheorems

\* A pool with one slab more than the channel has events.
RoomToPrepare == PoolSize > Cap

SlabOf(e) == e % PoolSize

\* The events alive: those the channel carries and the one being offered.
Live == Alive \cup (IF built THEN {sent} ELSE {})

\* The writer's thread and its pool move round together.
Place ==
    /\ m_next = SlabOf(IF eager /\ mine # NoSlab THEN sent + 1 ELSE sent)
    /\ mine # NoSlab => mine = SlabOf(sent) /\ sent < MaxEvents /\ Writer \in handles
    /\ built => mine # NoSlab

Boxes == \A e \in 0..(sent - 1) : box[e] = SlabOf(e)

LiveInSlabs ==
    /\ \A e \in Live : slab[SlabOf(e)] = e
    /\ \A p \in Slabs : slab[p] # NoEvent => slab[p] \in Live /\ SlabOf(slab[p]) = p

PoolInv == PoolTypeOK /\ ChannelInv /\ Place /\ Boxes /\ LiveInSlabs
-----------------------------------------------------------------------------
LEMMA PoolSizes ==
    /\ PoolSize \in Positive
    /\ Slabs = 0..(PoolSize - 1)
    /\ Cap \in Nat \ {0}
    /\ MaxEvents \in Nat
    /\ Readers # {}
    /\ Writer \notin Readers
BY PoolAssumption, ChannelAssumption DEF PoolSize, Slabs, Positive

\* The pool has that slab when the capacity asked for is one the channel can have,
\* so that to2pow does not change it; when it is rounded up, the pool is short.
THEOREM PowersHaveRoom ==
    ASSUME Requested \in {2 ^ k : k \in 2..(CounterBits - 2)}, Extra > 0
    PROVE  RoomToPrepare
<1> DEFINE fits  == {2 ^ k : k \in 2..(CounterBits - 2)}
           holds == {p \in fits : Requested <= p}
           Best(p) == IF holds = {} THEN \A q \in fits : q <= p
                      ELSE p \in holds /\ \A q \in holds : p <= q
<1>1. Requested \in Nat /\ Extra \in Nat
  BY PoolAssumption
<1>2. Requested \in holds /\ holds # {}
  BY <1>1
<1>3. to2pow(Requested) = CHOOSE p \in fits : Best(p)
  BY DEF to2pow
<1>4. \E p \in fits : Best(p)
  BY <1>1, <1>2
<1> HIDE DEF Best
<1>5. Best(to2pow(Requested)) /\ to2pow(Requested) \in fits
  BY <1>3, <1>4
<1>6. \A p \in fits : p \in Int
  OBVIOUS
<1> HIDE DEF fits
<1>7. to2pow(Requested) <= Requested /\ Requested <= to2pow(Requested)
  BY <1>2, <1>5 DEF Best
<1>8. Cap = Requested
  BY <1>1, <1>5, <1>6, <1>7, SizeAssumption
<1> QED BY <1>1, <1>8 DEF RoomToPrepare, PoolSize

LEMMA SlabOfType == ASSUME NEW e \in Nat PROVE SlabOf(e) \in Slabs
BY PoolSizes, DivMod DEF SlabOf

\* The next slab is the next event's.
LEMMA NextSlabOf ==
    ASSUME NEW e \in Nat
    PROVE  NextSlab(SlabOf(e)) = SlabOf(e + 1)
<1>1. PoolSize \in Positive
  BY PoolSizes
<1>2. SlabOf(e) \in 0..(PoolSize - 1)
  BY SlabOfType, PoolSizes
<1>3. SlabOf(e + 1) = (SlabOf(e) + 1) % PoolSize
  BY <1>1, ModSucc DEF SlabOf
<1>4. CASE SlabOf(e) + 1 >= PoolSize
  <2>1. SlabOf(e) + 1 = PoolSize * 1 + 0
    BY <1>1, <1>2, <1>4 DEF Positive
  <2>2. SlabOf(e) + 1 \in Nat /\ 0 \in 0..(PoolSize - 1)
    BY <1>1, <1>2 DEF Positive
  <2>3. (SlabOf(e) + 1) % PoolSize = 0
    BY <1>1, <2>1, <2>2, ModUnique
  <2> QED BY <1>3, <1>4, <2>3 DEF NextSlab
<1>5. CASE ~ (SlabOf(e) + 1 >= PoolSize)
  <2>1. SlabOf(e) + 1 = PoolSize * 0 + (SlabOf(e) + 1)
    BY <1>1, <1>2 DEF Positive
  <2>2. SlabOf(e) + 1 \in Nat /\ SlabOf(e) + 1 \in 0..(PoolSize - 1)
    BY <1>1, <1>2, <1>5 DEF Positive
  <2>3. (SlabOf(e) + 1) % PoolSize = SlabOf(e) + 1
    BY <1>1, <2>1, <2>2, ModUnique
  <2> QED BY <1>3, <1>5, <2>3 DEF NextSlab
<1> QED BY <1>4, <1>5

\* Everything alive is one of the last Cap + 1 events.
LEMMA LiveWindow ==
    ASSUME PoolInv, NEW e \in Live
    PROVE  e \in Nat /\ e <= sent /\ sent - e <= Cap
<1>1. sent \in Nat /\ Cap \in Nat
  BY PoolSizes DEF PoolInv, ChannelInv, ChannelTypeOK
<1>2. CASE e \in Alive
  <2>1. e \in 0..(sent - 1)
    BY <1>2 DEF Alive
  <2>2. PICK r \in Readers : Unreleased(r, e)
    BY <1>2 DEF Alive, FreeForAll
  <2>3. /\ taken[r] \in 0..sent
        /\ sent - taken[r] <= Cap
        /\ \A x \in held[r] : x < taken[r] /\ sent - x <= Cap
    BY DEF PoolInv, ChannelInv, AtMostCapUnreleased
  <2> QED BY <1>1, <2>1, <2>2, <2>3 DEF Unreleased
<1>3. CASE e \notin Alive
  <2>1. e = sent
    BY <1>3 DEF Live
  <2> QED BY <1>1, <2>1
<1> QED BY <1>2, <1>3

\* So it has a slab of its own, and none of it lies in the next event's slab.
LEMMA OwnSlab ==
    ASSUME RoomToPrepare, PoolInv, NEW e \in Live,
           NEW f \in Live \cup {sent}, SlabOf(e) = SlabOf(f)
    PROVE  e = f
<1>1. /\ sent \in Nat /\ Cap \in Nat /\ PoolSize \in Positive /\ PoolSize \in Nat
  BY PoolSizes DEF PoolInv, ChannelInv, ChannelTypeOK, Positive
<1>2. e \in Nat /\ e <= sent /\ sent - e <= Cap
  BY LiveWindow
<1>3. f \in Nat /\ f <= sent /\ sent - f <= Cap
  BY <1>1, LiveWindow
<1>4. CASE e <= f
  <2>1. f - e < PoolSize
    BY <1>1, <1>2, <1>3, <1>4 DEF RoomToPrepare
  <2> QED BY <1>1, <1>2, <1>3, <1>4, <2>1, ModInjective DEF SlabOf
<1>5. CASE f <= e
  <2>1. e - f < PoolSize
    BY <1>1, <1>2, <1>3, <1>5 DEF RoomToPrepare
  <2> QED BY <1>1, <1>2, <1>3, <1>5, <2>1, ModInjective DEF SlabOf
<1> QED BY <1>2, <1>3, <1>4, <1>5

\* What the writer finds where it builds its event.
LEMMA NextSlabIsRaw ==
    ASSUME RoomToPrepare, PoolInv, mine # NoSlab, ~ built
    PROVE  slab[mine] = NoEvent
<1>1. mine = SlabOf(sent) /\ mine \in Slabs
  BY DEF PoolInv, Place, PoolTypeOK
<1> SUFFICES ASSUME slab[mine] # NoEvent PROVE FALSE
  OBVIOUS
<1>2. slab[mine] \in Live /\ SlabOf(slab[mine]) = SlabOf(sent)
  BY <1>1 DEF PoolInv, LiveInSlabs
<1>3. slab[mine] = sent
  BY <1>2, OwnSlab
<1>4. slab[mine] \in 0..(sent - 1)
  BY <1>2 DEF Live, Alive
<1> QED BY <1>3, <1>4 DEF PoolInv, ChannelInv, ChannelTypeOK
-----------------------------------------------------------------------------
LEMMA PoolInitInv == Init => PoolInv
<1> SUFFICES ASSUME Init PROVE PoolInv
  OBVIOUS
<1> USE DEF Init, PoolInit
<1>1. ChannelInv
  BY ChannelInitInv
<1>2. 0 \in Slabs /\ SlabOf(0) = 0
  <2>1. 0 \in 0..(PoolSize - 1) /\ 0 = PoolSize * 0 + 0 /\ PoolSize \in Positive
    BY PoolSizes DEF Positive
  <2>2. 0 % PoolSize = 0
    BY <2>1, ModUnique
  <2> QED BY <2>1, <2>2 DEF SlabOf, Slabs
<1>3. PoolTypeOK
  BY <1>2 DEF PoolTypeOK
<1>4. sent = 0 /\ Live = {}
  BY DEF ChannelInit, Live, Alive
<1>5. Place /\ Boxes /\ LiveInSlabs
  BY <1>2, <1>4 DEF Place, Boxes, LiveInSlabs
<1> QED BY <1>1, <1>3, <1>5 DEF PoolInv
-----------------------------------------------------------------------------
(***************************************************************************)
(* The steps of the writer's thread.                                       *)
(***************************************************************************)
LEMMA PoolInvTypes ==
    ASSUME PoolInv
    PROVE  /\ sent \in Nat /\ sent <= MaxEvents /\ PoolSize \in Positive
           /\ eager \in BOOLEAN /\ built \in BOOLEAN
           /\ m_next \in Slabs /\ mine \in Slabs \cup {NoSlab}
           /\ slab \in [Slabs -> Nat \cup {NoEvent}]
           /\ box \in [Ordinals -> Slabs \cup {NoSlab}]
           /\ taken \in [Readers -> Nat] /\ held \in [Readers -> SUBSET Nat]
           /\ handles \subseteq Readers \cup {Writer}
           /\ NoSlab \notin Slabs
BY PoolSizes DEF PoolInv, ChannelInv, ChannelTypeOK, PoolTypeOK, NoSlab, Positive

\* What is alive depends on the channel and on the event being offered.
LEMMA LiveSame ==
    ASSUME UNCHANGED <<sent, taken, held, handles, built>>
    PROVE  Live' = Live
BY DEF Live, Alive, FreeForAll, Unreleased

LEMMA ChannelSame ==
    ASSUME PoolInv, UNCHANGED channelVars
    PROVE  ChannelInv'
BY ChannelStepKeeps DEF PoolInv

LEMMA TakeSlabKeeps ==
    ASSUME PoolInv, TakeSlab
    PROVE  PoolInv'
<1> USE DEF TakeSlab
<1>1. sent \in Nat /\ sent + 1 \in Nat /\ m_next = SlabOf(sent) /\ NoSlab \notin Slabs
  BY PoolInvTypes DEF PoolInv, Place
<1>2. NextSlab(m_next) = SlabOf(sent + 1) /\ SlabOf(sent + 1) \in Slabs
  BY <1>1, NextSlabOf, SlabOfType
<1>3. PoolTypeOK'
  BY <1>2 DEF PoolInv, PoolTypeOK
<1>4. Place' /\ Boxes'
  BY <1>1, <1>2, PoolInvTypes DEF PoolInv, Place, Boxes, channelVars
<1>5. LiveInSlabs'
  <2>1. Live' = Live
    BY LiveSame DEF channelVars
  <2> QED BY <2>1 DEF PoolInv, LiveInSlabs
<1>6. ChannelInv'
  BY ChannelSame
<1> QED BY <1>3, <1>4, <1>5, <1>6 DEF PoolInv

LEMMA ConstructKeeps ==
    ASSUME RoomToPrepare, PoolInv, Construct
    PROVE  PoolInv'
<1> USE DEF Construct
<1>1. /\ sent \in Nat /\ mine = SlabOf(sent) /\ mine \in Slabs
      /\ slab \in [Slabs -> Nat \cup {NoEvent}]
  BY PoolInvTypes DEF PoolInv, Place
<1>2. Live' = Live \cup {sent}
  BY DEF Live, Alive, FreeForAll, Unreleased, channelVars
<1>3. LiveInSlabs'
  <2>1. ASSUME NEW e \in Live'
        PROVE  slab'[SlabOf(e)] = e
    <3>1. CASE e = sent
      BY <1>1, <3>1
    <3>2. CASE e # sent
      <4>1. e \in Live /\ e \in Nat /\ SlabOf(e) # SlabOf(sent)
        BY <1>2, <3>2, OwnSlab, LiveWindow
      <4>2. SlabOf(e) \in Slabs /\ slab[SlabOf(e)] = e
        BY <4>1, SlabOfType DEF PoolInv, LiveInSlabs
      <4> QED BY <1>1, <4>1, <4>2
    <3> QED BY <3>1, <3>2
  <2>2. ASSUME NEW p \in Slabs, slab'[p] # NoEvent
        PROVE  slab'[p] \in Live' /\ SlabOf(slab'[p]) = p
    BY <1>1, <1>2, <2>2 DEF PoolInv, LiveInSlabs
  <2> QED BY <2>1, <2>2 DEF LiveInSlabs
<1>4. PoolTypeOK'
  BY <1>1 DEF PoolInv, PoolTypeOK
<1>5. Place' /\ Boxes'
  BY DEF PoolInv, Place, Boxes, channelVars
<1>6. ChannelInv'
  BY ChannelSame
<1> QED BY <1>3, <1>4, <1>5, <1>6 DEF PoolInv

\* A written event stays where it is: it was alive as the one being offered, and
\* is alive as an event every reader has yet to take.
\* A new event waits for every reader.
LEMMA FreeAfterWrite ==
    ASSUME PoolInv, Write
    PROVE  \A e \in 0..sent : FreeForAll(e)' <=> FreeForAll(e) /\ e # sent
<1>1. sent \in Nat /\ sent' = sent + 1 /\ taken' = taken /\ held' = held
  BY PoolInvTypes DEF Write
<1>2. ASSUME NEW e \in 0..(sent - 1) PROVE FreeForAll(e)' <=> FreeForAll(e)
  <2>1. ASSUME NEW r \in Readers PROVE Unreleased(r, e)' <=> Unreleased(r, e)
    <3>1. taken[r] \in Nat
      BY PoolInvTypes
    <3> QED BY <1>1, <3>1 DEF Unreleased
  <2> QED BY <2>1 DEF FreeForAll
<1>3. ASSUME NEW e \in Nat, e = sent PROVE ~ FreeForAll(e)'
  <2>1. PICK r \in Readers : TRUE
    BY PoolSizes
  <2>2. taken[r] \in 0..sent
    BY DEF PoolInv, ChannelInv, AtMostCapUnreleased
  <2>3. e \in taken'[r]..(sent' - 1)
    BY <1>1, <1>3, <2>2
  <2> QED BY <2>3 DEF FreeForAll, Unreleased
<1> QED BY <1>1, <1>2, <1>3

LEMMA TryWriteDoneKeeps ==
    ASSUME PoolInv, TryWriteDone
    PROVE  PoolInv'
<1> USE DEF TryWriteDone
<1>1. /\ sent \in Nat /\ sent < MaxEvents /\ sent' = sent + 1
      /\ taken' = taken /\ held' = held /\ handles' = handles
      /\ Writer \in handles
  BY PoolInvTypes DEF Write
<1>2. /\ mine # NoSlab /\ mine = SlabOf(sent) /\ mine \in Slabs
      /\ m_next = SlabOf(IF eager THEN sent + 1 ELSE sent)
  BY PoolInvTypes DEF PoolInv, Place
<1>3. m_next' = SlabOf(sent + 1) /\ m_next' \in Slabs
  BY <1>1, <1>2, NextSlabOf, SlabOfType
<1>4. Live' = Live
  <2>1. Live = Alive \cup {sent} /\ Live' = Alive'
    BY DEF Live
  <2>2. \A e \in 0..sent : FreeForAll(e)' <=> FreeForAll(e) /\ e # sent
    BY FreeAfterWrite
  <2>4. Alive' = Alive \cup {sent}
    <3>1. handles' # {} /\ handles # {}
      BY <1>1
    <3>2. Alive' = {e \in 0..sent : ~ FreeForAll(e)'}
      BY <1>1, <3>1 DEF Alive
    <3>3. Alive = {e \in 0..(sent - 1) : ~ FreeForAll(e)}
      BY <3>1 DEF Alive
    <3>4. 0..sent = (0..(sent - 1)) \cup {sent}
      BY <1>1
    <3> QED BY <1>1, <2>2, <3>2, <3>3, <3>4
  <2> QED BY <2>1, <2>4
<1>5. LiveInSlabs'
  BY <1>4 DEF PoolInv, LiveInSlabs
<1>6. PoolTypeOK'
  BY <1>1, <1>2, <1>3 DEF PoolInv, PoolTypeOK, Ordinals
<1>7. Boxes'
  <2> SUFFICES ASSUME NEW e \in 0..sent PROVE box'[e] = SlabOf(e)
    BY <1>1 DEF Boxes
  <2>1. e \in Ordinals /\ box \in [Ordinals -> Slabs \cup {NoSlab}]
    BY <1>1, PoolInvTypes, PoolSizes DEF Ordinals
  <2> QED BY <1>1, <1>2, <2>1 DEF PoolInv, Boxes
<1>8. Place'
  BY <1>1, <1>3 DEF Place
<1>9. ChannelInv'
  BY WriteKeeps DEF PoolInv
<1> QED BY <1>5, <1>6, <1>7, <1>8, <1>9 DEF PoolInv

LEMMA TryWriteLostKeeps ==
    ASSUME RoomToPrepare, PoolInv, TryWriteLost
    PROVE  PoolInv'
<1> USE DEF TryWriteLost
<1>1. /\ sent \in Nat /\ mine = SlabOf(sent) /\ mine \in Slabs
      /\ slab \in [Slabs -> Nat \cup {NoEvent}] /\ sent \in Live
  BY PoolInvTypes DEF PoolInv, Place, Live
<1>2. Live' = Live \ {sent}
  <2>1. Alive' = Alive /\ Live' = Alive' /\ Live = Alive \cup {sent}
    BY DEF Live, Alive, FreeForAll, Unreleased, channelVars
  <2>2. sent \notin Alive
    BY <1>1 DEF Alive
  <2> QED BY <2>1, <2>2
<1>3. LiveInSlabs'
  <2>1. ASSUME NEW e \in Live'
        PROVE  slab'[SlabOf(e)] = e
    <3>1. e \in Live /\ e \in Nat /\ e # sent
      BY <1>2, LiveWindow
    <3>2. SlabOf(e) # SlabOf(sent) /\ SlabOf(e) \in Slabs
      BY <1>1, <3>1, OwnSlab, SlabOfType
    <3> QED BY <1>1, <3>1, <3>2 DEF PoolInv, LiveInSlabs
  <2>2. ASSUME NEW p \in Slabs, slab'[p] # NoEvent
        PROVE  slab'[p] \in Live' /\ SlabOf(slab'[p]) = p
    BY <1>1, <1>2, <2>2 DEF PoolInv, LiveInSlabs
  <2> QED BY <2>1, <2>2 DEF LiveInSlabs
<1>4. PoolTypeOK'
  BY <1>1 DEF PoolInv, PoolTypeOK
<1>5. Place' /\ Boxes'
  BY PoolInvTypes DEF PoolInv, Place, Boxes, channelVars
<1>6. ChannelInv'
  BY ChannelSame
<1> QED BY <1>3, <1>4, <1>5, <1>6 DEF PoolInv
-----------------------------------------------------------------------------
(***************************************************************************)
(* The readers' steps, and the handles'.                                   *)
(***************************************************************************)

\* An event a reader holds is alive, so it lies where its box says.
LEMMA HeldIsLive ==
    ASSUME PoolInv, NEW r \in Readers, NEW e \in held[r]
    PROVE  e \in Alive /\ e \in 0..(sent - 1) /\ box[e] = SlabOf(e) /\ handles # {}
<1>1. /\ e < taken[r] /\ taken[r] \in 0..sent /\ handles # {}
  BY DEF PoolInv, ChannelInv, AtMostCapUnreleased
<1>2. e \in 0..(sent - 1)
  BY <1>1, PoolInvTypes
<1>3. ~ FreeForAll(e)
  BY DEF FreeForAll, Unreleased
<1> QED BY <1>1, <1>2, <1>3 DEF Alive, PoolInv, Boxes

\* The reader sees, through its box, the event it took.
LEMMA LookInBoxLooks ==
    ASSUME PoolInv, NEW r \in Readers, LookInBox(r)
    PROVE  Look(r)
<1>1. ASSUME NEW e \in held[r] PROVE slab[box[e]] = e
  <2>1. e \in Live /\ box[e] = SlabOf(e)
    BY HeldIsLive DEF Live
  <2> QED BY <2>1 DEF PoolInv, LiveInSlabs
<1> QED BY <1>1 DEF LookInBox, Look

\* An event taken is as little released as before.
LEMMA FreeAfterTake ==
    ASSUME PoolInv, NEW r \in Readers, Take(r)
    PROVE  \A e \in 0..(sent - 1) : FreeForAll(e)' <=> FreeForAll(e)
<1>1. ASSUME NEW e \in 0..(sent - 1), NEW other \in Readers
      PROVE  Unreleased(other, e)' <=> Unreleased(other, e)
  BY PoolInvTypes DEF Take, Unreleased
<1> QED BY <1>1 DEF FreeForAll

LEMMA TakeBoxKeeps ==
    ASSUME PoolInv, NEW r \in Readers, TakeBox(r)
    PROVE  PoolInv'
<1>1. /\ UNCHANGED <<sent, handles, eager, m_next, slab, mine, built, box>>
      /\ taken' = [taken EXCEPT ![r] = @ + 1]
      /\ held' = [held EXCEPT ![r] = @ \cup {taken[r]}]
      /\ taken[r] < sent
  BY DEF TakeBox, Take, poolVars
<1>2. \A e \in 0..(sent - 1) : FreeForAll(e)' <=> FreeForAll(e)
  BY FreeAfterTake DEF TakeBox
<1>3. Live' = Live
  BY <1>1, <1>2 DEF Live, Alive
<1>4. PoolTypeOK' /\ Place' /\ Boxes' /\ LiveInSlabs'
  BY <1>1, <1>3 DEF PoolInv, PoolTypeOK, Place, Boxes, LiveInSlabs
<1>5. ChannelInv'
  BY TakeKeeps DEF TakeBox, PoolInv
<1> QED BY <1>4, <1>5 DEF PoolInv

LEMMA LookInBoxKeeps ==
    ASSUME PoolInv, NEW r \in Readers, LookInBox(r)
    PROVE  PoolInv'
<1>1. UNCHANGED <<sent, taken, held, handles, eager, m_next, slab, mine, built, box>>
  BY DEF LookInBox, poolVars
<1>2. Live' = Live
  BY <1>1, LiveSame
<1>3. PoolTypeOK' /\ Place' /\ Boxes' /\ LiveInSlabs'
  BY <1>1, <1>2 DEF PoolInv, PoolTypeOK, Place, Boxes, LiveInSlabs
<1>4. ChannelInv'
  BY LookInBoxLooks, LookKeeps DEF PoolInv
<1> QED BY <1>3, <1>4 DEF PoolInv

\* Destroying the boxes of some events clears their slabs and no others.
LEMMA SlabsWithoutEvents ==
    ASSUME RoomToPrepare, PoolInv, NEW events \in SUBSET Alive,
           slab' = SlabsWithout(events), Live' = Live \ events
    PROVE  LiveInSlabs' /\ slab' \in [Slabs -> Nat \cup {NoEvent}]
<1>1. slab' \in [Slabs -> Nat \cup {NoEvent}]
  BY PoolInvTypes DEF SlabsWithout
<1>2. ASSUME NEW e \in events PROVE e \in Live /\ box[e] = SlabOf(e)
  BY DEF Live, Alive, PoolInv, Boxes
<1>3. ASSUME NEW e \in Live' PROVE slab'[SlabOf(e)] = e
  <2>1. e \in Live /\ e \notin events /\ SlabOf(e) \in Slabs
    BY LiveWindow, SlabOfType
  <2>2. ASSUME NEW f \in events PROVE box[f] # SlabOf(e)
    BY <1>2, <2>1, OwnSlab
  <2> QED BY <2>1, <2>2 DEF SlabsWithout, PoolInv, LiveInSlabs
<1>4. ASSUME NEW p \in Slabs, slab'[p] # NoEvent
      PROVE  slab'[p] \in Live' /\ SlabOf(slab'[p]) = p
  <2>1. slab'[p] = slab[p] /\ ~ \E e \in events : box[e] = p
    BY <1>4 DEF SlabsWithout
  <2>2. slab[p] \in Live /\ SlabOf(slab[p]) = p
    BY <1>4, <2>1 DEF PoolInv, LiveInSlabs
  <2>3. slab[p] \notin events
    BY <1>2, <2>1, <2>2
  <2> QED BY <2>1, <2>2, <2>3
<1> QED BY <1>1, <1>3, <1>4 DEF LiveInSlabs

\* An event is through with the last reader's release.
LEMMA FreeAfterRelease ==
    ASSUME PoolInv, NEW r \in Readers, NEW e, ReleaseEvent(r, e)
    PROVE  /\ e \in 0..(sent - 1) /\ ~ FreeForAll(e)
           /\ \A f \in 0..(sent - 1) :
                FreeForAll(f)' <=> FreeForAll(f) \/ (f = e /\ LastOf(r, e))
<1>1. /\ UNCHANGED <<sent, taken, handles>>
      /\ held' = [held EXCEPT ![r] = @ \ {e}] /\ e \in held[r]
      /\ held \in [Readers -> SUBSET Nat]
  BY PoolInvTypes DEF ReleaseEvent
<1>2. e \in Alive /\ e \in 0..(sent - 1) /\ e < taken[r]
  BY <1>1, HeldIsLive DEF PoolInv, ChannelInv, AtMostCapUnreleased
<1>3. ASSUME NEW f \in 0..(sent - 1), f # e PROVE FreeForAll(f)' <=> FreeForAll(f)
  BY <1>1, <1>3 DEF FreeForAll, Unreleased
<1>4. FreeForAll(e)' <=> LastOf(r, e)
  <2>1. ~ Unreleased(r, e)'
    <3>1. e \notin held'[r]
      BY <1>1
    <3>2. e \notin taken'[r]..(sent' - 1)
      BY <1>1, <1>2, PoolInvTypes
    <3> QED BY <3>1, <3>2 DEF Unreleased
  <2>2. ASSUME NEW other \in Readers \ {r}
        PROVE  Unreleased(other, e)' <=> Unreleased(other, e)
    BY <1>1 DEF Unreleased
  <2> QED BY <2>1, <2>2 DEF FreeForAll, LastOf
<1>5. ~ FreeForAll(e)
  BY <1>2 DEF Alive
<1> QED BY <1>2, <1>3, <1>4, <1>5

LEMMA ReleaseBoxKeeps ==
    ASSUME RoomToPrepare, PoolInv, NEW r \in Readers, ReleaseBox(r)
    PROVE  PoolInv'
<1>1. PICK e \in held[r] :
        /\ ReleaseEvent(r, e)
        /\ slab' = IF LastOf(r, e) THEN SlabsWithout({e}) ELSE slab
        /\ UNCHANGED <<eager, m_next, mine, built, box>>
  BY DEF ReleaseBox
<1>2. /\ UNCHANGED <<sent, taken, handles>>
      /\ held' = [held EXCEPT ![r] = @ \ {e}]
      /\ held \in [Readers -> SUBSET Nat]
  BY <1>1, PoolInvTypes DEF ReleaseEvent
<1>3. e \in Alive /\ e \in 0..(sent - 1) /\ e < taken[r]
  BY HeldIsLive DEF PoolInv, ChannelInv, AtMostCapUnreleased
<1>4. \A f \in 0..(sent - 1) : FreeForAll(f)' <=> FreeForAll(f) \/ (f = e /\ LastOf(r, e))
  BY <1>1, FreeAfterRelease
<1>6. LiveInSlabs' /\ slab' \in [Slabs -> Nat \cup {NoEvent}]
  <2>1. CASE LastOf(r, e)
    <3>1. Alive' = Alive \ {e}
      BY <1>2, <1>3, <1>4, <2>1 DEF Alive
    <3>2. Live' = Live \ {e}
      <4>1. e # sent
        BY <1>3, PoolInvTypes
      <4> QED BY <1>1, <1>2, <3>1, <4>1 DEF Live
    <3> QED BY <1>1, <1>3, <2>1, <3>2, SlabsWithoutEvents
  <2>2. CASE ~ LastOf(r, e)
    <3>1. Alive' = Alive
      BY <1>2, <1>3, <1>4, <2>2 DEF Alive
    <3>2. Live' = Live
      BY <1>1, <1>2, <3>1 DEF Live
    <3> QED BY <1>1, <2>2, <3>2, PoolInvTypes DEF PoolInv, LiveInSlabs
  <2> QED BY <2>1, <2>2
<1>7. PoolTypeOK' /\ Place' /\ Boxes'
  BY <1>1, <1>2, <1>6 DEF PoolInv, PoolTypeOK, Place, Boxes
<1>8. ChannelInv'
  BY <1>1, ReleaseKeeps DEF Release, PoolInv
<1> QED BY <1>6, <1>7, <1>8 DEF PoolInv

LEMMA DropHandleKeeps ==
    ASSUME RoomToPrepare, PoolInv, NEW h \in Readers \cup {Writer}, DropHandle(h)
    PROVE  PoolInv'
<1>1. /\ UNCHANGED <<sent, taken, held, eager, m_next, mine, built, box>>
      /\ h \in handles /\ handles' = handles \ {h}
      /\ h = Writer => mine = NoSlab
  BY DEF DropHandle, Drop
<1>2. LiveInSlabs' /\ slab' \in [Slabs -> Nat \cup {NoEvent}]
  <2>1. CASE handles = {h}
    <3>1. mine = NoSlab /\ ~ built
      BY <1>1, <2>1 DEF PoolInv, Place
    <3>2. slab' = SlabsWithout(Alive)
      BY <2>1 DEF DropHandle, Alive
    <3>3. Live = Alive /\ Live' = {}
      BY <1>1, <2>1, <3>1 DEF Live, Alive
    <3> QED BY <3>2, <3>3, SlabsWithoutEvents
  <2>2. CASE handles # {h}
    <3>1. slab' = slab /\ handles # {} /\ handles' # {}
      BY <1>1, <2>2 DEF DropHandle
    <3>2. Alive' = Alive
      BY <1>1, <3>1 DEF Alive, FreeForAll, Unreleased
    <3>3. Live' = Live
      BY <1>1, <3>2 DEF Live
    <3> QED BY <3>1, <3>3, PoolInvTypes DEF PoolInv, LiveInSlabs
  <2> QED BY <2>1, <2>2
<1>3. PoolTypeOK' /\ Boxes'
  BY <1>1, <1>2 DEF PoolInv, PoolTypeOK, Boxes
<1>4. Place'
  BY <1>1 DEF PoolInv, Place
<1>5. ChannelInv'
  BY DropKeeps DEF DropHandle, PoolInv
<1> QED BY <1>2, <1>3, <1>4, <1>5 DEF PoolInv

LEMMA PoolStepKeeps ==
    ASSUME RoomToPrepare, PoolInv, [Next]_poolAndChannel
    PROVE  PoolInv'
<1>1. CASE TakeSlab
  BY <1>1, TakeSlabKeeps
<1>2. CASE Construct
  BY <1>2, ConstructKeeps
<1>3. CASE TryWriteDone
  BY <1>3, TryWriteDoneKeeps
<1>4. CASE TryWriteLost
  BY <1>4, TryWriteLostKeeps
<1>5. ASSUME NEW r \in Readers, TakeBox(r) \/ LookInBox(r) \/ ReleaseBox(r)
      PROVE  PoolInv'
  BY <1>5, TakeBoxKeeps, LookInBoxKeeps, ReleaseBoxKeeps
<1>6. ASSUME NEW h \in Readers \cup {Writer}, DropHandle(h)
      PROVE  PoolInv'
  BY <1>6, DropHandleKeeps
<1>7. CASE UNCHANGED poolAndChannel
  <2>1. UNCHANGED <<channelVars, eager, m_next, slab, mine, built, box>>
    BY <1>7 DEF poolAndChannel, poolVars
  <2>2. Live' = Live
    BY <2>1, LiveSame DEF channelVars
  <2>3. PoolTypeOK' /\ Place' /\ Boxes' /\ LiveInSlabs'
    BY <2>1, <2>2 DEF PoolInv, PoolTypeOK, Place, Boxes, LiveInSlabs, channelVars
  <2>4. ChannelInv'
    BY <2>1, ChannelSame
  <2> QED BY <2>3, <2>4 DEF PoolInv
<1> QED BY <1>1, <1>2, <1>3, <1>4, <1>5, <1>6, <1>7 DEF Next

\* Every step of the composition is a step of the channel, or none.
LEMMA PoolStepImplements ==
    ASSUME PoolInv, [Next]_poolAndChannel
    PROVE  [ChannelNext]_channelVars
<1>1. CASE TakeSlab \/ Construct \/ TryWriteLost \/ UNCHANGED poolAndChannel
  BY <1>1 DEF TakeSlab, Construct, TryWriteLost, poolAndChannel
<1>2. CASE TryWriteDone
  BY <1>2 DEF TryWriteDone, ChannelNext
<1>3. ASSUME NEW r \in Readers, TakeBox(r) \/ LookInBox(r) \/ ReleaseBox(r)
      PROVE  ChannelNext
  BY <1>3, LookInBoxLooks DEF TakeBox, ReleaseBox, Release, ChannelNext
<1>4. ASSUME NEW h \in Readers \cup {Writer}, DropHandle(h)
      PROVE  ChannelNext
  BY <1>4 DEF DropHandle, ChannelNext
<1> QED BY <1>1, <1>2, <1>3, <1>4 DEF Next
-----------------------------------------------------------------------------
LEMMA PoolInductive == ASSUME RoomToPrepare PROVE Spec => []PoolInv
BY PoolInitInv, PoolStepKeeps, PTL DEF Spec

\* The pool's state has its types whatever the channel's capacity.
THEOREM PoolTypeCorrect == ASSUME RoomToPrepare PROVE Spec => []PoolTypeOK
<1>1. PoolInv => PoolTypeOK
  BY DEF PoolInv
<1> QED BY <1>1, PoolInductive, PTL

\* With one slab more than the channel has events, and any number of readers, no
\* event is ever constructed over a live one.
THEOREM ConstructionIsSafe ==
    ASSUME RoomToPrepare PROVE Spec => []ConstructsInRawMemory
<1>1. PoolInv => ConstructsInRawMemory
  BY NextSlabIsRaw DEF ConstructsInRawMemory
<1> QED BY <1>1, PoolInductive, PTL

\* Every event is destroyed exactly when nobody needs it any more.
THEOREM DestructionIsExact == ASSUME RoomToPrepare PROVE Spec => []SlabsExact
<1>1. ASSUME PoolInv PROVE SlabsExact
  <2>1. ASSUME NEW e \in Alive PROVE e \in Live /\ box[e] = SlabOf(e) /\ slab[SlabOf(e)] = e
    BY <1>1 DEF Live, Alive, PoolInv, Boxes, LiveInSlabs
  <2>2. built => mine = SlabOf(sent) /\ sent \in Live /\ slab[SlabOf(sent)] = sent
    BY <1>1 DEF Live, PoolInv, Place, LiveInSlabs
  <2>3. ASSUME NEW p \in Slabs, slab[p] # NoEvent
        PROVE  (built /\ mine = p) \/ \E e \in Alive : box[e] = p
    <3>1. slab[p] \in Live /\ SlabOf(slab[p]) = p
      BY <1>1, <2>3 DEF PoolInv, LiveInSlabs
    <3>2. CASE slab[p] \in Alive
      BY <2>1, <3>1, <3>2
    <3>3. CASE slab[p] \notin Alive
      BY <2>2, <3>1, <3>3 DEF Live
    <3> QED BY <3>2, <3>3
  <2>4. sent # NoEvent /\ \A e \in Alive : e # NoEvent
    BY <1>1, PoolInvTypes DEF Alive, NoEvent
  <2> QED BY <2>1, <2>2, <2>3, <2>4 DEF SlabsExact
<1> QED BY <1>1, PoolInductive, PTL

\* The assertion of try_log_event never fails, unless a log statement nests.
THEOREM ActiveSlabOffered == ASSUME RoomToPrepare PROVE Spec => []OffersActiveSlab
<1>1. PoolInv => OffersActiveSlab
  BY DEF PoolInv, Place, OffersActiveSlab
<1> QED BY <1>1, PoolInductive, PTL

\* Boxes and pool together keep the channel's promise about the events themselves.
THEOREM PoolImplementsChannel ==
    ASSUME RoomToPrepare PROVE Spec => ImplementsChannel
<1>1. Init => ChannelInit
  BY DEF Init
<1> QED BY <1>1, PoolInductive, PoolStepImplements, PTL
        DEF Spec, ImplementsChannel, ChannelSpec
-----------------------------------------------------------------------------
(***************************************************************************)
(* The measuring program.  Its steps are steps of the pool, so all of the  *)
(* above holds of it.  That its counters agree needs the events that are   *)
(* through, those every reader has released: each was counted by exactly   *)
(* one reader, the one that was last to release it.  Who destroyed which   *)
(* is recorded nowhere, so the invariant says that there is such a         *)
(* division of them.                                                       *)
(***************************************************************************)
Through == {e \in 0..(sent - 1) : FreeForAll(e)}

Finished == {r \in Readers : pc[r] \in {"done", "ended"}}

By(owned, readers) == UNION {owned[r] : r \in readers}

Divided(owned) ==
    /\ owned \in [Readers -> SUBSET Nat]
    /\ By(owned, Readers) = Through
    /\ \A r, s \in Readers : r # s => owned[r] \cap owned[s] = {}
    /\ \A r \in Readers : g_local[r] = Cardinality(owned[r])
    /\ m_global_released = Cardinality(By(owned, Finished))

ReaderInPlace(r) ==
    /\ pc[r] \in {"unborn", "started", "loop", "check", "release", "done", "ended"}
    /\ seen[r] \in Nat
    /\ taken[r] = seen[r] + (IF pc[r] = "check" THEN 1 ELSE 0)
    /\ \A e \in held[r] : e = taken[r] - 1
    /\ held[r] # {} => pc[r] \in {"check", "release"}
    /\ pc[r] \in {"done", "ended"} => seen[r] = MaxEvents

WriterInPlace ==
    /\ pc[Writer] \in {"unborn", "started", "loop", "done", "ended"}
    /\ g_local[Writer] = sent + (IF built THEN 1 ELSE 0)
    /\ IF pc[Writer] \in {"done", "ended"}
       THEN sent = MaxEvents /\ m_global_allocated = sent
       ELSE m_global_allocated = 0

ThreadsOver ==
    /\ \A t \in Threads : pc[t] = "ended" => t \notin handles
    /\ main = "success" => \A t \in Threads : pc[t] = "ended"

ProgramInv ==
    /\ main # "logger"
    /\ DOMAIN pc = Threads /\ DOMAIN g_local = Threads /\ DOMAIN seen = Readers
    /\ \A r \in Readers : ReaderInPlace(r)
    /\ WriterInPlace
    /\ ThreadsOver
    /\ \E owned \in [Readers -> SUBSET Nat] : Divided(owned)

\* The logger's process has none of these threads.
NoProgram == main = "logger" /\ \A t \in Threads : pc[t] = "unborn"

MeasureInv == IF eager THEN ProgramInv ELSE NoProgram
-----------------------------------------------------------------------------
LEMMA ProgramSame ==
    ASSUME ProgramInv
    PROVE  /\ \A r \in Readers : r \in Threads /\ r # Writer
           /\ Writer \in Threads
           /\ \A t \in Threads : t = Writer \/ t \in Readers
BY PoolSizes DEF Threads

\* The division stays as it is while no event gets through and no reader ends.
LEMMA DividedSame ==
    ASSUME ProgramInv, Through' = Through, Finished' = Finished,
           \A r \in Readers : g_local'[r] = g_local[r],
           m_global_released' = m_global_released
    PROVE  \E owned \in [Readers -> SUBSET Nat] : Divided(owned)'
<1>1. PICK owned \in [Readers -> SUBSET Nat] : Divided(owned)
  BY DEF ProgramInv
<1>2. Divided(owned)'
  BY <1>1 DEF Divided, By
<1> QED BY <1>2

LEMMA ThroughSame ==
    ASSUME UNCHANGED <<sent, taken, held>>
    PROVE  Through' = Through
BY DEF Through, FreeForAll, Unreleased

\* There are finitely many events to divide.
LEMMA ThroughFinite ==
    ASSUME PoolInv, NEW events \in SUBSET Through
    PROVE  IsFiniteSet(events) /\ Cardinality(events) \in Nat
<1>1. 0 \in Int /\ sent - 1 \in Int
  BY PoolInvTypes
<1>2. IsFiniteSet(0..(sent - 1))
  BY <1>1, FS_Interval
<1>3. events \subseteq 0..(sent - 1)
  BY DEF Through
<1>4. IsFiniteSet(events)
  BY <1>2, <1>3, FS_Subset
<1> QED BY <1>4, FS_CardinalityType

\* A thread comes nearer to its loop.
LEMMA StartKeeps ==
    ASSUME PoolInv, ProgramInv, NEW t \in Threads, NEW place \in {"started", "loop"},
           pc[t] \in {"unborn", "started"}, Goes(t, place),
           main' \notin {"logger", "success"},
           UNCHANGED <<poolAndChannel, seen, g_local, m_global_allocated, m_global_released>>
    PROVE  ProgramInv'
<1> USE DEF Goes, poolAndChannel, channelVars, poolVars
<1>1. \A r \in Readers : ReaderInPlace(r)'
  BY ProgramSame DEF ProgramInv, ReaderInPlace
<1>2. WriterInPlace'
  BY ProgramSame DEF ProgramInv, WriterInPlace
<1>3. ThreadsOver'
  BY DEF ProgramInv, ThreadsOver
<1>4. Finished' = Finished
  BY ProgramSame DEF Finished, ProgramInv
<1>5. \E owned \in [Readers -> SUBSET Nat] : Divided(owned)'
  BY <1>4, ThroughSame, DividedSame
<1> QED BY <1>1, <1>2, <1>3, <1>5 DEF ProgramInv

LEMMA MainKeeps ==
    ASSUME PoolInv, ProgramInv, CheckArguments \/ Join
    PROVE  ProgramInv'
<1>1. /\ UNCHANGED <<poolAndChannel, pc, seen, g_local, m_global_allocated, m_global_released>>
      /\ main' # "logger"
      /\ main' = "success" => \A t \in Threads : pc[t] = "ended"
  BY DEF CheckArguments, Join
<1>2. UNCHANGED <<sent, taken, held, handles, built>>
  BY <1>1 DEF poolAndChannel, channelVars, poolVars
<1>3. \A r \in Readers : ReaderInPlace(r)'
  BY <1>1, <1>2 DEF ProgramInv, ReaderInPlace
<1>4. WriterInPlace' /\ ThreadsOver' /\ Finished' = Finished
  BY <1>1, <1>2 DEF ProgramInv, WriterInPlace, ThreadsOver, Finished
<1>5. \E owned \in [Readers -> SUBSET Nat] : Divided(owned)'
  BY <1>1, <1>2, <1>4, ThroughSame, DividedSame
<1> QED BY <1>1, <1>3, <1>4, <1>5 DEF ProgramInv

LEMMA SpawnKeeps ==
    ASSUME PoolInv, ProgramInv, NEW t \in Threads, Spawn(t)
    PROVE  ProgramInv'
<1>1. pc[t] = "unborn" /\ Goes(t, "started") /\ main' \notin {"logger", "success"}
  BY DEF Spawn, Goes
<1> QED BY <1>1, StartKeeps DEF Spawn

LEMMA ReadyKeeps ==
    ASSUME PoolInv, ProgramInv, WriterReady \/ \E r \in Readers : ReaderReady(r)
    PROVE  ProgramInv'
<1>1. PICK t \in Threads :
        /\ pc[t] = "started" /\ Goes(t, "loop")
        /\ main \notin Over /\ main' = main
        /\ UNCHANGED <<poolAndChannel, seen, g_local, m_global_allocated, m_global_released>>
  BY ProgramSame DEF WriterReady, ReaderReady, At
<1>2. main' \notin {"logger", "success"}
  BY <1>1 DEF Over, ProgramInv
<1> QED BY <1>1, <1>2, StartKeeps
-----------------------------------------------------------------------------
\* A reader goes round its loop.
LEMMA TryReadKeeps ==
    ASSUME PoolInv, ProgramInv, NEW r \in Readers, TryRead(r)
    PROVE  ProgramInv'
<1>1. /\ main' = main /\ main \notin Over /\ pc[r] = "loop"
      /\ pc' = [pc EXCEPT ![r] = "check"]
      /\ taken' = [taken EXCEPT ![r] = @ + 1]
      /\ held' = [held EXCEPT ![r] = @ \cup {taken[r]}]
      /\ UNCHANGED <<sent, handles, built, seen, g_local, m_global_allocated, m_global_released>>
  BY DEF TryRead, At, Goes, TakeBox, Take, poolVars
<1>2. taken \in [Readers -> Nat] /\ held \in [Readers -> SUBSET Nat] /\ DOMAIN pc = Threads
  BY PoolInvTypes DEF ProgramInv
<1>3. ReaderInPlace(r)'
  <2>1. ReaderInPlace(r) /\ r \in Threads
    BY ProgramSame DEF ProgramInv
  <2>2. held[r] = {} /\ taken[r] = seen[r]
    BY <1>1, <2>1 DEF ReaderInPlace
  <2>3. held'[r] = {taken[r]} /\ taken'[r] = taken[r] + 1 /\ pc'[r] = "check" /\ taken[r] \in Nat
    BY <1>1, <1>2, <2>1, <2>2
  <2> QED BY <1>1, <2>1, <2>2, <2>3 DEF ReaderInPlace
<1>4. ASSUME NEW other \in Readers \ {r} PROVE ReaderInPlace(other)'
  <2>1. ReaderInPlace(other)
    BY DEF ProgramInv
  <2>2. pc'[other] = pc[other] /\ taken'[other] = taken[other] /\ held'[other] = held[other]
    BY <1>1, <1>2, ProgramSame
  <2> QED BY <1>1, <2>1, <2>2 DEF ReaderInPlace
<1>5. WriterInPlace' /\ ThreadsOver' /\ Finished' = Finished
  BY <1>1, <1>2, ProgramSame DEF ProgramInv, WriterInPlace, ThreadsOver, Finished, Over
<1>6. Through' = Through
  BY <1>1, FreeAfterTake DEF TryRead, TakeBox, Through
<1>7. \E owned \in [Readers -> SUBSET Nat] : Divided(owned)'
  BY <1>1, <1>5, <1>6, DividedSame
<1> QED BY <1>1, <1>2, <1>3, <1>4, <1>5, <1>7 DEF ProgramInv

LEMMA CheckDataKeeps ==
    ASSUME PoolInv, ProgramInv, NEW r \in Readers, CheckData(r)
    PROVE  ProgramInv'
<1>1. /\ main \notin Over /\ pc[r] = "check"
      /\ \/ /\ main' = main /\ pc' = [pc EXCEPT ![r] = "release"]
            /\ seen' = [seen EXCEPT ![r] = @ + 1]
         \/ main' = "aborted" /\ UNCHANGED <<pc, seen>>
      /\ UNCHANGED <<sent, taken, held, handles, built,
                     g_local, m_global_allocated, m_global_released>>
  BY DEF CheckData, At, Goes, LookInBox, poolVars
<1>2. DOMAIN pc = Threads /\ DOMAIN seen = Readers
  BY DEF ProgramInv
<1>3. ReaderInPlace(r)'
  <2>1. ReaderInPlace(r) /\ r \in Threads
    BY ProgramSame DEF ProgramInv
  <2> QED BY <1>1, <1>2, <2>1 DEF ReaderInPlace
<1>4. ASSUME NEW other \in Readers \ {r} PROVE ReaderInPlace(other)'
  <2>1. ReaderInPlace(other)
    BY DEF ProgramInv
  <2>2. pc'[other] = pc[other] /\ seen'[other] = seen[other]
    BY <1>1, <1>2, ProgramSame
  <2> QED BY <1>1, <2>1, <2>2 DEF ReaderInPlace
<1>5. WriterInPlace' /\ ThreadsOver' /\ Finished' = Finished
  BY <1>1, <1>2, ProgramSame DEF ProgramInv, WriterInPlace, ThreadsOver, Finished, Over
<1>6. \E owned \in [Readers -> SUBSET Nat] : Divided(owned)'
  BY <1>1, <1>5, ThroughSame, DividedSame
<1> QED BY <1>1, <1>2, <1>3, <1>4, <1>5, <1>6 DEF ProgramInv

\* The division after a release: the event that gets through is the reader's.
LEMMA DividedRelease ==
    ASSUME PoolInv, ProgramInv, NEW r \in Readers, NEW e, ReleaseEvent(r, e), LastOf(r, e),
           r \notin Finished, Finished' = Finished, m_global_released' = m_global_released,
           g_local' = [g_local EXCEPT ![r] = @ + 1]
    PROVE  \E owned \in [Readers -> SUBSET Nat] : Divided(owned)'
<1>1. PICK owned \in [Readers -> SUBSET Nat] : Divided(owned)
  BY DEF ProgramInv
<1> DEFINE new == [owned EXCEPT ![r] = @ \cup {e}]
<1>2. e \in 0..(sent - 1) /\ e \notin Through /\ sent \in Nat
  BY FreeAfterRelease, PoolInvTypes DEF Through
<1>3. Through' = Through \cup {e}
  BY <1>2, FreeAfterRelease DEF Through, ReleaseEvent
<1>4. /\ new \in [Readers -> SUBSET Nat] /\ new[r] = owned[r] \cup {e}
      /\ \A s \in Readers \ {r} : new[s] = owned[s]
  BY <1>2
<1>5. \A s \in Readers : e \notin owned[s]
  BY <1>1, <1>2 DEF Divided, By
<1> HIDE DEF new
<1>6. By(new, Readers) = Through'
  <2>1. By(owned, Readers) = Through
    BY <1>1 DEF Divided
  <2> QED BY <1>3, <1>4, <2>1 DEF By
<1>7. \A s, t \in Readers : s # t => new[s] \cap new[t] = {}
  BY <1>1, <1>4, <1>5 DEF Divided
<1>8. \A s \in Readers : g_local'[s] = Cardinality(new[s])
  <2>1. IsFiniteSet(owned[r])
    <3>1. owned[r] \subseteq Through
      BY <1>1 DEF Divided, By
    <3> QED BY <3>1, ThroughFinite
  <2>2. Cardinality(new[r]) = Cardinality(owned[r]) + 1
    BY <1>4, <1>5, <2>1, FS_AddElement
  <2>3. g_local'[r] = g_local[r] + 1 /\ \A s \in Readers \ {r} : g_local'[s] = g_local[s]
    BY ProgramSame DEF ProgramInv
  <2> QED BY <1>1, <1>4, <2>2, <2>3 DEF Divided
<1>9. By(new, Finished) = By(owned, Finished)
  BY <1>4 DEF By, Finished
<1> QED BY <1>1, <1>4, <1>6, <1>7, <1>8, <1>9 DEF Divided

LEMMA ReleaseDataKeeps ==
    ASSUME PoolInv, ProgramInv, NEW r \in Readers, ReleaseData(r)
    PROVE  ProgramInv'
<1>1. PICK e \in held[r] :
        /\ ReleaseEvent(r, e)
        /\ slab' = IF LastOf(r, e) THEN SlabsWithout({e}) ELSE slab
  BY DEF ReleaseData, ReleaseBox
<1>2. /\ main' = main /\ main \notin Over /\ pc[r] = "release"
      /\ pc' = [pc EXCEPT ![r] = "loop"]
      /\ held' = [held EXCEPT ![r] = @ \ {e}]
      /\ g_local' = [g_local EXCEPT ![r] = @ + (IF slab' # slab THEN 1 ELSE 0)]
      /\ UNCHANGED <<sent, taken, handles, built, seen, m_global_allocated, m_global_released>>
  BY <1>1 DEF ReleaseData, ReleaseBox, ReleaseEvent, At, Goes
<1>3. held \in [Readers -> SUBSET Nat] /\ DOMAIN pc = Threads /\ DOMAIN g_local = Threads
  BY PoolInvTypes DEF ProgramInv
<1>4. ReaderInPlace(r)'
  <2>1. ReaderInPlace(r) /\ r \in Threads
    BY ProgramSame DEF ProgramInv
  <2>2. held'[r] = {}
    BY <1>1, <1>2, <1>3, <2>1 DEF ReaderInPlace
  <2> QED BY <1>2, <1>3, <2>1, <2>2 DEF ReaderInPlace
<1>5. ASSUME NEW other \in Readers \ {r} PROVE ReaderInPlace(other)'
  <2>1. ReaderInPlace(other)
    BY DEF ProgramInv
  <2>2. pc'[other] = pc[other] /\ held'[other] = held[other]
    BY <1>2, <1>3, ProgramSame
  <2> QED BY <1>2, <2>1, <2>2 DEF ReaderInPlace
<1>6. WriterInPlace' /\ ThreadsOver' /\ Finished' = Finished /\ r \notin Finished
  BY <1>2, <1>3, ProgramSame DEF ProgramInv, WriterInPlace, ThreadsOver, Finished, Over
<1>7. \E owned \in [Readers -> SUBSET Nat] : Divided(owned)'
  <2>1. CASE LastOf(r, e)
    <3>1. slab' # slab
      <4>1. box[e] = SlabOf(e) /\ e \in Live /\ e \in Nat
        BY HeldIsLive DEF Live
      <4>2. SlabOf(e) \in Slabs /\ slab[SlabOf(e)] = e /\ e # NoEvent
        BY <4>1, SlabOfType DEF PoolInv, LiveInSlabs, NoEvent
      <4>3. slab'[SlabOf(e)] = NoEvent
        BY <1>1, <2>1, <4>1, <4>2 DEF SlabsWithout
      <4> QED BY <4>2, <4>3
    <3>2. g_local' = [g_local EXCEPT ![r] = @ + 1]
      BY <1>2, <3>1
    <3> QED BY <1>1, <1>2, <1>6, <2>1, <3>2, DividedRelease
  <2>2. CASE ~ LastOf(r, e)
    <3>1. \A s \in Readers : g_local'[s] = g_local[s]
      <4>1. g_local' = [g_local EXCEPT ![r] = @ + 0]
        BY <1>1, <1>2, <2>2
      <4>2. PICK owned \in [Readers -> SUBSET Nat] : Divided(owned)
        BY DEF ProgramInv
      <4>3. g_local[r] \in Nat
        <5>1. owned[r] \subseteq Through
          BY <4>2 DEF Divided, By
        <5>2. Cardinality(owned[r]) \in Nat
          BY <5>1, ThroughFinite
        <5> QED BY <4>2, <5>2 DEF Divided
      <4> QED BY <1>3, <4>1, <4>3, ProgramSame
    <3>2. Through' = Through
      BY <1>1, <1>2, <2>2, FreeAfterRelease DEF Through
    <3> QED BY <1>2, <1>6, <3>1, <3>2, DividedSame
  <2> QED BY <2>1, <2>2
<1> QED BY <1>2, <1>3, <1>4, <1>5, <1>6, <1>7 DEF ProgramInv

\* A reader at its end adds its count; it counted no event another one did.
LEMMA ReaderDoneKeeps ==
    ASSUME PoolInv, ProgramInv, NEW r \in Readers, ReaderDone(r)
    PROVE  ProgramInv'
<1>1. /\ main' = main /\ main \notin Over /\ pc[r] = "loop" /\ seen[r] = MaxEvents
      /\ pc' = [pc EXCEPT ![r] = "done"]
      /\ m_global_released' = m_global_released + g_local[r]
      /\ UNCHANGED <<sent, taken, held, handles, built, seen, g_local, m_global_allocated>>
  BY DEF ReaderDone, At, Goes, poolAndChannel, channelVars, poolVars, total_events
<1>2. DOMAIN pc = Threads
  BY DEF ProgramInv
<1>3. ReaderInPlace(r)'
  <2>1. ReaderInPlace(r) /\ r \in Threads
    BY ProgramSame DEF ProgramInv
  <2> QED BY <1>1, <1>2, <2>1 DEF ReaderInPlace
<1>4. ASSUME NEW other \in Readers \ {r} PROVE ReaderInPlace(other)'
  <2>1. ReaderInPlace(other)
    BY DEF ProgramInv
  <2>2. pc'[other] = pc[other]
    BY <1>1, <1>2, ProgramSame
  <2> QED BY <1>1, <2>1, <2>2 DEF ReaderInPlace
<1>5. WriterInPlace' /\ ThreadsOver'
  BY <1>1, <1>2, ProgramSame DEF ProgramInv, WriterInPlace, ThreadsOver, Over
<1>6. Finished' = Finished \cup {r} /\ r \notin Finished
  BY <1>1, <1>2, ProgramSame DEF Finished
<1>7. PICK owned \in [Readers -> SUBSET Nat] : Divided(owned)
  BY DEF ProgramInv
<1>8. m_global_released' = Cardinality(By(owned, Finished'))
  <2>1. By(owned, Finished') = By(owned, Finished) \cup owned[r]
    BY <1>6 DEF By
  <2>2. By(owned, Finished) \cap owned[r] = {}
    <3>1. ASSUME NEW s \in Finished PROVE owned[s] \cap owned[r] = {}
      BY <1>6, <1>7 DEF Divided, Finished
    <3> QED BY <3>1 DEF By
  <2>3. /\ IsFiniteSet(By(owned, Finished)) /\ Cardinality(By(owned, Finished)) \in Nat
        /\ IsFiniteSet(owned[r]) /\ Cardinality(owned[r]) \in Nat
    <3>1. By(owned, Finished) \subseteq Through /\ owned[r] \subseteq Through
      BY <1>7 DEF Divided, By, Finished
    <3> QED BY <3>1, ThroughFinite
  <2>4. Cardinality(By(owned, Finished) \cup owned[r])
            = Cardinality(By(owned, Finished)) + Cardinality(owned[r])
    <3>1. Cardinality(By(owned, Finished) \cup owned[r])
              = Cardinality(By(owned, Finished)) + Cardinality(owned[r])
                  - Cardinality(By(owned, Finished) \cap owned[r])
      BY <2>3, FS_Union
    <3>2. Cardinality(By(owned, Finished) \cap owned[r]) = 0
      BY <2>2, FS_EmptySet
    <3> QED BY <2>3, <3>1, <3>2
  <2> QED BY <1>1, <1>7, <2>1, <2>4 DEF Divided
<1>9. Divided(owned)'
  BY <1>1, <1>7, <1>8, ThroughSame DEF Divided, By
<1> QED BY <1>1, <1>2, <1>3, <1>4, <1>5, <1>9 DEF ProgramInv
-----------------------------------------------------------------------------
\* The writer builds, offers and counts.
LEMMA WriterKeeps ==
    ASSUME PoolInv, ProgramInv, eager, Allocate \/ CreateData \/ TryWrite \/ WriterDone
    PROVE  ProgramInv'
<1>1. /\ main' = main /\ main \notin Over /\ pc[Writer] = "loop"
      /\ UNCHANGED <<taken, held, handles, seen, m_global_released>>
  BY DEF Allocate, CreateData, TryWrite, WriterDone, At, TakeSlab, Construct, TryWriteDone,
         Write, programVars, poolAndChannel, channelVars
<1>2. \A r \in Readers : g_local'[r] = g_local[r] /\ pc'[r] = pc[r]
  BY ProgramSame DEF Allocate, CreateData, TryWrite, WriterDone, Goes, programVars, ProgramInv
<1>3. DOMAIN pc' = Threads /\ DOMAIN g_local' = Threads
  BY DEF Allocate, CreateData, TryWrite, WriterDone, Goes, programVars, ProgramInv
<1>4. \A r \in Readers : ReaderInPlace(r)'
  BY <1>1, <1>2 DEF ProgramInv, ReaderInPlace
<1>5. WriterInPlace'
  <2>1. /\ sent \in Nat /\ MaxEvents \in Nat /\ WriterInPlace /\ Writer \in Threads
        /\ built => sent < MaxEvents
        /\ DOMAIN pc = Threads /\ DOMAIN g_local = Threads
    BY PoolInvTypes, PoolSizes, ProgramSame DEF ProgramInv, PoolInv, Place
  <2>2. CASE Allocate
    BY <2>1, <2>2 DEF Allocate, TakeSlab, programVars, channelVars, WriterInPlace
  <2>3. CASE CreateData
    BY <2>1, <2>3 DEF CreateData, Construct, At, channelVars, WriterInPlace
  <2>4. CASE TryWrite
    BY <2>1, <2>4 DEF TryWrite, TryWriteDone, Write, At, programVars, WriterInPlace
  <2>5. CASE WriterDone
    <3>1. ~ built /\ sent = MaxEvents
      BY <2>1, <2>5 DEF WriterDone, total_events
    <3> QED BY <2>1, <2>5, <3>1 DEF WriterDone, At, Goes, poolAndChannel, channelVars, poolVars, WriterInPlace
  <2> QED BY <2>2, <2>3, <2>4, <2>5
<1>6. ThreadsOver'
  <2>1. pc'[Writer] # "ended"
    BY <1>1, ProgramSame DEF Allocate, CreateData, TryWrite, WriterDone, Goes, programVars, ProgramInv
  <2> QED BY <1>1, <1>2, <2>1, ProgramSame DEF ProgramInv, ThreadsOver, Over
<1>7. Through' = Through
  <2>1. CASE UNCHANGED sent
    BY <1>1, <2>1, ThroughSame
  <2>2. CASE Write
    BY <2>2, FreeAfterWrite, PoolInvTypes DEF Through, Write
  <2> QED BY <2>1, <2>2 DEF Allocate, CreateData, TryWrite, WriterDone, TakeSlab, Construct,
                            TryWriteDone, poolAndChannel, channelVars
<1>8. \E owned \in [Readers -> SUBSET Nat] : Divided(owned)'
  BY <1>1, <1>2, <1>7, DividedSame DEF Finished
<1> QED BY <1>1, <1>3, <1>4, <1>5, <1>6, <1>8 DEF ProgramInv

LEMMA EndThreadKeeps ==
    ASSUME PoolInv, ProgramInv, NEW t \in Threads, EndThread(t)
    PROVE  ProgramInv'
<1>1. /\ main' = main /\ main \notin Over /\ pc[t] = "done"
      /\ pc' = [pc EXCEPT ![t] = "ended"] /\ handles' = handles \ {t}
      /\ UNCHANGED <<sent, taken, held, built, seen, g_local,
                     m_global_allocated, m_global_released>>
  BY DEF EndThread, At, Goes, DropHandle, Drop
<1>2. \A r \in Readers : ReaderInPlace(r)'
  BY <1>1, ProgramSame DEF ProgramInv, ReaderInPlace
<1>3. WriterInPlace'
  BY <1>1, ProgramSame DEF ProgramInv, WriterInPlace
<1>4. ThreadsOver'
  BY <1>1 DEF ProgramInv, ThreadsOver, Over
<1>5. Finished' = Finished
  BY <1>1, ProgramSame DEF ProgramInv, Finished
<1>6. \E owned \in [Readers -> SUBSET Nat] : Divided(owned)'
  BY <1>1, <1>5, ThroughSame, DividedSame
<1> QED BY <1>1, <1>2, <1>3, <1>4, <1>6 DEF ProgramInv

LEMMA ProgramSteps ==
    ASSUME [ProgramNext]_vars
    PROVE  [Next]_poolAndChannel
<1>1. CASE MainStep
  BY <1>1 DEF MainStep, CheckArguments, Join, Spawn
<1>2. CASE WriterStep
  BY <1>2 DEF WriterStep, WriterReady, Allocate, CreateData, TryWrite, WriterDone, Next
<1>3. ASSUME NEW r \in Readers, ReaderStep(r) PROVE [Next]_poolAndChannel
  BY <1>3 DEF ReaderStep, ReaderReady, TryRead, CheckData, ReleaseData, ReaderDone, Next
<1>4. ASSUME NEW t \in Threads, EndThread(t) PROVE [Next]_poolAndChannel
  BY <1>4 DEF EndThread, Next, Threads
<1>5. CASE LoggerStep
  BY <1>5 DEF LoggerStep
<1>6. CASE Stopped \/ UNCHANGED vars
  BY <1>6 DEF Stopped, vars
<1> QED BY <1>1, <1>2, <1>3, <1>4, <1>5, <1>6 DEF ProgramNext

LEMMA NoProgramKeeps ==
    ASSUME NoProgram, [ProgramNext]_vars
    PROVE  NoProgram'
<1>1. UNCHANGED <<main, pc>>
  <2>1. CASE LoggerStep \/ Stopped \/ UNCHANGED vars
    BY <2>1 DEF LoggerStep, Stopped, vars, programVars
  <2>2. ~ MainStep
    BY DEF NoProgram, MainStep, CheckArguments, Join, Spawn
  <2>3. ~ WriterStep
    BY DEF NoProgram, Threads, At, WriterStep, WriterReady, Allocate, CreateData, TryWrite, WriterDone
  <2>4. \A r \in Readers : ~ ReaderStep(r)
    BY DEF NoProgram, Threads, At, ReaderStep, ReaderReady, TryRead, CheckData, ReleaseData, ReaderDone
  <2>5. \A t \in Threads : ~ EndThread(t)
    BY DEF NoProgram, At, EndThread
  <2> QED BY <2>1, <2>2, <2>3, <2>4, <2>5 DEF ProgramNext
<1> QED BY <1>1 DEF NoProgram

LEMMA ProgramKeeps ==
    ASSUME PoolInv, MeasureInv, [ProgramNext]_vars
    PROVE  MeasureInv'
<1>1. eager' = eager
  <2>1. CASE UNCHANGED poolAndChannel
    BY <2>1 DEF poolAndChannel, poolVars
  <2>2. CASE Next
    BY <2>2 DEF Next, TakeSlab, Construct, TryWriteDone, TryWriteLost, TakeBox, LookInBox,
                ReleaseBox, DropHandle, poolVars
  <2> QED BY <2>1, <2>2, ProgramSteps
<1> SUFFICES ASSUME eager PROVE ProgramInv'
  BY <1>1, NoProgramKeeps DEF MeasureInv
<1>2. ProgramInv
  BY DEF MeasureInv
<1>3. CASE MainStep
  BY <1>2, <1>3, MainKeeps, SpawnKeeps DEF MainStep
<1>4. CASE WriterStep
  BY <1>2, <1>4, ReadyKeeps, WriterKeeps DEF WriterStep
<1>5. ASSUME NEW r \in Readers, ReaderStep(r) PROVE ProgramInv'
  BY <1>2, <1>5, ReadyKeeps, TryReadKeeps, CheckDataKeeps, ReleaseDataKeeps, ReaderDoneKeeps
     DEF ReaderStep
<1>6. ASSUME NEW t \in Threads, EndThread(t) PROVE ProgramInv'
  BY <1>2, <1>6, EndThreadKeeps
<1>7. CASE Stopped \/ UNCHANGED vars
  <2>1. UNCHANGED <<poolAndChannel, main, pc, seen, g_local, m_global_allocated, m_global_released>>
    BY <1>7 DEF Stopped, vars, programVars
  <2>2. UNCHANGED <<sent, taken, held, handles, built>>
    BY <2>1 DEF poolAndChannel, channelVars, poolVars
  <2>3. /\ \A r \in Readers : ReaderInPlace(r)'
        /\ WriterInPlace' /\ ThreadsOver' /\ Finished' = Finished
    BY <1>2, <2>1, <2>2 DEF ProgramInv, ReaderInPlace, WriterInPlace, ThreadsOver, Finished
  <2>4. \E owned \in [Readers -> SUBSET Nat] : Divided(owned)'
    BY <1>2, <2>1, <2>2, <2>3, ThroughSame, DividedSame
  <2> QED BY <1>2, <2>1, <2>3, <2>4 DEF ProgramInv
<1> QED BY <1>3, <1>4, <1>5, <1>6, <1>7 DEF ProgramNext, LoggerStep

LEMMA ProgramInitInv == ProgramInit => MeasureInv
<1> SUFFICES ASSUME ProgramInit, eager PROVE ProgramInv
  BY DEF MeasureInv, NoProgram, ProgramInit
<1> USE DEF ProgramInit, Init, ChannelInit, PoolInit
<1>1. main # "logger" /\ Finished = {} /\ Through = {}
  BY DEF Finished, Through, Threads
<1>2. ASSUME NEW r \in Readers PROVE ReaderInPlace(r)
  <2>1. pc[r] = "unborn" /\ seen[r] = 0 /\ taken[r] = 0 /\ held[r] = {}
    BY DEF Threads
  <2> QED BY <2>1 DEF ReaderInPlace
<1>3. WriterInPlace /\ ThreadsOver
  BY DEF WriterInPlace, ThreadsOver, Threads
<1>4. \E owned \in [Readers -> SUBSET Nat] : Divided(owned)
  <2>1. [r \in Readers |-> {}] \in [Readers -> SUBSET Nat]
    OBVIOUS
  <2>2. Divided([r \in Readers |-> {}])
    BY <1>1, FS_EmptySet DEF Divided, By, Threads
  <2> QED BY <2>1, <2>2
<1> QED BY <1>1, <1>2, <1>3, <1>4 DEF ProgramInv

\* A measuring program uses the pool and the channel in the ways that EventPool
\* allows, so what is proved of those holds of it (main.h:109, data_heap.h).
THEOREM ProgramUsesPool == ProgramSpec => Spec
<1>1. ProgramInit => Init
  BY DEF ProgramInit
<1> QED BY <1>1, ProgramSteps, PTL DEF ProgramSpec, Spec

LEMMA ProgramInductive ==
    ASSUME RoomToPrepare PROVE ProgramSpec => [](PoolInv /\ MeasureInv)
BY ProgramInitInv, ProgramKeeps, ProgramUsesPool, PoolInductive, PTL DEF ProgramSpec

\* When main returns, the destructions its readers counted are the constructions
\* its writer counted, "must be zero" (data_heap.h:71), for any number of readers,
\* events and slabs: each event is one reader's to count.
THEOREM ProgramBalances ==
    ASSUME RoomToPrepare PROVE ProgramSpec => []CountersBalance
<1>1. ASSUME PoolInv, MeasureInv PROVE CountersBalance
  <2> SUFFICES ASSUME main = "success"
               PROVE  /\ m_global_allocated = total_events
                      /\ m_global_released = m_global_allocated
                      /\ \A p \in Slabs : slab[p] = NoEvent
    BY DEF CountersBalance
  <2>1. ProgramInv /\ \A t \in Threads : pc[t] = "ended" /\ t \notin handles
    BY <1>1 DEF MeasureInv, NoProgram, ProgramInv, ThreadsOver
  <2>2. handles = {} /\ Finished = Readers /\ pc[Writer] = "ended" /\ sent \in Nat
    BY <1>1, <2>1, PoolInvTypes, ProgramSame DEF Finished, Threads
  <2>3. sent = MaxEvents /\ m_global_allocated = sent
    BY <2>1, <2>2 DEF ProgramInv, WriterInPlace
  <2>4. Through = 0..(sent - 1)
    <3>1. ASSUME NEW r \in Readers PROVE held[r] = {} /\ taken[r] = sent
      <4>1. pc[r] = "ended" /\ ReaderInPlace(r)
        BY <2>1, ProgramSame DEF ProgramInv
      <4> QED BY <2>3, <4>1 DEF ReaderInPlace
    <3>2. ASSUME NEW e \in 0..(sent - 1), NEW r \in Readers PROVE ~ Unreleased(r, e)
      BY <2>2, <3>1 DEF Unreleased
    <3> QED BY <3>2 DEF Through, FreeForAll
  <2>5. m_global_released = Cardinality(Through)
    <3>1. PICK owned \in [Readers -> SUBSET Nat] : Divided(owned)
      BY <2>1 DEF ProgramInv
    <3> QED BY <2>2, <3>1 DEF Divided
  <2>6. Cardinality(0..(sent - 1)) = sent
    <3>1. 0 \in Int /\ sent - 1 \in Int
      BY <2>2
    <3>2. Cardinality(0..(sent - 1)) = IF 0 > sent - 1 THEN 0 ELSE (sent - 1) - 0 + 1
      BY <3>1, FS_Interval
    <3> QED BY <2>2, <3>2
  <2>7. Live = {}
    <3>1. ~ built
      BY <1>1, <2>2 DEF PoolInv, Place
    <3> QED BY <2>2, <3>1 DEF Live, Alive
  <2>8. \A p \in Slabs : slab[p] = NoEvent
    BY <1>1, <2>7 DEF PoolInv, LiveInSlabs
  <2> QED BY <2>3, <2>4, <2>5, <2>6, <2>8 DEF total_events
<1> QED BY <1>1, ProgramInductive, PTL
=============================================================================
