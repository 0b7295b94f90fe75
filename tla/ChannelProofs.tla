--------------------------- MODULE ChannelProofs ---------------------------
(***************************************************************************)
(* What the abstract channel guarantees whatever implements it: a reader   *)
(* is never owed more events than the channel's capacity.                  *)
(***************************************************************************)
EXTENDS Channel, TLAPS

\* The inductive invariant: the types, the bound, and that nobody is left
\* holding an event of a channel that is gone.
ChannelInv ==
    /\ ChannelTypeOK
    /\ AtMostCapUnreleased
    /\ sent <= MaxEvents
    /\ handles = {} => \A r \in Readers : held[r] = {}

LEMMA ChannelInitInv == ChannelInit => ChannelInv
BY ChannelAssumption DEF ChannelInit, ChannelInv, ChannelTypeOK, AtMostCapUnreleased

\* A write is the one step that moves the window.  What it could push out of the
\* window is the event Cap positions back, and the write waits for that one.
LEMMA WriteKeeps ==
    ASSUME ChannelInv, Write
    PROVE  ChannelInv'
<1>1. /\ sent \in Nat
      /\ taken \in [Readers -> Nat]
      /\ held \in [Readers -> SUBSET Nat]
      /\ Cap \in Nat \ {0}
      /\ MaxEvents \in Nat
  BY ChannelAssumption DEF ChannelInv, ChannelTypeOK
<1>2. /\ sent' = sent + 1
      /\ sent < MaxEvents
      /\ taken' = taken
      /\ held' = held
      /\ delivered' = delivered
      /\ handles' = handles
  BY DEF Write
<1>3. ASSUME NEW r \in Readers
      PROVE  /\ taken'[r] \in 0..sent'
             /\ sent' - taken'[r] <= Cap
             /\ \A e \in held'[r] : e < taken'[r] /\ sent' - e <= Cap
  <2>1. /\ taken[r] \in 0..sent
        /\ sent - taken[r] <= Cap
        /\ \A e \in held[r] : e < taken[r] /\ sent - e <= Cap
    BY DEF ChannelInv, AtMostCapUnreleased
  <2>2. sent - Cap \notin held[r] /\ sent - Cap \notin taken[r]..(sent - 1)
    BY DEF Write, Unreleased
  <2>3. taken[r] \in Nat
    BY <1>1
  <2>4. sent + 1 - taken[r] <= Cap
    BY <1>1, <2>1, <2>2, <2>3
  <2>5. ASSUME NEW e \in held[r] PROVE e < taken[r] /\ sent + 1 - e <= Cap
    <3>1. e \in Nat
      BY <1>1
    <3>2. e # sent - Cap
      BY <2>2
    <3> QED BY <1>1, <2>1, <3>1, <3>2
  <2> QED BY <1>1, <1>2, <2>1, <2>3, <2>4, <2>5
<1>4. AtMostCapUnreleased'
  BY <1>3 DEF AtMostCapUnreleased
<1>5. ChannelTypeOK'
  BY <1>1, <1>2 DEF ChannelInv, ChannelTypeOK
<1> QED BY <1>1, <1>2, <1>4, <1>5 DEF ChannelInv

LEMMA TakeKeeps ==
    ASSUME ChannelInv, NEW r \in Readers, Take(r)
    PROVE  ChannelInv'
BY ChannelAssumption DEF ChannelInv, ChannelTypeOK, AtMostCapUnreleased, Take

LEMMA LookKeeps ==
    ASSUME ChannelInv, NEW r \in Readers, Look(r)
    PROVE  ChannelInv'
BY ChannelAssumption DEF ChannelInv, ChannelTypeOK, AtMostCapUnreleased, Look

LEMMA ReleaseKeeps ==
    ASSUME ChannelInv, NEW r \in Readers, Release(r)
    PROVE  ChannelInv'
BY ChannelAssumption
   DEF ChannelInv, ChannelTypeOK, AtMostCapUnreleased, Release, ReleaseEvent

LEMMA DropKeeps ==
    ASSUME ChannelInv, NEW h \in Readers \cup {Writer}, Drop(h)
    PROVE  ChannelInv'
<1>1. handles' = {} => handles = {h}
  BY DEF Drop
<1> QED BY <1>1, ChannelAssumption
        DEF ChannelInv, ChannelTypeOK, AtMostCapUnreleased, Drop

LEMMA ChannelStepKeeps ==
    ASSUME ChannelInv, [ChannelNext]_channelVars
    PROVE  ChannelInv'
<1>1. CASE Write
  BY <1>1, WriteKeeps
<1>2. ASSUME NEW r \in Readers, Take(r) \/ Look(r) \/ Release(r)
      PROVE  ChannelInv'
  BY <1>2, TakeKeeps, LookKeeps, ReleaseKeeps
<1>3. ASSUME NEW h \in Readers \cup {Writer}, Drop(h)
      PROVE  ChannelInv'
  BY <1>3, DropKeeps
<1>4. CASE UNCHANGED channelVars
  BY <1>4 DEF channelVars, ChannelInv, ChannelTypeOK, AtMostCapUnreleased
<1> QED BY <1>1, <1>2, <1>3, <1>4 DEF ChannelNext

\* Every channel, of any capacity and with any readers, keeps the events somebody
\* still needs within the last Cap events: the ring buffer always has room.
THEOREM ChannelBounded == ChannelSpec => []AtMostCapUnreleased
<1>1. ChannelInv => AtMostCapUnreleased
  BY DEF ChannelInv
<1> QED BY <1>1, ChannelInitInv, ChannelStepKeeps, PTL DEF ChannelSpec
=============================================================================
