------------------------------ MODULE Channel ------------------------------
(***************************************************************************)
(* What every ihft channel promises, whatever its kind: a bounded          *)
(* broadcast FIFO.  One writer appends events; every reader takes all of   *)
(* them, in order and once; a reader holds what it took until it releases  *)
(* it, in any order; and the writer overwrites an event only after every   *)
(* reader has released it.                                                 *)
(*                                                                         *)
(* An event is named by its ordinal: the n-th event ever written is n.     *)
(* The ring buffer, the sequence numbers and their wrap-around, the        *)
(* per-bucket counters are details that One2OneQueue and One2EachQueue     *)
(* add; both are checked to implement this specification.                  *)
(***************************************************************************)
EXTENDS Integers

CONSTANTS
    Readers,    \* the reader handles
    Writer,     \* the writer handle
    Cap,        \* the capacity of the channel
    MaxEvents   \* bound: events written

\* A queue without readers is no channel: nothing in it is ever released.
ASSUME ChannelAssumption ==
    /\ Cap \in Nat \ {0}
    /\ Readers # {}
    /\ Writer \notin Readers
    /\ MaxEvents \in Nat

VARIABLES
    sent,       \* number of events written
    taken,      \* taken[r]: number of events reader r has taken
    held,       \* held[r]: the events r has taken and not released
    delivered,  \* delivered[r]: the event r looked at last, or Nothing
    handles     \* the handles not yet destroyed

channelVars == <<sent, taken, held, delivered, handles>>

Nothing == -1

Unreleased(r, e) == e \in held[r] \/ e \in taken[r]..(sent - 1)

ChannelTypeOK ==
    /\ sent \in Nat
    /\ taken \in [Readers -> Nat]
    /\ held \in [Readers -> SUBSET Nat]
    /\ delivered \in [Readers -> Nat \cup {Nothing}]
    /\ handles \subseteq Readers \cup {Writer}

ChannelInit ==
    /\ sent = 0
    /\ taken = [r \in Readers |-> 0]
    /\ held = [r \in Readers |-> {}]
    /\ delivered = [r \in Readers |-> Nothing]
    /\ handles = Readers \cup {Writer}

\* A write makes room by reusing the place of the event Cap positions back.
Write ==
    /\ Writer \in handles
    /\ sent < MaxEvents
    /\ \A r \in Readers : ~ Unreleased(r, sent - Cap)
    /\ sent' = sent + 1
    /\ UNCHANGED <<taken, held, delivered, handles>>

Take(r) ==
    /\ r \in handles
    /\ taken[r] < sent
    /\ taken' = [taken EXCEPT ![r] = @ + 1]
    /\ held' = [held EXCEPT ![r] = @ \cup {taken[r]}]
    /\ UNCHANGED <<sent, delivered, handles>>

\* A reader that looks at an event it holds sees that event and no other.
Look(r) ==
    /\ \E e \in held[r] : delivered' = [delivered EXCEPT ![r] = e]
    /\ UNCHANGED <<sent, taken, held, handles>>

ReleaseEvent(r, e) ==
    /\ e \in held[r]
    /\ held' = [held EXCEPT ![r] = @ \ {e}]
    /\ UNCHANGED <<sent, taken, delivered, handles>>

Release(r) == \E e \in held[r] : ReleaseEvent(r, e)

\* The last handle goes only when nothing is held.
Drop(h) ==
    /\ h \in handles
    /\ handles = {h} => \A r \in Readers : held[r] = {}
    /\ handles' = handles \ {h}
    /\ UNCHANGED <<sent, taken, held, delivered>>

ChannelNext ==
    \/ Write
    \/ \E r \in Readers : Take(r) \/ Look(r) \/ Release(r)
    \/ \E h \in Readers \cup {Writer} : Drop(h)

ChannelSpec == ChannelInit /\ [][ChannelNext]_channelVars
-----------------------------------------------------------------------------
\* The channel never owes a reader more than its capacity: whatever a reader has
\* not taken or not released is among the last Cap events, so a ring of Cap
\* buckets has room for all of it.  This is what lets an implementation index
\* its storage by the ordinal modulo Cap.
AtMostCapUnreleased ==
    \A r \in Readers :
        /\ taken[r] \in 0..sent
        /\ sent - taken[r] <= Cap
        /\ \A e \in held[r] : e < taken[r] /\ sent - e <= Cap
=============================================================================
