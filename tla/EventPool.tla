----------------------------- MODULE EventPool -----------------------------
(***************************************************************************)
(* Events that live outside the channel: stream_fixed_pool_allocator, the  *)
(* box that a channel carries instead of the event, and the two ways the   *)
(* writer's thread uses them.                                              *)
(*                                                                         *)
(*   logger   takes the active slab, builds the event in it, and moves to  *)
(*            the next slab only after try_write succeeded; when the       *)
(*            channel is full the event is lost                            *)
(*   measure  allocate() moves on at once; when the channel is full the    *)
(*            same event is offered again until there is room              *)
(*                                                                         *)
(* The pool never learns that a slab is free again: deallocate does        *)
(* nothing, the box destroys the event wherever the last reader lets go of *)
(* it, and the writer comes round to the slab trusting the channel's       *)
(* capacity.  The channel is the abstract one, so that this holds for      *)
(* both queues.  m_lost is a statistic and is left out.                    *)
(***************************************************************************)
EXTENDS Channel

CONSTANTS
    Requested,  \* queue_capacity, as given to the allocator's constructor
    Extra       \* its second parameter, 1 by default

ASSUME PoolAssumption == Requested \in Nat \ {0} /\ Extra \in Nat

PoolSize == Requested + Extra
Slabs == 0..(PoolSize - 1)
NoSlab == -1
NoEvent == -1
Ordinals == 0..(MaxEvents - 1)

VARIABLES
    eager,      \* TRUE: the measure client; FALSE: the logger client
    m_next,     \* the pool's next slab
    slab,       \* slab -> the event alive in it, or NoEvent
    mine,       \* the slab the writer prepares an event in, or NoSlab
    built,      \* whether that event is constructed
    box         \* event -> the pointer its box carries

poolVars == <<eager, m_next, slab, mine, built, box>>
poolAndChannel == <<channelVars, poolVars>>

PoolTypeOK ==
    /\ eager \in BOOLEAN
    /\ m_next \in Slabs
    /\ slab \in [Slabs -> Nat \cup {NoEvent}]
    /\ mine \in Slabs \cup {NoSlab}
    /\ built \in BOOLEAN
    /\ box \in [Ordinals -> Slabs \cup {NoSlab}]

PoolInit ==
    /\ eager \in BOOLEAN
    /\ m_next = 0
    /\ slab = [p \in Slabs |-> NoEvent]
    /\ mine = NoSlab
    /\ built = FALSE
    /\ box = [e \in Ordinals |-> NoSlab]

Init == ChannelInit /\ PoolInit
-----------------------------------------------------------------------------
NextSlab(p) == IF p + 1 >= PoolSize THEN 0 ELSE p + 1

\* What the slabs hold once the boxes of these events are destroyed.
SlabsWithout(events) ==
    [p \in Slabs |-> IF \E e \in events : box[e] = p THEN NoEvent ELSE slab[p]]

FreeForAll(e) == \A r \in Readers : ~ Unreleased(r, e)
-----------------------------------------------------------------------------
(***************************************************************************)
(* The writer's thread.  The event being built is named by the ordinal it  *)
(* has if it is written.                                                   *)
(***************************************************************************)

\* Mutant: the logger moves on before it knows whether the event is written.
TakeSlab_Seeks ==
    /\ Writer \in handles
    /\ sent < MaxEvents
    /\ mine = NoSlab
    /\ mine' = m_next
    /\ m_next' = NextSlab(m_next)
    /\ UNCHANGED <<channelVars, eager, slab, built, box>>

TakeSlab ==
    /\ Writer \in handles
    /\ sent < MaxEvents
    /\ mine = NoSlab
    /\ mine' = m_next
    /\ m_next' = IF eager THEN NextSlab(m_next) ELSE m_next
    /\ UNCHANGED <<channelVars, eager, slab, built, box>>

Construct ==
    /\ mine # NoSlab
    /\ ~ built
    /\ slab' = [slab EXCEPT ![mine] = sent]
    /\ built' = TRUE
    /\ UNCHANGED <<channelVars, eager, m_next, mine, box>>

TryWriteDone ==
    /\ built
    /\ Write
    /\ box' = [box EXCEPT ![sent] = mine]
    /\ m_next' = IF eager THEN m_next ELSE NextSlab(m_next)
    /\ mine' = NoSlab
    /\ built' = FALSE
    /\ UNCHANGED <<eager, slab>>

\* Mutant: nobody destroys the event that was not written.
TryWriteLost_KeepsEvent ==
    /\ built
    /\ ~ eager
    /\ ~ FreeForAll(sent - Cap)
    /\ mine' = NoSlab
    /\ built' = FALSE
    /\ UNCHANGED <<channelVars, eager, m_next, slab, box>>

\* The channel is full: the temporary box destroys the logger's event.  (The
\* measure client tries again, which changes nothing.)
TryWriteLost ==
    /\ built
    /\ ~ eager
    /\ ~ FreeForAll(sent - Cap)
    /\ slab' = [slab EXCEPT ![mine] = NoEvent]
    /\ mine' = NoSlab
    /\ built' = FALSE
    /\ UNCHANGED <<channelVars, eager, m_next, box>>
-----------------------------------------------------------------------------
(***************************************************************************)
(* The readers.  A reader sees the event through the box's pointer, and    *)
(* the last one to release it destroys what the pointer points at.         *)
(***************************************************************************)
TakeBox(r) == Take(r) /\ UNCHANGED poolVars

LookInBox(r) ==
    /\ \E e \in held[r] : delivered' = [delivered EXCEPT ![r] = slab[box[e]]]
    /\ UNCHANGED <<sent, taken, held, handles, poolVars>>

LastOf(r, e) == \A other \in Readers \ {r} : ~ Unreleased(other, e)

\* Mutant: every reader's guard destroys the event.
ReleaseBox_Everyone(r) ==
    \E e \in held[r] :
        /\ ReleaseEvent(r, e)
        /\ slab' = SlabsWithout({e})
        /\ UNCHANGED <<eager, m_next, mine, built, box>>

ReleaseBox(r) ==
    \E e \in held[r] :
        /\ ReleaseEvent(r, e)
        /\ slab' = IF LastOf(r, e) THEN SlabsWithout({e}) ELSE slab
        /\ UNCHANGED <<eager, m_next, mine, built, box>>

\* The last handle destroys the events still in the ring, then the pool.  The
\* writer's thread gives its handle up between two events.
DropHandle(h) ==
    /\ h = Writer => mine = NoSlab
    /\ Drop(h)
    /\ slab' = IF handles = {h}
               THEN SlabsWithout({e \in 0..(sent - 1) : ~ FreeForAll(e)})
               ELSE slab
    /\ UNCHANGED <<eager, m_next, mine, built, box>>

Next ==
    \/ TakeSlab
    \/ Construct
    \/ TryWriteDone
    \/ TryWriteLost
    \/ \E r \in Readers : TakeBox(r) \/ LookInBox(r) \/ ReleaseBox(r)
    \/ \E h \in Readers \cup {Writer} : DropHandle(h)

Spec == Init /\ [][Next]_poolAndChannel
-----------------------------------------------------------------------------
(***************************************************************************)
(* Properties.                                                             *)
(***************************************************************************)

\* construct_at gets raw memory: the slab the writer prepares its next event in
\* (logger.h:28-29, data_heap.h:30) holds no event that a reader can still reach,
\* although nothing ever told the pool so.
ConstructsInRawMemory ==
    mine # NoSlab /\ ~ built => slab[mine] = NoEvent

\* The event being prepared and the events some reader has not released are
\* alive, each in its own slab, and nothing else is: an event that was written,
\* lost to a full channel, read by all or left in the ring is destroyed exactly
\* once (box.h:26-32, no call of deallocate).
Alive == {e \in 0..(sent - 1) : handles # {} /\ ~ FreeForAll(e)}

SlabsExact ==
    /\ \A e \in Alive : slab[box[e]] = e
    /\ \A p \in Slabs :
        slab[p] # NoEvent <=> \/ built /\ mine = p
                              \/ \E e \in Alive : box[e] = p

\* The assertion of try_log_event (logger_client.cpp:46): the event the logger
\* offers is the one in the pool's active slab.
OffersActiveSlab == built /\ ~ eager => mine = m_next

\* Through the pool the readers still get every event, in order, once, and see
\* the event itself: the channel's promise holds of the pointed-at objects too.
ImplementsChannel == ChannelSpec
=============================================================================
