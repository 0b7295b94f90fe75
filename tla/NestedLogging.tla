--------------------------- MODULE NestedLogging ---------------------------
(***************************************************************************)
(* A log statement whose argument logs.  IHFT_LOG_IMPL takes the active    *)
(* slab first and evaluates its arguments afterwards, inside construct_at: *)
(* an argument that calls a function which logs on the same thread runs a  *)
(* whole inner log statement between the two.                              *)
(***************************************************************************)
EXTENDS EventPool

VARIABLE outer  \* the slab the outer statement has taken, or NoSlab

NestedInit == Init /\ ~ eager /\ outer = NoSlab

\* The outer statement has its slab; an argument of it starts to log.
StartInner ==
    /\ outer = NoSlab
    /\ mine # NoSlab
    /\ ~ built
    /\ outer' = mine
    /\ mine' = NoSlab
    /\ UNCHANGED <<channelVars, eager, m_next, slab, built, box>>

\* The inner statement is over, its event written or lost; the outer one goes
\* on with the pointer it has.
EndInner ==
    /\ outer # NoSlab
    /\ mine = NoSlab
    /\ mine' = outer
    /\ outer' = NoSlab
    /\ UNCHANGED <<channelVars, eager, m_next, slab, built, box>>

NestedNext == StartInner \/ EndInner \/ (Next /\ UNCHANGED outer)

NestedSpec == NestedInit /\ [][NestedNext]_<<poolAndChannel, outer>>
=============================================================================
