-------------------------------- MODULE Arena --------------------------------
(***************************************************************************)
(* arena_allocator: a cursor that moves through memory it does not own.    *)
(* allocate aligns the cursor first and checks the room afterwards, so     *)
(* that a refused allocation may have moved it; reset brings it back, once *)
(* the user has destroyed what was there.                                  *)
(*                                                                         *)
(* Addresses and sizes are 64-bit (arena_allocator.h:24), here modulo      *)
(* SizeMod: the size of a request, n * sizeof(T), wraps, and so does the   *)
(* address behind it.  (The latter is beyond what C++ defines; the sum is  *)
(* what the build computes.)                                               *)
(***************************************************************************)
EXTENDS Integers, FiniteSets

CONSTANTS
    Origins,    \* the addresses an arena may start at
    ArenaSizes, \* the sizes it may have
    Aligns,     \* the alignments of the types stored
    TypeSizes,  \* and their sizes
    Counts,     \* the numbers of objects that are asked for
    SizeMod,    \* the number of values of size_t, and of addresses
    MaxBlocks   \* bound: blocks allocated before a reset

ASSUME ArenaAssumption ==
    /\ Origins \subseteq Nat /\ ArenaSizes \subseteq Nat
    /\ Aligns \subseteq Nat \ {0} /\ TypeSizes \subseteq Nat \ {0}
    /\ SizeMod \in Nat /\ Counts \subseteq 0..(SizeMod - 1)
    /\ MaxBlocks \in Nat

\* No memory the program is given reaches to the end of the address space.
ASSUME AddressAssumption ==
    \A o \in Origins, s \in ArenaSizes, a \in Aligns : o + s + a <= SizeMod

\* sizeof is a multiple of alignof.
Types == {t \in [size : TypeSizes, align : Aligns] : t.size % t.align = 0}

\* alignof is a power of two, so of two alignments one is a multiple of the other.
ASSUME TypesAssumption ==
    /\ Types # {}
    /\ \A a, b \in Aligns : a % b = 0 \/ b % a = 0

VARIABLES
    m_origin_arena_ptr,
    m_arena_size,
    m_current_arena_ptr,
    blocks              \* history: [at, size, align] of what was allocated, as asked for

arenaVars == <<m_origin_arena_ptr, m_arena_size, m_current_arena_ptr, blocks>>

ArenaInit ==
    /\ m_origin_arena_ptr \in Origins
    /\ m_arena_size \in ArenaSizes
    /\ m_current_arena_ptr = m_origin_arena_ptr
    /\ blocks = {}

ArenaEnd == m_origin_arena_ptr + m_arena_size

\* Mutant: the gap is added although it is the overhang that was computed.
Aligned_Overhang(p, align) == p + (p % align)

Aligned(p, align) == IF p % align > 0 THEN p + (align - (p % align)) ELSE p

AllocateBlock(t, n) ==
    LET start == Aligned(m_current_arena_ptr, t.align) % SizeMod
        test  == (start + n * t.size) % SizeMod
    IN  /\ Cardinality(blocks) < MaxBlocks
        /\ IF test <= ArenaEnd
           THEN /\ blocks' = blocks \cup {[at |-> start, size |-> n * t.size, align |-> t.align]}
                /\ m_current_arena_ptr' = test
           ELSE m_current_arena_ptr' = start /\ UNCHANGED blocks
        /\ UNCHANGED <<m_origin_arena_ptr, m_arena_size>>

Reset ==
    /\ m_current_arena_ptr' = m_origin_arena_ptr
    /\ blocks' = {}
    /\ UNCHANGED <<m_origin_arena_ptr, m_arena_size>>

Used == (m_current_arena_ptr - m_origin_arena_ptr) % SizeMod

ArenaNext == Reset \/ \E t \in Types, n \in Counts : AllocateBlock(t, n)

ArenaSpec == ArenaInit /\ [][ArenaNext]_arenaVars
-----------------------------------------------------------------------------
\* No block that was granted ends where there are no addresses.  The code does not
\* refuse one that does: its size or its end wraps and may pass the check for room
\* (arena_allocator.h:32-33).
Addressable == \A b \in blocks : b.at + b.size < SizeMod

\* Until a request is granted that is larger than the address space, what the arena
\* hands out is aligned for its type, inside the memory it was given, and shares no
\* byte with anything else handed out since the last reset, also after refusals that
\* left the cursor beyond the end (arena_allocator.h:26), where used() exceeds the
\* size by less than one alignment.  A reset makes up for any such request.
BlocksStayApart ==
    Addressable =>
        /\ \A b \in blocks :
            /\ b.at % b.align = 0
            /\ b.at >= m_origin_arena_ptr /\ b.at + b.size <= ArenaEnd
        /\ \A b, c \in blocks : b # c => b.at + b.size <= c.at \/ c.at + c.size <= b.at
        /\ \A b \in blocks : b.at + b.size <= m_current_arena_ptr
        /\ \E t \in Types : Used < m_arena_size + t.align
=============================================================================
