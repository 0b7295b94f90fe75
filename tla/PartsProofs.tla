---------------------------- MODULE PartsProofs ----------------------------
(***************************************************************************)
(* Proofs about the parts that SmallParts puts side by side, for every     *)
(* value of the constants: what an arena hands out is aligned, inside and  *)
(* apart; the report of sysjitter covers all cores or none; cpu lists are  *)
(* read exactly; an event prints what was logged; a ping-pong's answer is  *)
(* the number that was sent.                                               *)
(***************************************************************************)
EXTENDS SmallParts, One2OneProofs, FiniteSetTheorems, SequenceTheorems
-----------------------------------------------------------------------------
(***************************************************************************)
(* Arena.  The cursor never goes back but in reset, so a new block lies    *)
(* behind the old ones.  What needs an argument is how far refused         *)
(* allocations move the cursor beyond the end.  One does by less than its  *)
(* alignment, and leaves the cursor on a multiple of it.  Another then     *)
(* does not add to that: the cursor is aligned for it already, or the next *)
(* multiple of the larger alignment is the first one from the end on.  So  *)
(* the cursor stays among the addresses, and a sum that wraps belongs to a *)
(* block that is not addressable.                                          *)
(***************************************************************************)
\* What alignment does: the first multiple from p on.
LEMMA AlignedIsNext ==
    ASSUME NEW p \in Nat, NEW a \in Positive
    PROVE  /\ Aligned(p, a) \in Nat
           /\ p <= Aligned(p, a) /\ Aligned(p, a) < p + a
           /\ Aligned(p, a) % a = 0
           /\ p % a = 0 => Aligned(p, a) = p
<1>1. PICK q \in Nat, r \in 0..(a - 1) : p = a * q + r /\ r = p % a
    BY DivMod
<1>2. CASE r = 0
    <2>1. p % a = 0
        BY <1>1, <1>2
    <2>2. Aligned(p, a) = p
        BY <2>1 DEF Aligned
    <2>3. p < p + a
        BY DEF Positive
    <2>. QED BY <2>1, <2>2, <2>3
<1>3. CASE r > 0
    <2>1. Aligned(p, a) = p + (a - r)
        BY <1>1, <1>3 DEF Aligned
    <2>2. a * (q + 1) = a * q + a
        BY DEF Positive
    <2>3. a * q \in Nat
        BY DEF Positive
    <2>4. p + (a - r) \in Nat /\ p + (a - r) = a * (q + 1) + 0 /\ 0 \in 0..(a - 1)
        BY <1>1, <2>2, <2>3 DEF Positive
    <2>5. (p + (a - r)) % a = 0
        BY <2>4, ModUnique
    <2>. QED BY <1>1, <1>3, <2>1, <2>4, <2>5 DEF Positive
<1>. QED BY <1>1, <1>2, <1>3

\* Multiples in order are a whole modulus apart.
LEMMA MultiplesApart ==
    ASSUME NEW a \in Positive, NEW u \in Nat, NEW c \in Nat, a * u < a * c
    PROVE  a * u + a <= a * c
<1>1. u < c
    <2>. SUFFICES ASSUME c <= u PROVE FALSE
        OBVIOUS
    <2>1. PICK d \in Nat : u = c + d
        <3>1. u - c \in Nat /\ u = c + (u - c)
            OBVIOUS
        <3>. QED BY <3>1
    <2>2. a * u = a * c + a * d /\ a * d \in Nat /\ a * c \in Nat
        BY <2>1 DEF Positive
    <2>. QED BY <2>2
<1>2. PICK d \in Nat : c = (u + 1) + d
    <2>1. c - (u + 1) \in Nat /\ c = (u + 1) + (c - (u + 1))
        BY <1>1
    <2>. QED BY <2>1
<1>3. a * c = (a * u + a) + a * d /\ a * d \in Nat /\ a * u \in Nat
    BY <1>2 DEF Positive
<1>. QED BY <1>3 DEF Positive

\* From a multiple of a just beyond the end, the next multiple of b, itself a
\* multiple of a, is the first one from the end on.
LEMMA NextMultiple ==
    ASSUME NEW a \in Positive, NEW b \in Positive, b % a = 0,
           NEW p \in Nat, p % a = 0, NEW end \in Nat, end < p, p < end + a
    PROVE  Aligned(p, b) < end + b
<1>. DEFINE s == Aligned(p, b)
<1>1. s \in Nat /\ p <= s /\ s < p + b /\ s % b = 0
    BY AlignedIsNext
<1>. HIDE DEF s
<1>2. PICK k \in Nat : b = a * k
    <2>1. PICK q \in Nat : b = a * q + (b % a)
        BY DivMod DEF Positive
    <2>. QED BY <2>1 DEF Positive
<1>3. PICK m \in Nat : s = b * m
    <2>1. PICK q \in Nat : s = b * q + (s % b)
        BY <1>1, DivMod
    <2>. QED BY <1>1, <2>1 DEF Positive
<1>4. PICK c \in Nat : p = a * c
    <2>1. PICK q \in Nat : p = a * q + (p % a)
        BY DivMod
    <2>. QED BY <2>1 DEF Positive
<1>. SUFFICES ASSUME end + b <= s PROVE FALSE
    BY <1>1 DEF s, Positive
<1>5. PICK l \in Nat : m = l + 1
    <2>1. m # 0
        BY <1>1, <1>3 DEF Positive
    <2>2. m - 1 \in Nat /\ m = (m - 1) + 1
        BY <2>1
    <2>. QED BY <2>2
<1>6. s = b * l + b /\ b * l \in Nat
    BY <1>3, <1>5 DEF Positive
<1>7. b * l = a * (k * l) /\ k * l \in Nat
    BY <1>2 DEF Positive
<1>8. a * (k * l) < a * c
    BY <1>1, <1>4, <1>6, <1>7 DEF Positive
<1>9. a * (k * l) + a <= a * c
    BY <1>7, <1>8, MultiplesApart
<1>. QED BY <1>1, <1>4, <1>6, <1>7, <1>9 DEF Positive
-----------------------------------------------------------------------------
(***************************************************************************)
(* The inductive invariant.                                                *)
(***************************************************************************)
TypeAligns == {t.align : t \in Types}

CursorInPlace ==
    /\ m_current_arena_ptr \in Nat
    /\ m_origin_arena_ptr <= m_current_arena_ptr
    /\ \E a \in TypeAligns :
          /\ m_current_arena_ptr < ArenaEnd + a
          /\ m_current_arena_ptr > ArenaEnd => m_current_arena_ptr % a = 0

GoodBlock(b) ==
    /\ b.at \in Nat /\ b.size \in Nat
    /\ b.at % b.align = 0
    /\ b.at >= m_origin_arena_ptr /\ b.at + b.size <= ArenaEnd
    /\ b.at + b.size <= m_current_arena_ptr

Apart(b, c) == b.at + b.size <= c.at \/ c.at + c.size <= b.at

BlocksInPlace ==
    /\ CursorInPlace
    /\ \A b \in blocks : GoodBlock(b)
    /\ \A b, c \in blocks : b # c => Apart(b, c)

ArenaInv ==
    /\ m_origin_arena_ptr \in Origins /\ m_arena_size \in ArenaSizes
    /\ Addressable => BlocksInPlace

LEMMA TypeFacts ==
    /\ TypeAligns \subseteq Aligns /\ TypeAligns # {}
    /\ \A a \in TypeAligns : a \in Positive
    /\ \A a, b \in TypeAligns : a % b = 0 \/ b % a = 0
    /\ \A t \in Types : t.align \in TypeAligns /\ t.size \in Positive
<1>1. \A t \in Types : t.align \in Aligns /\ t.size \in TypeSizes
    BY DEF Types
<1>. QED BY <1>1, ArenaAssumption, TypesAssumption DEF TypeAligns, Positive

\* The memory is in the address space, with room for an alignment behind it.
LEMMA ArenaMemory ==
    ASSUME m_origin_arena_ptr \in Origins, m_arena_size \in ArenaSizes
    PROVE  /\ m_origin_arena_ptr \in Nat /\ m_arena_size \in Nat /\ ArenaEnd \in Nat
           /\ m_origin_arena_ptr <= ArenaEnd
           /\ SizeMod \in Positive
           /\ \A a \in TypeAligns : ArenaEnd + a <= SizeMod
<1>1. m_origin_arena_ptr \in Nat /\ m_arena_size \in Nat /\ SizeMod \in Nat
    BY ArenaAssumption
<1>2. \A a \in TypeAligns : a \in Positive /\ ArenaEnd + a <= SizeMod
    BY TypeFacts, AddressAssumption DEF ArenaEnd
<1>3. PICK a \in TypeAligns : TRUE
    BY TypeFacts
<1>. QED BY <1>1, <1>2, <1>3 DEF ArenaEnd, Positive

\* What is below the modulus does not wrap.
LEMMA NoWrap == ASSUME NEW p \in Nat, NEW m \in Positive, p < m PROVE p % m = p
<1>1. p = m * 0 + p /\ p \in 0..(m - 1)
    BY DEF Positive
<1>. QED BY <1>1, ModUnique

LEMMA ArenaStart ==
    ASSUME m_origin_arena_ptr \in Origins, m_arena_size \in ArenaSizes,
           m_current_arena_ptr = m_origin_arena_ptr
    PROVE  CursorInPlace
<1>1. PICK a \in TypeAligns : a \in Positive
    BY TypeFacts
<1>. QED BY <1>1, ArenaMemory DEF CursorInPlace, Positive

\* Where a request begins, if the cursor is in place.
LEMMA StartInPlace ==
    ASSUME m_origin_arena_ptr \in Origins, m_arena_size \in ArenaSizes, CursorInPlace,
           NEW t \in Types, NEW start, start = Aligned(m_current_arena_ptr, t.align)
    PROVE  /\ start \in Nat /\ m_current_arena_ptr <= start /\ start % t.align = 0
           /\ start < SizeMod
           /\ \E b \in TypeAligns : start < ArenaEnd + b /\ (start > ArenaEnd => start % b = 0)
<1>1. /\ m_origin_arena_ptr \in Nat /\ m_arena_size \in Nat /\ m_current_arena_ptr \in Nat
      /\ ArenaEnd \in Nat
    BY ArenaMemory DEF CursorInPlace
<1>3. t.align \in TypeAligns /\ t.align \in Positive /\ t.size \in Positive
    BY TypeFacts
<1>4. /\ start \in Nat /\ m_current_arena_ptr <= start
      /\ start < m_current_arena_ptr + t.align /\ start % t.align = 0
      /\ m_current_arena_ptr % t.align = 0 => start = m_current_arena_ptr
    BY <1>1, <1>3, AlignedIsNext
<1>7. PICK a \in TypeAligns :
          /\ m_current_arena_ptr < ArenaEnd + a
          /\ m_current_arena_ptr > ArenaEnd => m_current_arena_ptr % a = 0
    BY DEF CursorInPlace
<1>8. a \in Positive
    BY TypeFacts
<1>9. \E b \in TypeAligns : start < ArenaEnd + b /\ (start > ArenaEnd => start % b = 0)
    <2>1. CASE m_current_arena_ptr <= ArenaEnd
        BY <1>1, <1>3, <1>4, <2>1 DEF Positive
    <2>2. CASE m_current_arena_ptr > ArenaEnd /\ a % t.align = 0
        <3>1. m_current_arena_ptr % t.align = 0
            <4>1. PICK k \in Nat : a = t.align * k
                <5>1. PICK q \in Nat : a = t.align * q + (a % t.align)
                    BY <1>3, <1>8, DivMod DEF Positive
                <5>. QED BY <1>3, <2>2, <5>1 DEF Positive
            <4>2. PICK c \in Nat : m_current_arena_ptr = a * c
                <5>1. PICK q \in Nat : m_current_arena_ptr = a * q + (m_current_arena_ptr % a)
                    BY <1>1, <1>8, DivMod
                <5>2. m_current_arena_ptr % a = 0
                    BY <1>7, <2>2
                <5>3. m_current_arena_ptr = a * q
                    BY <1>8, <5>1, <5>2 DEF Positive
                <5>. QED BY <5>3
            <4>3. m_current_arena_ptr = t.align * (k * c) + 0 /\ k * c \in Nat
                BY <1>3, <4>1, <4>2 DEF Positive
            <4>4. 0 \in 0..(t.align - 1)
                BY <1>3 DEF Positive
            <4>. QED BY <1>1, <1>3, <4>3, <4>4, ModUnique
        <3>. QED BY <1>4, <1>7, <3>1
    <2>3. CASE m_current_arena_ptr > ArenaEnd /\ t.align % a = 0
        <3>1. start < ArenaEnd + t.align
            BY <1>1, <1>3, <1>7, <1>8, <2>3, NextMultiple
        <3>. QED BY <1>3, <1>4, <3>1
    <2>4. a % t.align = 0 \/ t.align % a = 0
        BY <1>3, TypeFacts
    <2>. QED BY <1>1, <2>1, <2>2, <2>3, <2>4
<1>10. start < SizeMod
    <2>1. PICK b \in TypeAligns : start < ArenaEnd + b
        BY <1>9
    <2>2. b \in Positive /\ ArenaEnd + b <= SizeMod /\ SizeMod \in Positive
        BY ArenaMemory, TypeFacts
    <2>. QED BY <1>1, <1>4, <2>1, <2>2 DEF Positive
<1>. QED BY <1>4, <1>9, <1>10

LEMMA AllocateKeeps ==
    ASSUME ArenaInv, NEW t \in Types, NEW n \in Counts, AllocateBlock(t, n), Addressable'
    PROVE  BlocksInPlace'
<1>. DEFINE raw   == Aligned(m_current_arena_ptr, t.align)
            start == raw % SizeMod
            room  == n * t.size
            test  == (start + room) % SizeMod
            new   == [at |-> start, size |-> room, align |-> t.align]
<1>1. /\ m_origin_arena_ptr \in Origins /\ m_arena_size \in ArenaSizes
      /\ UNCHANGED <<m_origin_arena_ptr, m_arena_size>>
      /\ \/ test <= ArenaEnd /\ blocks' = blocks \cup {new} /\ m_current_arena_ptr' = test
         \/ m_current_arena_ptr' = start /\ UNCHANGED blocks
    BY DEF ArenaInv, AllocateBlock
<1>2. /\ m_origin_arena_ptr \in Nat /\ ArenaEnd \in Nat /\ ArenaEnd' = ArenaEnd
      /\ SizeMod \in Positive
    BY <1>1, ArenaMemory DEF ArenaEnd
<1>3. BlocksInPlace
    <2>1. blocks \subseteq blocks'
        BY <1>1
    <2>. QED BY <2>1 DEF ArenaInv, Addressable
<1>4. m_current_arena_ptr \in Nat /\ m_origin_arena_ptr <= m_current_arena_ptr
    BY <1>3 DEF BlocksInPlace, CursorInPlace
<1>5. t.align \in Positive /\ room \in Nat
    <2>1. n \in Nat /\ t.size \in Nat
        BY ArenaAssumption, TypeFacts DEF Positive
    <2>. QED BY <2>1, TypeFacts
<1>. HIDE DEF room
<1>6. /\ raw \in Nat /\ m_current_arena_ptr <= raw /\ raw % t.align = 0 /\ raw < SizeMod
      /\ \E b \in TypeAligns : raw < ArenaEnd + b /\ (raw > ArenaEnd => raw % b = 0)
    BY <1>1, <1>3, StartInPlace DEF BlocksInPlace
<1>. HIDE DEF raw
<1>7. start = raw
    BY <1>2, <1>6, NoWrap
<1>. HIDE DEF start
<1>8. CASE test <= ArenaEnd /\ blocks' = blocks \cup {new} /\ m_current_arena_ptr' = test
    <2>0. PICK granted : granted = new
        OBVIOUS
    <2>1. /\ granted.at = start /\ granted.size = room /\ granted.align = t.align
          /\ blocks' = blocks \cup {granted}
        BY <1>8, <2>0
    <2>. HIDE DEF new
    <2>2. start + room < SizeMod
        BY <2>1 DEF Addressable
    <2>3. test = start + room
        <3>1. start + room \in Nat
            BY <1>5, <1>6, <1>7
        <3>. QED BY <1>2, <2>2, <3>1, NoWrap
    <2>. HIDE DEF test
    <2>4. CursorInPlace'
        <3>1. /\ m_current_arena_ptr' \in Nat /\ m_origin_arena_ptr' <= m_current_arena_ptr'
              /\ m_current_arena_ptr' <= ArenaEnd'
            BY <1>1, <1>2, <1>4, <1>5, <1>6, <1>7, <1>8, <2>3
        <3>2. PICK a \in TypeAligns : a \in Positive
            BY TypeFacts
        <3>3. m_current_arena_ptr' < ArenaEnd' + a /\ ~(m_current_arena_ptr' > ArenaEnd')
            BY <1>2, <3>1, <3>2 DEF Positive
        <3>. QED BY <3>1, <3>3 DEF CursorInPlace
    <2>5. GoodBlock(granted)'
        BY <1>1, <1>2, <1>4, <1>5, <1>6, <1>7, <1>8, <2>1, <2>3 DEF GoodBlock
    <2>6. ASSUME NEW b \in blocks
          PROVE  GoodBlock(b)' /\ Apart(b, granted) /\ Apart(granted, b)
        <3>1. GoodBlock(b)
            BY <1>3 DEF BlocksInPlace
        <3>. QED BY <1>1, <1>2, <1>4, <1>5, <1>6, <1>7, <1>8, <2>1, <2>3, <3>1 DEF GoodBlock, Apart
    <2>7. \A b, c \in blocks' : b # c => Apart(b, c)
        BY <1>3, <2>1, <2>6 DEF BlocksInPlace
    <2>8. \A b \in blocks' : GoodBlock(b)'
        BY <2>1, <2>5, <2>6
    <2>. QED BY <2>4, <2>7, <2>8 DEF BlocksInPlace, Apart
<1>9. CASE m_current_arena_ptr' = start /\ UNCHANGED blocks
    <2>1. CursorInPlace'
        BY <1>1, <1>2, <1>4, <1>6, <1>7, <1>9 DEF CursorInPlace
    <2>2. ASSUME NEW b \in blocks PROVE GoodBlock(b)'
        <3>1. GoodBlock(b)
            BY <1>3 DEF BlocksInPlace
        <3>. QED BY <1>1, <1>2, <1>4, <1>6, <1>7, <1>9, <3>1 DEF GoodBlock
    <2>. QED BY <1>3, <1>9, <2>1, <2>2 DEF BlocksInPlace, Apart
<1>. QED BY <1>1, <1>8, <1>9

\* The invariant holds of every arena, from its construction or its last reset on, as
\* long as what it grants is addressable.
THEOREM ArenaInductive == ArenaSpec => []ArenaInv
<1>1. ArenaInit => ArenaInv
    BY ArenaStart DEF ArenaInit, ArenaInv, BlocksInPlace
<1>2. ArenaInv /\ [ArenaNext]_arenaVars => ArenaInv'
    <2>. SUFFICES ASSUME ArenaInv, [ArenaNext]_arenaVars PROVE ArenaInv'
        OBVIOUS
    <2>1. CASE Reset
        <3>1. /\ m_origin_arena_ptr' \in Origins /\ m_arena_size' \in ArenaSizes
              /\ m_current_arena_ptr' = m_origin_arena_ptr' /\ blocks' = {}
            BY <2>1 DEF Reset, ArenaInv
        <3>2. CursorInPlace'
            <4>1. PICK a \in TypeAligns : a \in Positive
                BY TypeFacts
            <4>2. PICK o \in Nat, s \in Nat : o = m_origin_arena_ptr' /\ s = m_arena_size'
                BY <3>1, ArenaAssumption
            <4>3. m_current_arena_ptr' = o /\ ArenaEnd' = o + s
                BY <3>1, <4>2 DEF ArenaEnd
            <4>4. o <= o /\ o < (o + s) + a /\ ~ (o > o + s)
                BY <4>1 DEF Positive
            <4>. QED BY <4>1, <4>2, <4>3, <4>4 DEF CursorInPlace
        <3>. QED BY <3>1, <3>2 DEF ArenaInv, BlocksInPlace
    <2>2. CASE \E t \in Types, n \in Counts : AllocateBlock(t, n)
        <3>1. UNCHANGED <<m_origin_arena_ptr, m_arena_size>>
            BY <2>2 DEF AllocateBlock
        <3>. QED BY <2>2, <3>1, AllocateKeeps DEF ArenaInv
    <2>3. CASE UNCHANGED arenaVars
        BY <2>3 DEF arenaVars, ArenaInv, Addressable, BlocksInPlace, CursorInPlace, GoodBlock,
                    Apart, ArenaEnd
    <2>. QED BY <2>1, <2>2, <2>3 DEF ArenaNext
<1>. QED BY <1>1, <1>2, PTL DEF ArenaSpec

\* For any memory, any types, any word size and any sequence of allocations and resets,
\* refused ones too: as long as no block was granted that is larger than the address
\* space, blocks are aligned, inside the memory and disjoint, and used() exceeds the
\* size by less than one alignment (arena_allocator.h:20-43, 83-95).
THEOREM ArenaBlocksApart == ArenaSpec => []BlocksStayApart
<1>1. ArenaInv => BlocksStayApart
    <2>. SUFFICES ASSUME ArenaInv, Addressable PROVE BlocksStayApart
        BY DEF BlocksStayApart
    <2>1. \E t \in Types : Used < m_arena_size + t.align
        <3>1. /\ m_current_arena_ptr \in Nat /\ m_origin_arena_ptr <= m_current_arena_ptr
              /\ \E a \in TypeAligns : m_current_arena_ptr < ArenaEnd + a
            BY DEF ArenaInv, BlocksInPlace, CursorInPlace
        <3>2. PICK t \in Types : m_current_arena_ptr < ArenaEnd + t.align
            BY <3>1 DEF TypeAligns
        <3>3. /\ t.align \in Positive /\ ArenaEnd + t.align <= SizeMod /\ SizeMod \in Positive
              /\ m_origin_arena_ptr \in Nat /\ m_arena_size \in Nat /\ ArenaEnd \in Nat
            BY ArenaMemory, TypeFacts DEF ArenaInv
        <3>4. /\ m_current_arena_ptr - m_origin_arena_ptr \in Nat
              /\ m_current_arena_ptr - m_origin_arena_ptr < SizeMod
            BY <3>1, <3>2, <3>3 DEF Positive
        <3>5. Used = m_current_arena_ptr - m_origin_arena_ptr
            BY <3>3, <3>4, NoWrap DEF Used
        <3>. QED BY <3>1, <3>2, <3>3, <3>5 DEF ArenaEnd, Positive
    <2>. QED BY <2>1 DEF BlocksStayApart, ArenaInv, BlocksInPlace, GoodBlock, Apart
<1>. QED BY <1>1, ArenaInductive, PTL
-----------------------------------------------------------------------------
(***************************************************************************)
(* sysjitter.  Whoever measures has seen all cores counted, and who counts *)
(* itself in is not refused.                                               *)
(***************************************************************************)
JitterPlaces == {"unborn", "bind", "count", "spin", "measure", "sampled", "true", "false"}
CountedIn == {c \in CoreIds : place_of[c] \in {"spin", "measure", "sampled", "true"}}
PastTheSpin(c) == place_of[c] \in {"measure", "sampled", "true"}

JitterInv ==
    /\ refused \subseteq CoreIds
    /\ place_of \in [CoreIds -> JitterPlaces]
    /\ active_threads = Cardinality(CountedIn)
    /\ \A c \in refused : place_of[c] \in {"unborn", "bind", "false"}
    /\ \A c \in CoreIds : place_of[c] = "false" => c \in refused
    /\ \A c \in CoreIds : PastTheSpin(c) => active_threads = Cores
    /\ reported # 0 => \A c \in CoreIds : Returned(c)
    /\ reported = Undefined => \E c \in CoreIds : Valid(c) /\ hiccups[c] = 0

LEMMA CoresAreFinite ==
    /\ IsFiniteSet(CoreIds) /\ Cardinality(CoreIds) = Cores
    /\ Cores \in Nat /\ 0 \in CoreIds
    /\ IsFiniteSet(CountedIn) /\ CountedIn \subseteq CoreIds
<1>1. Cores \in Nat /\ Cores > 0
    BY JitterAssumption
<1>2. IsFiniteSet(CoreIds) /\ Cardinality(CoreIds) = Cores /\ 0 \in CoreIds
    BY <1>1, FS_Interval DEF CoreIds
<1>3. CountedIn \subseteq CoreIds
    BY DEF CountedIn
<1>. QED BY <1>1, <1>2, <1>3, FS_Subset

\* All counted in are all cores.
LEMMA AllCountedIsEveryCore ==
    ASSUME active_threads = Cardinality(CountedIn), active_threads = Cores
    PROVE  CountedIn = CoreIds
<1>1. CountedIn \in SUBSET CoreIds /\ Cardinality(CoreIds) = Cardinality(CountedIn)
    BY CoresAreFinite
<1>. QED BY <1>1, CoresAreFinite, FS_Subset

LEMMA JitterStart == JitterInit => JitterInv
<1>. SUFFICES ASSUME JitterInit PROVE JitterInv
    OBVIOUS
<1>1. place_of = [c \in CoreIds |-> "unborn"]
    BY DEF JitterInit
<1>2. CountedIn = {}
    BY <1>1 DEF CountedIn
<1>3. active_threads = Cardinality(CountedIn)
    BY <1>2, FS_EmptySet DEF JitterInit
<1>4. refused \subseteq CoreIds /\ reported = 0
    BY DEF JitterInit
<1>. QED BY <1>1, <1>3, <1>4 DEF JitterInv, JitterPlaces, PastTheSpin, Undefined

\* A thread moves on without being counted, and main does not report yet.
LEMMA MoveKeeps ==
    ASSUME JitterInv, NEW c \in CoreIds, NEW here, NEW there \in JitterPlaces,
           From(c, here, there), ~ Returned(c),
           here \in {"spin", "measure", "sampled", "true"}
                <=> there \in {"spin", "measure", "sampled", "true"},
           there = "false" => c \in refused,
           c \in refused => there \in {"unborn", "bind", "false"},
           there \in {"measure", "sampled", "true"} => active_threads = Cores,
           UNCHANGED <<refused, active_threads, reported>>
    PROVE  JitterInv'
<1>1. /\ place_of[c] = here /\ place_of' = [place_of EXCEPT ![c] = there]
      /\ place_of \in [CoreIds -> JitterPlaces]
    BY DEF From, JitterInv
<1>2. place_of'[c] = there /\ \A d \in CoreIds \ {c} : place_of'[d] = place_of[d]
    BY <1>1
<1>3. place_of' \in [CoreIds -> JitterPlaces]
    BY <1>1
<1>4. CountedIn' = CountedIn
    <2>1. \A d \in CoreIds : place_of'[d] \in {"spin", "measure", "sampled", "true"}
                              <=> place_of[d] \in {"spin", "measure", "sampled", "true"}
        BY <1>1, <1>2
    <2>. QED BY <2>1 DEF CountedIn
<1>5. reported = 0
    BY DEF JitterInv
<1>6. \A d \in refused : d \in CoreIds
    BY DEF JitterInv
<1>7. \A d \in refused : place_of'[d] \in {"unborn", "bind", "false"}
    BY <1>2, <1>6 DEF JitterInv
<1>8. \A d \in CoreIds : place_of'[d] = "false" => d \in refused
    BY <1>2 DEF JitterInv
<1>9. \A d \in CoreIds : place_of'[d] \in {"measure", "sampled", "true"} => active_threads = Cores
    BY <1>2 DEF JitterInv, PastTheSpin
<1>. QED BY <1>3, <1>4, <1>5, <1>7, <1>8, <1>9 DEF JitterInv, PastTheSpin, Undefined

LEMMA CountKeeps ==
    ASSUME JitterInv, NEW c \in CoreIds, CountIn(c)
    PROVE  JitterInv'
<1>1. /\ place_of[c] = "count" /\ place_of' = [place_of EXCEPT ![c] = "spin"]
      /\ active_threads' = active_threads + 1 /\ UNCHANGED <<refused, reported>>
      /\ place_of \in [CoreIds -> JitterPlaces]
    BY DEF CountIn, From, JitterInv
<1>2. place_of'[c] = "spin" /\ \A d \in CoreIds \ {c} : place_of'[d] = place_of[d]
    BY <1>1
<1>3. c \notin CountedIn /\ CountedIn' = CountedIn \cup {c}
    BY <1>1, <1>2 DEF CountedIn
<1>4. active_threads' = Cardinality(CountedIn')
    BY <1>1, <1>3, CoresAreFinite, FS_AddElement DEF JitterInv
<1>5. active_threads # Cores
    BY <1>3, AllCountedIsEveryCore DEF JitterInv
<1>6. \A d \in CoreIds : ~ PastTheSpin(d)'
    BY <1>2, <1>5 DEF JitterInv, PastTheSpin
<1>7. place_of' \in [CoreIds -> JitterPlaces]
    BY <1>1 DEF JitterPlaces
<1>8. c \notin refused /\ reported = 0
    BY <1>1 DEF JitterInv, Returned
<1>9. \A d \in refused : d \in CoreIds \ {c} /\ place_of'[d] \in {"unborn", "bind", "false"}
    BY <1>2, <1>8 DEF JitterInv
<1>. QED BY <1>1, <1>2, <1>4, <1>6, <1>7, <1>8, <1>9 DEF JitterInv, Undefined

LEMMA JitterStep == JitterInv /\ [JitterNext]_jitterVars => JitterInv'
<1>. SUFFICES ASSUME JitterInv, [JitterNext]_jitterVars PROVE JitterInv'
    OBVIOUS
<1>1. CASE StartStep
    <2>1. PICK c \in CoreIds : StartThread(c)
        BY <1>1 DEF StartStep
    <2>2. From(c, "unborn", "bind") /\ UNCHANGED <<refused, active_threads, reported>>
        BY <2>1 DEF StartThread
    <2>. QED BY <2>2, MoveKeeps DEF JitterPlaces, From, Returned
<1>2. ASSUME NEW c \in CoreIds, BindCore(c) PROVE JitterInv'
    <2>1. CASE c \in refused
        <3>1. From(c, "bind", "false") /\ UNCHANGED <<refused, active_threads, reported>>
            BY <1>2, <2>1 DEF BindCore
        <3>. QED BY <2>1, <3>1, MoveKeeps DEF JitterPlaces, From, Returned
    <2>2. CASE c \notin refused
        <3>1. From(c, "bind", "count") /\ UNCHANGED <<refused, active_threads, reported>>
            BY <1>2, <2>2 DEF BindCore
        <3>. QED BY <2>2, <3>1, MoveKeeps DEF JitterPlaces, From, Returned
    <2>. QED BY <2>1, <2>2
<1>3. ASSUME NEW c \in CoreIds, ReadClock(c) PROVE JitterInv'
    <2>1. PICK here \in {"spin", "sampled"} : From(c, here, "measure")
        BY <1>3 DEF ReadClock
    <2>2. /\ active_threads = Cores /\ c \notin refused
          /\ UNCHANGED <<refused, active_threads, reported>>
        BY <1>3, <2>1 DEF ReadClock, AllCounted, From, JitterInv, PastTheSpin
    <2>. QED BY <2>1, <2>2, MoveKeeps DEF JitterPlaces, From, Returned
<1>4. ASSUME NEW c \in CoreIds, Iterate(c) \/ TimeIsUp(c) PROVE JitterInv'
    <2>1. PICK there \in {"measure", "sampled", "true"} : From(c, "measure", there)
        BY <1>4 DEF Iterate, TimeIsUp
    <2>2. /\ active_threads = Cores /\ c \notin refused
          /\ UNCHANGED <<refused, active_threads, reported>>
        BY <1>4, <2>1 DEF Iterate, TimeIsUp, From, JitterInv, PastTheSpin
    <2>. QED BY <2>1, <2>2, MoveKeeps DEF JitterPlaces, From, Returned
<1>5. CASE ReportCore
    <2>1. /\ \A c \in CoreIds : Returned(c)
          /\ UNCHANGED <<refused, place_of, active_threads, hiccups>>
        BY <1>5 DEF ReportCore
    <2>2. reported' = Undefined => \E c \in CoreIds : Valid(c)' /\ hiccups'[c] = 0
        <3>1. reported \in CoreIds => reported + 1 # Undefined
            BY DEF CoreIds, Undefined
        <3>. QED BY <1>5, <2>1, <3>1 DEF ReportCore, Valid
    <2>. QED BY <2>1, <2>2 DEF JitterInv, CountedIn, PastTheSpin, Returned
<1>6. CASE Tick \/ UNCHANGED jitterVars
    <2>1. UNCHANGED <<refused, place_of, active_threads, reported, hiccups>>
        BY <1>6 DEF Tick, jitterVars
    <2>. QED BY <2>1 DEF JitterInv, CountedIn, PastTheSpin, Returned, Valid
<1>. QED BY <1>1, <1>2, <1>3, <1>4, <1>5, <1>6, CountKeeps DEF JitterNext, MeasureStep

\* On any number of cores, with any threshold and runtime: when main begins to report,
\* either every thread was let onto its core or none was, and it reads past the end of
\* samples only if all were and some core saw no gap (sysjitter.cpp:84-97, 174-193).
THEOREM ReportIsAllOrNone == JitterSpec => []ReportNeedsAllOrNone
<1>1. JitterInv => ReportNeedsAllOrNone
    <2>. SUFFICES ASSUME JitterInv PROVE ReportNeedsAllOrNone
        OBVIOUS
    <2>1. ASSUME NEW c \in CoreIds, c \notin refused, reported # 0
          PROVE  refused = {}
        <3>1. PastTheSpin(c)
            BY <2>1 DEF JitterInv, Returned, PastTheSpin
        <3>2. CountedIn = CoreIds
            BY <3>1, AllCountedIsEveryCore DEF JitterInv
        <3>3. \A d \in CoreIds : d \notin refused
            BY <3>2 DEF JitterInv, CountedIn
        <3>. QED BY <3>3 DEF JitterInv
    <2>2. refused = CoreIds \/ \E c \in CoreIds : c \notin refused
        BY DEF JitterInv
    <2>3. ASSUME reported = Undefined
          PROVE  refused = {} /\ \E c \in CoreIds : hiccups[c] = 0
        <3>1. PICK c \in CoreIds : Valid(c) /\ hiccups[c] = 0
            BY <2>3 DEF JitterInv
        <3>2. c \notin refused
            BY <3>1 DEF JitterInv, Valid
        <3>3. reported # 0
            BY <2>3 DEF Undefined
        <3>. QED BY <2>1, <3>1, <3>2, <3>3
    <2>. QED BY <2>1, <2>2, <2>3 DEF ReportNeedsAllOrNone
<1>. QED BY <1>1, JitterStart, JitterStep, PTL DEF JitterSpec
-----------------------------------------------------------------------------
(***************************************************************************)
(* CpuLists.  Where the reading is in the text it was given, and that each *)
(* list holds the cpus named up to there.  A range to the largest unsigned *)
(* is never left, and a bitset throws only of what it has no room for.     *)
(***************************************************************************)
Lists == ListNames \cup {Argv}

CpuTypes ==
    /\ given \in Seq(Words) /\ words \in Seq(Words)
    /\ i \in Unsigned /\ to \in Unsigned
    /\ ranging \in BOOLEAN /\ thrown \in BOOLEAN
    /\ list \in [Lists -> SUBSET Unsigned]

\* What the sections before section k of word w name for list l.
NamedBefore(w, k, l) ==
    {cpu \in Unsigned :
        \/ \E v \in DOMAIN given :
              v < w /\ given[v].list = l /\ cpu \in MeantBy(given[v].sections)
        \/ /\ w \in DOMAIN given /\ given[w].list = l
           /\ \E n \in DOMAIN given[w].sections : n < k /\ cpu \in CpusOf(given[w].sections[n])}

\* The rest of the text begins with section k of word w, or is nothing.
ReadUpTo(w, k) ==
    /\ k >= 1 /\ w >= 1
    /\ Len(words) = Len(given) - w + 1
    /\ words # <<>> =>
        /\ words[1].list = given[w].list
        /\ Len(words[1].sections) = Len(given[w].sections) - k + 1
        /\ \A n \in DOMAIN words[1].sections :
              words[1].sections[n] = given[w].sections[k + n - 1]
        /\ \A n \in DOMAIN given[w].sections : n < k => given[w].sections[n].then # "other"
        /\ \A n \in DOMAIN words : n > 1 => words[n] = given[w + n - 1]
    /\ words = <<>> => k = 1

RangeIsThere ==
    /\ words # <<>>
    /\ Section.first # NotNumber /\ Section.then = "-" /\ Section.last = to
    /\ to # CpuMod - 1 => Section.first <= i /\ (i <= to + 1 \/ i = Section.first)

Passed(l) == IF ranging /\ words[1].list = l THEN Section.first..(i - 1) ELSE {}

ListsHold(w, k) == \A l \in Lists : list[l] = NamedBefore(w, k, l) \cup Passed(l)

CpuInv ==
    /\ CpuTypes
    /\ thrown => ~ Representable
    /\ ~ thrown =>
        /\ ranging => RangeIsThere
        /\ \E w, k \in Nat : ReadUpTo(w, k) /\ ((ranging /\ to = CpuMod - 1) \/ ListsHold(w, k))

\* What a word is.
LEMMA WordFacts ==
    ASSUME NEW text \in Seq(Words), NEW v \in DOMAIN text
    PROVE  /\ v \in 1..Len(text) /\ Len(text) \in Nat
           /\ text[v] \in Words /\ text[v].list \in Lists
           /\ text[v].sections \in Seq(Sections) /\ Len(text[v].sections) >= 1
           /\ DOMAIN text[v].sections = 1..Len(text[v].sections)
<1>1. v \in 1..Len(text) /\ Len(text) \in Nat /\ text[v] \in Words
    OBVIOUS
<1>2. /\ text[v].list \in Lists
      /\ text[v].sections \in Seq(Sections) /\ text[v].sections # <<>>
    BY <1>1 DEF Words, Lists
<1>. QED BY <1>1, <1>2

LEMMA CpuStart == CpuInit => CpuInv
<1>. SUFFICES ASSUME CpuInit PROVE CpuInv
    OBVIOUS
<1>1. /\ words = given /\ given \in Seq(Words) /\ i = 0 /\ to = 0
      /\ ranging = FALSE /\ thrown = FALSE /\ list = [l \in Lists |-> {}]
    BY CpuListAssumption DEF CpuInit, Lists
<1>2. 0 \in Unsigned
    BY CpuListAssumption DEF Unsigned
<1>3. ReadUpTo(1, 1)
    <2>1. words # <<>> => 1 \in DOMAIN given
        BY <1>1
    <2>2. words # <<>> =>
            /\ DOMAIN given[1].sections = 1..Len(given[1].sections)
            /\ Len(given[1].sections) \in Nat
        BY <1>1, <2>1, WordFacts
    <2>. QED BY <1>1, <2>2 DEF ReadUpTo
<1>4. ListsHold(1, 1)
    <2>1. \A l \in Lists : NamedBefore(1, 1, l) = {}
        <3>1. \A v \in DOMAIN given : ~ (v < 1)
            BY <1>1
        <3>2. 1 \in DOMAIN given => \A n \in DOMAIN given[1].sections : ~ (n < 1)
            BY <1>1, WordFacts
        <3>. QED BY <3>1, <3>2 DEF NamedBefore
    <2>. QED BY <1>1, <2>1 DEF ListsHold, Passed
<1>. QED BY <1>1, <1>2, <1>3, <1>4 DEF CpuInv, CpuTypes

\* The cpus of a section are unsigned numbers.
LEMMA SectionFacts ==
    ASSUME NEW s \in Sections
    PROVE  /\ s.first \in Unsigned \cup {NotNumber} /\ s.last \in Unsigned \cup {NotNumber}
           /\ s.then \in {"end", "other", "-"}
           /\ s.first = NotNumber => s.then = "end"
           /\ CpusOf(s) \subseteq Unsigned
           /\ s.then = "other" => CpusOf(s) = {}
           /\ s.then = "-" /\ s.last = NotNumber => CpusOf(s) = {}
<1>1. CpuMod \in Nat
    BY CpuListAssumption
<1>2. /\ s.first \in Unsigned \cup {NotNumber} /\ s.last \in Unsigned \cup {NotNumber}
      /\ s.then \in {"end", "other", "-"}
      /\ s.first = NotNumber => s.then = "end"
      /\ s.then = "other" => s.last = NotNumber
    BY DEF Sections, NotNumber, Unsigned
<1>3. CASE s.first = NotNumber
    <2>1. CpusOf(s) = {}
        BY <1>3 DEF CpusOf
    <2>. QED BY <1>2, <1>3, <2>1
<1>4. CASE s.first # NotNumber
    <2>1. s.first \in 0..(CpuMod - 1) /\ CpuMod - 1 \in Int
        BY <1>1, <1>2, <1>4 DEF Unsigned
    <2>2. CASE s.then = "end"
        <3>1. CpusOf(s) = {s.first}
            BY <1>4, <2>1, <2>2 DEF CpusOf
        <3>. QED BY <1>2, <1>4, <2>1, <2>2, <3>1 DEF Unsigned
    <2>3. CASE s.then # "end"
        <3>1. CpusOf(s) = s.first..s.last
            BY <1>4, <2>3 DEF CpusOf
        <3>2. s.last = NotNumber => s.first..s.last = {}
            BY <2>1 DEF NotNumber
        <3>3. s.last # NotNumber => s.last \in 0..(CpuMod - 1)
            BY <1>2 DEF Unsigned
        <3>4. s.first..s.last \subseteq 0..(CpuMod - 1)
            BY <2>1, <3>2, <3>3
        <3>. QED BY <1>2, <1>4, <2>3, <3>1, <3>2, <3>4 DEF Unsigned
    <2>. QED BY <2>2, <2>3
<1>. QED BY <1>3, <1>4

\* While there is something to read, it is section k of word w.
LEMMA SectionRead ==
    ASSUME CpuTypes, words # <<>>, NEW w \in Nat, NEW k \in Nat, ReadUpTo(w, k)
    PROVE  /\ w \in DOMAIN given /\ given[w] \in Words /\ words[1] \in Words
           /\ words[1].list = given[w].list /\ given[w].list \in Lists
           /\ given[w].sections \in Seq(Sections) /\ k \in DOMAIN given[w].sections
           /\ words[1].sections \in Seq(Sections) /\ words[1].sections # <<>>
           /\ Section = given[w].sections[k] /\ Section \in Sections
<1>1. words \in Seq(Words) /\ given \in Seq(Words) /\ Len(words) >= 1
    BY DEF CpuTypes
<1>2. w \in 1..Len(given) /\ 1 \in DOMAIN words
    BY <1>1 DEF ReadUpTo
<1>3. given[w] \in Words /\ words[1] \in Words
    BY <1>1, <1>2
<1>4. /\ given[w].sections \in Seq(Sections) /\ words[1].sections \in Seq(Sections)
      /\ words[1].sections # <<>> /\ given[w].list \in Lists
    BY <1>3 DEF Words, Lists
<1>5. /\ words[1].list = given[w].list
      /\ Len(words[1].sections) = Len(given[w].sections) - k + 1 /\ k >= 1
      /\ \A n \in DOMAIN words[1].sections :
            words[1].sections[n] = given[w].sections[k + n - 1]
    BY DEF ReadUpTo
<1>6. 1 \in DOMAIN words[1].sections /\ k \in 1..Len(given[w].sections)
    BY <1>4, <1>5
<1>7. words[1].sections[1] = given[w].sections[k]
    <2>1. words[1].sections[1] = given[w].sections[k + 1 - 1]
        BY <1>5, <1>6
    <2>. QED BY <2>1
<1>8. Section \in Sections
    BY <1>4, <1>6 DEF Section
<1>. QED BY <1>1, <1>2, <1>3, <1>4, <1>5, <1>6, <1>7, <1>8 DEF Section

\* From a word read to its end, or given up, to the next.
LEMMA NextWord ==
    ASSUME CpuTypes, words # <<>>, NEW w \in Nat, NEW k \in Nat, ReadUpTo(w, k),
           words' = Tail(words), UNCHANGED given
    PROVE  words' \in Seq(Words) /\ ReadUpTo(w + 1, 1)'
<1>1. /\ words \in Seq(Words) /\ given \in Seq(Words) /\ Len(words) \in Nat /\ Len(words) >= 1
      /\ Len(given) \in Nat
    BY DEF CpuTypes
<1>2. /\ words' \in Seq(Words) /\ Len(words') = Len(words) - 1
      /\ \A n \in 1..Len(words') : words'[n] = words[n + 1]
    BY <1>1
<1>3. Len(words) = Len(given) - w + 1 /\ w >= 1
    BY DEF ReadUpTo
<1>4. \A n \in DOMAIN words : n > 1 => words[n] = given[w + n - 1]
    BY DEF ReadUpTo
<1>5. \A n \in 1..Len(words') : words'[n] = given[(w + 1) + n - 1]
    <2>. SUFFICES ASSUME NEW n \in 1..Len(words') PROVE words'[n] = given[(w + 1) + n - 1]
        OBVIOUS
    <2>1. n + 1 \in DOMAIN words /\ n + 1 > 1 /\ w + (n + 1) - 1 = (w + 1) + n - 1
        BY <1>1, <1>2
    <2>. QED BY <1>2, <1>4, <2>1
<1>6. DOMAIN words' = 1..Len(words')
    BY <1>2
<1>7. words' # <<>> =>
        /\ words'[1] = given[w + 1]
        /\ words'[1].sections \in Seq(Sections)
    <2>. SUFFICES ASSUME words' # <<>>
                  PROVE  words'[1] = given[w + 1] /\ words'[1].sections \in Seq(Sections)
        OBVIOUS
    <2>1. 1 \in 1..Len(words')
        BY <1>2
    <2>2. words'[1] = given[w + 1 + 1 - 1] /\ w + 1 + 1 - 1 = w + 1
        BY <1>5, <2>1
    <2>3. words'[1] \in Words
        BY <1>2, <2>1
    <2>. QED BY <2>2, <2>3 DEF Words
<1>8. \A n \in DOMAIN words' : n > 1 => words'[n] = given'[(w + 1) + n - 1]
    BY <1>5, <1>6
<1>9. words' # <<>> =>
        /\ words'[1].list = given'[w + 1].list
        /\ Len(words'[1].sections) = Len(given'[w + 1].sections) - 1 + 1
        /\ \A n \in DOMAIN words'[1].sections :
              words'[1].sections[n] = given'[w + 1].sections[1 + n - 1]
        /\ \A n \in DOMAIN given'[w + 1].sections : ~ (n < 1)
    BY <1>7
<1>10. Len(words') = Len(given') - (w + 1) + 1
    <2>1. /\ Len(words') = Len(words) - 1 /\ Len(words) = Len(given) - w + 1
          /\ Len(given) \in Nat
        BY <1>1, <1>2, <1>3
    <2>2. Len(given') = Len(given)
        OBVIOUS
    <2>. QED BY <2>1, <2>2
<1>11. w + 1 >= 1 /\ words' \in Seq(Words)
    BY <1>2
<1>. QED BY <1>8, <1>9, <1>10, <1>11, SMTT(60) DEF ReadUpTo

\* A section more.
LEMMA NamedNext ==
    ASSUME given \in Seq(Words), NEW w \in DOMAIN given, NEW k \in DOMAIN given[w].sections,
           NEW l \in Lists
    PROVE  NamedBefore(w, k + 1, l)
               = NamedBefore(w, k, l)
                    \cup (IF given[w].list = l THEN CpusOf(given[w].sections[k]) ELSE {})
<1>1. /\ given[w].sections \in Seq(Sections)
      /\ DOMAIN given[w].sections = 1..Len(given[w].sections)
    BY WordFacts
<1>2. given[w].sections[k] \in Sections /\ k \in Nat
    BY <1>1
<1>3. CpusOf(given[w].sections[k]) \subseteq Unsigned
    BY <1>2, SectionFacts
<1>4. \A n \in DOMAIN given[w].sections : n < k + 1 <=> n < k \/ n = k
    BY <1>1, <1>2
<1>. QED BY <1>3, <1>4 DEF NamedBefore

\* All that a word means is what its sections name up to where its reading ends.
LEMMA NamedWord ==
    ASSUME given \in Seq(Words), NEW w \in DOMAIN given, NEW k \in Nat, NEW l \in Lists,
           \A n \in DOMAIN given[w].sections : n < k => given[w].sections[n].then # "other",
           \/ k = Len(given[w].sections) + 1
           \/ k \in DOMAIN given[w].sections /\ given[w].sections[k].then = "other"
    PROVE  NamedBefore(w + 1, 1, l) = NamedBefore(w, k, l)
<1>. DEFINE sections == given[w].sections
<1>1. DOMAIN sections = 1..Len(sections) /\ Len(sections) \in Nat
    BY WordFacts
<1>2. \A j \in DOMAIN sections : (\A n \in 1..j : sections[n].then # "other") <=> j < k
    <2>1. ASSUME NEW j \in DOMAIN sections, j < k
          PROVE  \A n \in 1..j : sections[n].then # "other"
        <3>1. \A n \in 1..j : n \in DOMAIN sections /\ n < k
            BY <1>1, <2>1
        <3>. QED BY <3>1
    <2>2. ASSUME NEW j \in DOMAIN sections, ~ (j < k)
          PROVE  \E n \in 1..j : sections[n].then = "other"
        <3>1. k \in DOMAIN sections /\ sections[k].then = "other"
            BY <1>1, <2>2
        <3>2. k \in 1..j
            BY <1>1, <2>2, <3>1
        <3>. QED BY <3>1, <3>2
    <2>. QED BY <2>1, <2>2
<1>3. \A cpu : cpu \in MeantBy(sections)
                <=> \E j \in DOMAIN sections : j < k /\ cpu \in CpusOf(sections[j])
    BY <1>2 DEF MeantBy
<1>4. w \in 1..Len(given) /\ Len(given) \in Nat /\ DOMAIN given = 1..Len(given)
    BY WordFacts
<1>5. \A v \in DOMAIN given : v < w + 1 <=> v < w \/ v = w
    BY <1>4
<1>6. w + 1 \in DOMAIN given => \A n \in DOMAIN given[w + 1].sections : ~ (n < 1)
    BY WordFacts
<1>7. \A cpu : cpu \in NamedBefore(w + 1, 1, l) <=> cpu \in NamedBefore(w, k, l)
    BY <1>3, <1>5, <1>6 DEF NamedBefore
<1>. QED BY <1>7

\* From a section to the next: what it names is added.
LEMMA NextPart ==
    ASSUME CpuTypes, words # <<>>, NEW w \in Nat, NEW k \in Nat, ReadUpTo(w, k),
           Section.then # "other", NextSection, UNCHANGED given
    PROVE  /\ words' \in Seq(Words)
           /\ \E w2, k2 \in Nat :
                /\ ReadUpTo(w2, k2)'
                /\ \A l \in Lists :
                    NamedBefore(w2, k2, l)
                        = NamedBefore(w, k, l)
                            \cup (IF words[1].list = l THEN CpusOf(Section) ELSE {})
<1>. DEFINE sections == given[w].sections
<1>1. /\ w \in DOMAIN given /\ given \in Seq(Words) /\ words \in Seq(Words)
      /\ given[w] \in Words /\ words[1] \in Words
      /\ words[1].list = given[w].list /\ given[w].list \in Lists
      /\ sections \in Seq(Sections) /\ k \in DOMAIN sections
      /\ words[1].sections \in Seq(Sections) /\ words[1].sections # <<>>
      /\ Section = sections[k] /\ Section \in Sections
    BY SectionRead DEF CpuTypes
<1>2. /\ Len(words[1].sections) = Len(sections) - k + 1
      /\ \A n \in DOMAIN words[1].sections : words[1].sections[n] = sections[k + n - 1]
      /\ \A n \in DOMAIN sections : n < k => sections[n].then # "other"
    BY DEF ReadUpTo
<1>3. \A n \in DOMAIN sections : n < k + 1 => sections[n].then # "other"
    <2>1. \A n \in DOMAIN sections : n < k + 1 <=> n < k \/ n = k
        BY <1>1
    <2>. QED BY <1>1, <1>2, <2>1
<1>4. \A l \in Lists :
        NamedBefore(w, k + 1, l)
            = NamedBefore(w, k, l) \cup (IF words[1].list = l THEN CpusOf(Section) ELSE {})
    BY <1>1, NamedNext
<1>5. CASE Rest = <<>>
    <2>1. Len(Rest) = Len(words[1].sections) - 1
        BY <1>1 DEF Rest
    <2>2. k + 1 = Len(sections) + 1
        BY <1>1, <1>2, <1>5, <2>1
    <2>3. \A l \in Lists : NamedBefore(w + 1, 1, l) = NamedBefore(w, k + 1, l)
        <3>1. k + 1 \in Nat
            OBVIOUS
        <3>. QED BY <1>1, <1>3, <2>2, <3>1, NamedWord
    <2>4. words' = Tail(words)
        BY <1>5 DEF NextSection
    <2>5. words' \in Seq(Words) /\ ReadUpTo(w + 1, 1)'
        BY <2>4, NextWord
    <2>6. w + 1 \in Nat /\ 1 \in Nat
        OBVIOUS
    <2>. QED BY <1>4, <2>3, <2>5, <2>6
<1>6. CASE Rest # <<>>
    <2>1. /\ Rest \in Seq(Sections) /\ Len(Rest) = Len(words[1].sections) - 1
          /\ \A n \in 1..Len(Rest) : Rest[n] = words[1].sections[n + 1]
        BY <1>1 DEF Rest
    <2>. DEFINE first == [words[1] EXCEPT !.sections = Rest]
    <2>2. words' = <<first>> \o Tail(words)
        BY <1>6 DEF NextSection
    <2>3. first \in Words /\ first.list = words[1].list /\ first.sections = Rest
        BY <1>1, <1>6, <2>1 DEF Words
    <2>. HIDE DEF first
    <2>4. Tail(words) \in Seq(Words) /\ Len(Tail(words)) = Len(words) - 1
          /\ \A n \in 1..(Len(words) - 1) : Tail(words)[n] = words[n + 1]
        BY <1>1
    <2>5. /\ words' \in Seq(Words) /\ Len(words') = Len(words) /\ words'[1] = first
          /\ \A n \in 1..Len(words) : n > 1 => words'[n] = words[n]
        <3>1. <<first>> \in Seq(Words) /\ Len(<<first>>) = 1
            BY <2>3
        <3>2. words' \in Seq(Words) /\ Len(words') = 1 + (Len(words) - 1)
            BY <2>2, <2>4, <3>1
        <3>3. words'[1] = first
            BY <2>2, <2>4, <3>1
        <3>4. ASSUME NEW n \in 1..Len(words), n > 1 PROVE words'[n] = words[n]
            <4>1. n - 1 \in 1..(Len(words) - 1) /\ (n - 1) + 1 = n
                BY <1>1, <3>4
            <4>2. words'[n] = Tail(words)[n - 1]
                BY <1>1, <2>2, <2>4, <3>1, <3>4
            <4>. QED BY <2>4, <4>1, <4>2
        <3>5. Len(words) \in Nat
            BY <1>1
        <3>. QED BY <3>2, <3>3, <3>4, <3>5
    <2>6. words' # <<>> /\ DOMAIN words' = 1..Len(words)
        BY <1>1, <2>5
    <2>. DEFINE ahead == words'[1].sections
    <2>0. ahead = Rest
        BY <2>3, <2>5
    <2>. HIDE DEF ahead
    <2>7. Len(ahead) = Len(sections) - (k + 1) + 1
        <3>1. Len(sections) \in Nat
            BY <1>1
        <3>2. Len(ahead) = Len(words[1].sections) - 1
            BY <2>0, <2>1
        <3>3. Len(words[1].sections) = Len(sections) - k + 1
            BY <1>2
        <3>. QED BY <3>1, <3>2, <3>3
    <2>8. ASSUME NEW n \in DOMAIN ahead
          PROVE  ahead[n] = sections[(k + 1) + n - 1]
        <3>1. n \in 1..Len(Rest) /\ ahead[n] = words[1].sections[n + 1]
            BY <2>0, <2>1, <2>8
        <3>2. n + 1 \in DOMAIN words[1].sections /\ k + (n + 1) - 1 = (k + 1) + n - 1
            <4>1. /\ DOMAIN words[1].sections = 1..Len(words[1].sections)
                  /\ Len(words[1].sections) \in Nat
                BY <1>1
            <4>2. Len(Rest) = Len(words[1].sections) - 1 /\ n \in 1..Len(Rest)
                BY <2>1, <3>1
            <4>. QED BY <4>1, <4>2
        <3>. QED BY <1>2, <3>1, <3>2
    <2>9. \A n \in DOMAIN words' : n > 1 => words'[n] = given'[w + n - 1]
        <3>1. \A n \in DOMAIN words : n > 1 => words[n] = given[w + n - 1]
            BY DEF ReadUpTo
        <3>2. DOMAIN words = 1..Len(words)
            BY <1>1
        <3>. QED BY <2>5, <2>6, <3>1, <3>2
    <2>10. k + 1 >= 1 /\ w >= 1 /\ Len(words') = Len(given') - w + 1
        BY <2>5 DEF ReadUpTo
    <2>11. ReadUpTo(w, k + 1)'
        BY <1>1, <1>3, <2>3, <2>5, <2>6, <2>7, <2>8, <2>9, <2>10 DEF ReadUpTo, ahead
    <2>12. k + 1 \in Nat
        OBVIOUS
    <2>. QED BY <1>4, <2>5, <2>11, <2>12
<1>. QED BY <1>5, <1>6

\* A bitset that throws was named a cpu it has no room for.
LEMMA ThrownForACpu ==
    ASSUME CpuTypes, words # <<>>, NEW w \in Nat, NEW k \in Nat, ReadUpTo(w, k),
           Section.then # "other", NEW cpu \in CpusOf(Section),
           words[1].list \in ListNames, cpu >= MAX_CPUS
    PROVE  ~ Representable
<1>. DEFINE sections == given[w].sections
<1>1. /\ w \in DOMAIN given /\ words[1].list = given[w].list
      /\ sections \in Seq(Sections) /\ k \in DOMAIN sections
      /\ Section = sections[k] /\ Section \in Sections
    BY SectionRead
<1>2. \A n \in DOMAIN sections : n < k => sections[n].then # "other"
    BY DEF ReadUpTo
<1>3. \A n \in 1..k : sections[n].then # "other"
    <2>1. \A n \in 1..k : n \in DOMAIN sections /\ (n < k \/ n = k)
        BY <1>1
    <2>. QED BY <1>1, <1>2, <2>1
<1>4. cpu \in MeantBy(sections)
    BY <1>1, <1>3 DEF MeantBy
<1>5. cpu \in Listed(words[1].list)
    BY <1>1, <1>4 DEF Listed
<1>6. cpu \in Unsigned /\ MAX_CPUS \in Nat /\ CpuMod \in Nat
    BY <1>1, SectionFacts, CpuListAssumption
<1>7. cpu \notin 0..(MAX_CPUS - 1)
    BY <1>6 DEF Unsigned
<1>. QED BY <1>5, <1>7 DEF Representable

\* The functor keeps a cpu, or throws.
LEMMA CallFacts ==
    ASSUME CpuTypes, ~ thrown, words[1].list \in Lists, NEW cpu \in Unsigned, Call(cpu)
    PROVE  \/ thrown' = TRUE /\ list' = list
                /\ words[1].list \in ListNames /\ cpu >= MAX_CPUS
           \/ /\ thrown' = FALSE /\ list' \in [Lists -> SUBSET Unsigned]
              /\ \A l \in Lists :
                    list'[l] = list[l] \cup (IF words[1].list = l THEN {cpu} ELSE {})
<1>. DEFINE l == words[1].list
<1>1. list \in [Lists -> SUBSET Unsigned] /\ thrown = FALSE
    BY DEF CpuTypes
<1>2. CASE l # Argv /\ cpu >= MAX_CPUS
    BY <1>1, <1>2 DEF Call, Lists
<1>3. CASE ~ (l # Argv /\ cpu >= MAX_CPUS)
    <2>1. list' = [list EXCEPT ![l] = @ \cup {cpu}] /\ thrown' = FALSE
        BY <1>1, <1>3 DEF Call
    <2>2. \A m \in Lists : list'[m] = IF m = l THEN list[l] \cup {cpu} ELSE list[m]
        BY <1>1, <2>1
    <2>3. list' \in [Lists -> SUBSET Unsigned]
        BY <1>1, <2>1
    <2>. QED BY <2>1, <2>2, <2>3
<1>. QED BY <1>2, <1>3

\* Beyond a section all of whose cpus were passed on.
LEMMA SectionDone ==
    ASSUME CpuInv, ~ thrown, words # <<>>,
           NEW w \in Nat, NEW k \in Nat, ReadUpTo(w, k),
           Section.then # "other", NextSection, UNCHANGED given,
           i' \in Unsigned, to' \in Unsigned, ranging' = FALSE, thrown' = FALSE,
           list' \in [Lists -> SUBSET Unsigned],
           \A l \in Lists :
                list'[l] = NamedBefore(w, k, l)
                            \cup (IF words[1].list = l THEN CpusOf(Section) ELSE {})
    PROVE  CpuInv'
<1>1. CpuTypes
    BY DEF CpuInv
<1>2. words' \in Seq(Words)
    BY <1>1, NextPart
<1>3. PICK w2 \in Nat, k2 \in Nat :
        /\ ReadUpTo(w2, k2)'
        /\ \A l \in Lists :
            NamedBefore(w2, k2, l)
                = NamedBefore(w, k, l) \cup (IF words[1].list = l THEN CpusOf(Section) ELSE {})
    BY <1>1, NextPart
<1>4. \A l \in Lists : NamedBefore(w2, k2, l)' = NamedBefore(w2, k2, l)
    BY DEF NamedBefore
<1>5. ListsHold(w2, k2)'
    BY <1>3, <1>4 DEF ListsHold, Passed
<1>6. CpuTypes'
    BY <1>1, <1>2 DEF CpuTypes
<1>. QED BY <1>3, <1>5, <1>6 DEF CpuInv

LEMMA GivenStays ==
    ASSUME UNCHANGED given
    PROVE  Representable' <=> Representable
BY DEF Representable, Listed

LEMMA CpuStep == CpuInv /\ [CpuNext]_cpuVars => CpuInv'
<1>. SUFFICES ASSUME CpuInv, [CpuNext]_cpuVars PROVE CpuInv'
    OBVIOUS
<1>1. CASE UNCHANGED cpuVars
    <2>1. /\ words' = words /\ given' = given /\ i' = i /\ to' = to
          /\ ranging' = ranging /\ list' = list /\ thrown' = thrown
        BY <1>1 DEF cpuVars
    <2>2. \A w, k \in Nat : ReadUpTo(w, k)' <=> ReadUpTo(w, k)
        BY <2>1 DEF ReadUpTo
    <2>3. \A w, k \in Nat : ListsHold(w, k)' <=> ListsHold(w, k)
        BY <2>1 DEF ListsHold, NamedBefore, Passed, Section
    <2>. QED BY <2>1, <2>2, <2>3, GivenStays
                DEF CpuInv, CpuTypes, RangeIsThere, Section
<1>. SUFFICES ASSUME CpuNext PROVE CpuInv'
    BY <1>1
<1>2. ~ thrown /\ CpuTypes
    BY DEF CpuInv, CpuNext, Skip, OneCpu, GiveUp, RangeOfCpus, RangeStep, Reading
<1>3. words # <<>> /\ UNCHANGED given
    BY DEF CpuInv, CpuNext, Skip, OneCpu, GiveUp, RangeOfCpus, RangeStep, Reading, RangeIsThere
<1>4. PICK w \in Nat, k \in Nat :
        ReadUpTo(w, k) /\ ((ranging /\ to = CpuMod - 1) \/ ListsHold(w, k))
    BY <1>2 DEF CpuInv
<1>5. /\ w \in DOMAIN given /\ given[w] \in Words /\ words[1] \in Words
      /\ words[1].list = given[w].list /\ given[w].list \in Lists
      /\ k \in DOMAIN given[w].sections /\ given[w].sections \in Seq(Sections)
      /\ Section = given[w].sections[k] /\ Section \in Sections
    BY <1>2, <1>3, <1>4, SectionRead
<1>6. /\ Section.first \in Unsigned \cup {NotNumber} /\ Section.last \in Unsigned \cup {NotNumber}
      /\ Section.first = NotNumber => Section.then = "end"
      /\ Section.then = "-" /\ Section.last = NotNumber => CpusOf(Section) = {}
      /\ Section.then = "other" => CpusOf(Section) = {}
    BY <1>5, SectionFacts
<1>7. CpuMod \in Nat /\ CpuMod >= 1 /\ MAX_CPUS \in Nat
    BY CpuListAssumption
<1>8. ~ ranging => \A l \in Lists : list[l] = NamedBefore(w, k, l)
    BY <1>4 DEF ListsHold, Passed
<1>9. CASE Skip
    <2>1. /\ NextSection /\ UNCHANGED <<i, to, ranging, list, thrown>> /\ ~ ranging
          /\ Section.first = NotNumber \/ (Section.then = "-" /\ Section.last = NotNumber)
        BY <1>9 DEF Skip, Reading
    <2>2. CpusOf(Section) = {} /\ Section.then # "other"
        BY <1>6, <2>1 DEF CpusOf
    <2>3. \A l \in Lists :
            list'[l] = NamedBefore(w, k, l)
                        \cup (IF words[1].list = l THEN CpusOf(Section) ELSE {})
        BY <1>8, <2>1, <2>2
    <2>4. /\ i' \in Unsigned /\ to' \in Unsigned /\ ranging' = FALSE /\ thrown' = FALSE
          /\ list' \in [Lists -> SUBSET Unsigned]
        BY <1>2, <2>1 DEF CpuTypes
    <2>. QED BY <1>2, <1>3, <1>4, <2>1, <2>2, <2>3, <2>4, SectionDone
<1>10. CASE OneCpu
    <2>1. /\ Section.first # NotNumber /\ Section.then = "end"
          /\ Call(Section.first) /\ NextSection /\ UNCHANGED <<i, to, ranging>> /\ ~ ranging
        BY <1>10 DEF OneCpu, Reading
    <2>2. Section.first \in Unsigned /\ Section.first \in Int
        BY <1>6, <1>7, <2>1 DEF Unsigned
    <2>3. CpusOf(Section) = {Section.first} /\ Section.then # "other"
        BY <2>1, <2>2 DEF CpusOf
    <2>4. words' \in Seq(Words)
        BY <1>2, <1>3, <1>4, <2>1, <2>3, NextPart
    <2>5. CASE /\ thrown' = TRUE /\ list' = list
               /\ words[1].list \in ListNames /\ Section.first >= MAX_CPUS
        <3>1. ~ Representable
            BY <1>2, <1>3, <1>4, <2>3, <2>5, ThrownForACpu
        <3>2. CpuTypes'
            BY <1>2, <1>3, <2>1, <2>4, <2>5 DEF CpuTypes
        <3>. QED BY <1>3, <2>5, <3>1, <3>2, GivenStays DEF CpuInv
    <2>6. CASE /\ thrown' = FALSE /\ list' \in [Lists -> SUBSET Unsigned]
               /\ \A l \in Lists :
                    list'[l] = list[l] \cup (IF words[1].list = l THEN {Section.first} ELSE {})
        <3>1. \A l \in Lists :
                list'[l] = NamedBefore(w, k, l)
                            \cup (IF words[1].list = l THEN CpusOf(Section) ELSE {})
            BY <1>8, <2>1, <2>3, <2>6
        <3>2. i' \in Unsigned /\ to' \in Unsigned /\ ranging' = FALSE
            BY <1>2, <2>1 DEF CpuTypes
        <3>3. thrown' = FALSE /\ list' \in [Lists -> SUBSET Unsigned]
            BY <2>6
        <3>4. ReadUpTo(w, k) /\ NextSection /\ Section.then # "other"
            BY <1>4, <2>1, <2>3
        <3>. QED BY <1>2, <1>3, <3>1, <3>2, <3>3, <3>4, SectionDone
    <2>. QED BY <1>2, <1>5, <2>1, <2>2, <2>5, <2>6, CallFacts
<1>11. CASE GiveUp
    <2>1. /\ Section.then = "other" /\ words' = Tail(words)
          /\ UNCHANGED <<i, to, ranging, list, thrown>> /\ ~ ranging
        BY <1>11 DEF GiveUp, Reading
    <2>2. words' \in Seq(Words) /\ ReadUpTo(w + 1, 1)'
        BY <1>2, <1>3, <1>4, <2>1, NextWord
    <2>3. \A n \in DOMAIN given[w].sections : n < k => given[w].sections[n].then # "other"
        BY <1>3, <1>4 DEF ReadUpTo
    <2>4. \A l \in Lists : NamedBefore(w + 1, 1, l) = NamedBefore(w, k, l)
        BY <1>2, <1>5, <2>1, <2>3, NamedWord DEF CpuTypes
    <2>5. \A l \in Lists : NamedBefore(w + 1, 1, l)' = NamedBefore(w + 1, 1, l)
        BY <1>3 DEF NamedBefore
    <2>6. ListsHold(w + 1, 1)'
        BY <1>8, <2>1, <2>4, <2>5 DEF ListsHold, Passed
    <2>7. CpuTypes'
        BY <1>2, <1>3, <2>1, <2>2 DEF CpuTypes
    <2>8. w + 1 \in Nat /\ 1 \in Nat
        OBVIOUS
    <2>. QED BY <1>2, <2>1, <2>2, <2>6, <2>7, <2>8 DEF CpuInv
<1>12. CASE RangeOfCpus
    <2>1. /\ Section.first # NotNumber /\ Section.then = "-" /\ Section.last # NotNumber
          /\ i' = Section.first /\ to' = Section.last /\ ranging' = TRUE
          /\ UNCHANGED <<words, given, list, thrown>> /\ ~ ranging
        BY <1>12 DEF RangeOfCpus, Reading
    <2>2. i' \in Unsigned /\ to' \in Unsigned /\ i' \in Int /\ to' \in Int
        BY <1>6, <1>7, <2>1 DEF Unsigned
    <2>3. Section' = Section
        BY <2>1 DEF Section
    <2>4. RangeIsThere'
        BY <1>3, <2>1, <2>2, <2>3 DEF RangeIsThere
    <2>5. ReadUpTo(w, k)'
        BY <1>4, <2>1 DEF ReadUpTo
    <2>6. \A l \in Lists : NamedBefore(w, k, l)' = NamedBefore(w, k, l) /\ Passed(l)' = {}
        BY <2>1, <2>2, <2>3 DEF NamedBefore, Passed
    <2>7. ListsHold(w, k)'
        BY <1>8, <2>1, <2>6 DEF ListsHold
    <2>8. CpuTypes'
        BY <1>2, <2>1, <2>2 DEF CpuTypes
    <2>. QED BY <1>2, <2>1, <2>4, <2>5, <2>7, <2>8 DEF CpuInv
<1>13. CASE RangeStep
    <2>1. /\ ranging /\ UNCHANGED <<given, to>> /\ RangeIsThere
          /\ i \in Unsigned /\ to \in Unsigned /\ i \in Nat /\ to \in Nat
          /\ i < CpuMod /\ to < CpuMod
        BY <1>2, <1>7, <1>13 DEF RangeStep, CpuInv, CpuTypes, Unsigned
    <2>2. /\ Section.first # NotNumber /\ Section.then = "-" /\ Section.last = to
          /\ to # CpuMod - 1 => Section.first <= i /\ (i <= to + 1 \/ i = Section.first)
        BY <2>1 DEF RangeIsThere
    <2>3. Section.first \in Nat /\ Section.then # "other"
        BY <1>6, <1>7, <2>2 DEF Unsigned
    <2>4. CpusOf(Section) = Section.first..to
        BY <2>2 DEF CpusOf
    <2>5. CASE InRange
        <3>1. /\ i <= to /\ Call(i) /\ i' = (i + 1) % CpuMod /\ UNCHANGED <<words, ranging>>
            BY <1>13, <2>5 DEF RangeStep, InRange
        <3>2. i' \in Unsigned /\ (to # CpuMod - 1 => i' = i + 1)
            <4>1. i + 1 <= CpuMod
                BY <1>7, <2>1
            <4>2. CASE i + 1 = CpuMod
                <5>1. i' = 0
                    BY <1>7, <3>1, <4>2
                <5>2. to = CpuMod - 1
                    BY <1>7, <2>1, <3>1, <4>2
                <5>. QED BY <1>7, <5>1, <5>2 DEF Unsigned
            <4>3. CASE i + 1 < CpuMod
                <5>1. i' = i + 1
                    BY <1>7, <2>1, <3>1, <4>3
                <5>. QED BY <1>7, <2>1, <4>3, <5>1 DEF Unsigned
            <4>. QED BY <1>7, <2>1, <4>1, <4>2, <4>3
        <3>3. Section' = Section
            BY <3>1 DEF Section
        <3>4. ReadUpTo(w, k)'
            BY <1>4, <2>1, <3>1 DEF ReadUpTo
        <3>5. RangeIsThere'
            BY <1>3, <2>1, <2>2, <2>3, <3>1, <3>2, <3>3 DEF RangeIsThere
        <3>6. CASE /\ thrown' = TRUE /\ list' = list
                   /\ words[1].list \in ListNames /\ i >= MAX_CPUS
            <4>1. ~ Representable
                <5>1. CASE to = CpuMod - 1
                    BY <1>5, <2>2, <5>1 DEF Representable
                <5>2. CASE to # CpuMod - 1
                    <6>1. i \in CpusOf(Section)
                        BY <2>1, <2>2, <2>3, <2>4, <3>1, <5>2
                    <6>. QED BY <1>2, <1>3, <1>4, <2>3, <3>6, <6>1, ThrownForACpu
                <5>. QED BY <5>1, <5>2
            <4>2. CpuTypes'
                BY <1>2, <1>3, <2>1, <3>1, <3>2, <3>6 DEF CpuTypes
            <4>. QED BY <1>3, <3>6, <4>1, <4>2, GivenStays DEF CpuInv
        <3>7. CASE /\ thrown' = FALSE /\ list' \in [Lists -> SUBSET Unsigned]
                   /\ \A l \in Lists :
                        list'[l] = list[l] \cup (IF words[1].list = l THEN {i} ELSE {})
            <4>1. CpuTypes'
                BY <1>2, <2>1, <3>1, <3>2, <3>7 DEF CpuTypes
            <4>2. to # CpuMod - 1 => ListsHold(w, k)'
                <5>. SUFFICES ASSUME to # CpuMod - 1 PROVE ListsHold(w, k)'
                    OBVIOUS
                <5>1. Section.first..(i' - 1) = (Section.first..(i - 1)) \cup {i}
                    BY <2>1, <2>2, <2>3, <3>2
                <5>2. \A l \in Lists : NamedBefore(w, k, l)' = NamedBefore(w, k, l)
                    BY <2>1 DEF NamedBefore
                <5>3. \A l \in Lists :
                        Passed(l)' = Passed(l) \cup (IF words[1].list = l THEN {i} ELSE {})
                    BY <2>1, <3>1, <3>3, <5>1 DEF Passed
                <5>4. \A l \in Lists : list[l] = NamedBefore(w, k, l) \cup Passed(l)
                    BY <1>4 DEF ListsHold
                <5>. QED BY <3>7, <5>2, <5>3, <5>4 DEF ListsHold
            <4>. QED BY <2>1, <3>1, <3>4, <3>5, <3>7, <4>1, <4>2 DEF CpuInv
        <3>. QED BY <1>2, <1>5, <2>1, <3>1, <3>6, <3>7, CallFacts
    <2>6. CASE ~ InRange
        <3>1. /\ i > to /\ ranging' = FALSE /\ NextSection /\ UNCHANGED <<i, list, thrown>>
            BY <1>13, <2>1, <2>6 DEF RangeStep, InRange
        <3>2. to # CpuMod - 1
            BY <1>7, <2>1, <3>1
        <3>3. Section.first..(i - 1) = Section.first..to
            BY <2>1, <2>2, <2>3, <3>1, <3>2
        <3>4. \A l \in Lists :
                list'[l] = NamedBefore(w, k, l)
                            \cup (IF words[1].list = l THEN CpusOf(Section) ELSE {})
            BY <1>4, <2>1, <2>4, <3>1, <3>2, <3>3 DEF ListsHold, Passed
        <3>5. /\ i' \in Unsigned /\ to' \in Unsigned /\ thrown' = FALSE
              /\ list' \in [Lists -> SUBSET Unsigned]
            BY <1>2, <2>1, <3>1 DEF CpuTypes
        <3>. QED BY <1>2, <1>3, <1>4, <2>1, <2>3, <3>1, <3>4, <3>5, SectionDone
    <2>. QED BY <2>5, <2>6
<1>. QED BY <1>9, <1>10, <1>11, <1>12, <1>13 DEF CpuNext

\* Of any text, with any width of unsigned and any bitsets: what was read to its end
\* is exact, and a bitset throws only of a text that names a cpu it has no room for or
\* a range that never ends (process_cpu_list.h:6-52, platform.cpp:171-230).
THEOREM CpuListsExact == CpuSpec => []ListsAreExact
<1>1. CpuInv => ListsAreExact
    <2>. SUFFICES ASSUME CpuInv PROVE ListsAreExact
        OBVIOUS
    <2>1. ASSUME words = <<>>, ~ thrown PROVE \A l \in DOMAIN list : list[l] = Listed(l)
        <3>1. PICK w \in Nat, k \in Nat : ReadUpTo(w, k) /\ ListsHold(w, k)
            BY <2>1 DEF CpuInv, RangeIsThere
        <3>2. ~ ranging /\ DOMAIN list = Lists /\ given \in Seq(Words)
            BY <2>1 DEF CpuInv, RangeIsThere, CpuTypes
        <3>3. w = Len(given) + 1
            BY <2>1, <3>1, <3>2 DEF ReadUpTo
        <3>4. w \notin DOMAIN given /\ \A v \in DOMAIN given : v < w
            BY <3>2, <3>3
        <3>5. \A v \in DOMAIN given : \A cpu \in MeantBy(given[v].sections) : cpu \in Unsigned
            <4>1. ASSUME NEW v \in DOMAIN given, NEW n \in DOMAIN given[v].sections
                  PROVE  CpusOf(given[v].sections[n]) \subseteq Unsigned
                <5>1. given[v].sections[n] \in Sections
                    BY <3>2, WordFacts
                <5>. QED BY <5>1, SectionFacts
            <4>. QED BY <4>1 DEF MeantBy
        <3>6. \A l \in Lists : NamedBefore(w, k, l) = Listed(l)
            BY <3>4, <3>5 DEF NamedBefore, Listed
        <3>. QED BY <3>1, <3>2, <3>6 DEF ListsHold, Passed
    <2>. QED BY <2>1 DEF ListsAreExact, CpuInv
<1>. QED BY <1>1, CpuStart, CpuStep, PTL DEF CpuSpec
-----------------------------------------------------------------------------
(***************************************************************************)
(* LogEvent.  The buffer: the copies lie one behind the other, behind the  *)
(* tuple, and stay as they were written; what was truncated does not fit   *)
(* later either, for the room only shrinks.  The printing: what is printed *)
(* is the pattern up to "from" with its placeholders filled, and, when the *)
(* pattern has come to its end before the arguments, those without one.    *)
(***************************************************************************)
Outputs ==
    Letters \cup {[arg |-> a] : a \in Arguments} \cup {[truncated |-> a] : a \in Arguments}
        \cup {[bytes |-> [b \in 1..args[a] |-> a]] : a \in Arguments}

EventTypes ==
    /\ place \in {"pack", "live", "printed", "clean"}
    /\ format_expr \in Seq(Letters)
    /\ args \in Seq(TextSizes \cup {Scalar})
    /\ unpacked \subseteq Arguments
    /\ views \in [Arguments -> Nat \cup {Truncated}]
    /\ DOMAIN buffer = 0..(BufferSize - 1)
    /\ TupleSize(args) \in Nat /\ extra \in Nat
    /\ TupleSize(args) <= extra /\ extra <= BufferSize
    /\ printed \in Seq(Outputs)

IsCopied(a) ==
    \/ views[a] = Truncated /\ args[a] > BufferSize - extra
    \/ /\ views[a] \in Nat /\ TupleSize(args) <= views[a] /\ views[a] + args[a] <= extra
       /\ \A b \in views[a]..(views[a] + args[a] - 1) : buffer[b] = a

CopiesAreWhole ==
    /\ \A a \in Arguments \ unpacked : args[a] # Scalar => IsCopied(a)
    /\ \A a \in unpacked : views[a] = Truncated

NothingPrinted == from = 1 /\ count = 0 /\ printed = <<>>

PrintedSoFar ==
    /\ from \in 1..(Len(format_expr) + 1) /\ count \in 0..Len(args)
    /\ HolesUpTo(from - 1) <= count
    /\ HolesUpTo(from - 1) < count => from = Len(format_expr) + 1
    /\ Len(printed) = (from - 1) + (count - HolesUpTo(from - 1))
    /\ \A p \in 1..(from - 1) :
        IF format_expr[p] = Hole THEN IsWhole(HolesUpTo(p), printed[p])
        ELSE printed[p] = format_expr[p]
    /\ \A a \in (HolesUpTo(from - 1) + 1)..count :
        IsWhole(a, printed[(from - 1) + (a - HolesUpTo(from - 1))])

EventInv ==
    /\ EventTypes
    /\ CopiesAreWhole
    /\ place \in {"live", "printed"} => unpacked = {}
    /\ place = "pack" => NothingPrinted
    /\ place = "live" => PrintedSoFar
    /\ PrintsWhatWasLogged

\* Counting placeholders.
LEMMA HoleFacts ==
    ASSUME format_expr \in Seq(Letters)
    PROVE  /\ HolesUpTo(0) = 0
           /\ \A p \in 0..Len(format_expr) : HolesUpTo(p) \in Nat
           /\ \A p \in 1..Len(format_expr) :
                HolesUpTo(p) = HolesUpTo(p - 1) + (IF format_expr[p] = Hole THEN 1 ELSE 0)
           /\ \A p, q \in 0..Len(format_expr) : p <= q => HolesUpTo(p) <= HolesUpTo(q)
           /\ \A p, q \in 0..Len(format_expr) :
                p <= q /\ (\A r \in (p + 1)..q : format_expr[r] # Hole)
                    => HolesUpTo(q) = HolesUpTo(p)
<1>. DEFINE holes(p) == {q \in 1..p : format_expr[q] = Hole}
<1>1. Len(format_expr) \in Nat
    OBVIOUS
<1>2. \A p \in 0..Len(format_expr) : IsFiniteSet(holes(p)) /\ Cardinality(holes(p)) \in Nat
    <2>. SUFFICES ASSUME NEW p \in 0..Len(format_expr)
                  PROVE  IsFiniteSet(holes(p)) /\ Cardinality(holes(p)) \in Nat
        OBVIOUS
    <2>1. 1 \in Int /\ p \in Int
        OBVIOUS
    <2>2. IsFiniteSet(1..p)
        BY <2>1, FS_Interval
    <2>3. holes(p) \in SUBSET (1..p)
        OBVIOUS
    <2>4. IsFiniteSet(holes(p))
        BY <2>2, <2>3, FS_Subset
    <2>. QED BY <2>4, FS_CardinalityType
<1>3. \A p : HolesUpTo(p) = Cardinality(holes(p))
    BY DEF HolesUpTo
<1>4. holes(0) = {}
    OBVIOUS
<1>5. ASSUME NEW p \in 1..Len(format_expr)
      PROVE  HolesUpTo(p) = HolesUpTo(p - 1) + (IF format_expr[p] = Hole THEN 1 ELSE 0)
    <2>1. p - 1 \in 0..Len(format_expr) /\ 1..p = (1..(p - 1)) \cup {p} /\ p \notin 1..(p - 1)
        BY <1>1
    <2>2. CASE format_expr[p] = Hole
        <3>1. holes(p) = holes(p - 1) \cup {p} /\ p \notin holes(p - 1)
            BY <2>1, <2>2
        <3>. QED BY <1>2, <1>3, <2>1, <2>2, <3>1, FS_AddElement
    <2>3. CASE format_expr[p] # Hole
        <3>1. holes(p) = holes(p - 1)
            BY <2>1, <2>3
        <3>2. HolesUpTo(p - 1) \in Nat
            BY <1>2, <1>3, <2>1
        <3>3. HolesUpTo(p) = HolesUpTo(p - 1)
            BY <1>3, <3>1
        <3>. QED BY <2>3, <3>2, <3>3
    <2>. QED BY <2>2, <2>3
<1>6. ASSUME NEW p \in 0..Len(format_expr), NEW q \in 0..Len(format_expr), p <= q
      PROVE  HolesUpTo(p) <= HolesUpTo(q)
    <2>1. holes(p) \in SUBSET holes(q)
        BY <1>6
    <2>2. IsFiniteSet(holes(q))
        BY <1>2
    <2>3. Cardinality(holes(p)) <= Cardinality(holes(q))
        BY <2>1, <2>2, FS_Subset
    <2>. QED BY <1>3, <2>3
<1>7. ASSUME NEW p \in 0..Len(format_expr), NEW q \in 0..Len(format_expr), p <= q,
             \A r \in (p + 1)..q : format_expr[r] # Hole
      PROVE  HolesUpTo(q) = HolesUpTo(p)
    <2>1. \A r \in 1..q : r \in 1..p \/ r \in (p + 1)..q
        BY <1>7
    <2>2. holes(q) = holes(p)
        BY <1>7, <2>1
    <2>. QED BY <1>3, <2>2
<1>8. HolesUpTo(0) = 0
    BY <1>3, <1>4, FS_EmptySet
<1>9. \A p \in 0..Len(format_expr) : HolesUpTo(p) \in Nat
    BY <1>2, <1>3
<1>. HIDE DEF holes
<1>. QED BY <1>5, <1>6, <1>7, <1>8, <1>9

LEMMA TupleSizeNat ==
    ASSUME args \in Seq(TextSizes \cup {Scalar})
    PROVE  TupleSize(args) \in Nat
<1>. DEFINE texts == {a \in DOMAIN args : args[a] # Scalar}
<1>1. Len(args) \in Nat /\ DOMAIN args = 1..Len(args)
    OBVIOUS
<1>2. IsFiniteSet(1..Len(args)) /\ Cardinality(1..Len(args)) = Len(args)
    <2>1. 1 \in Int /\ Len(args) \in Int
        BY <1>1
    <2>. QED BY <1>1, <2>1, FS_Interval
<1>3. texts \in SUBSET (1..Len(args))
    BY <1>1
<1>4. IsFiniteSet(texts) /\ Cardinality(texts) <= Len(args)
    BY <1>2, <1>3, FS_Subset
<1>5. Cardinality(texts) \in Nat /\ Len(args) - Cardinality(texts) \in Nat
    BY <1>1, <1>4, FS_CardinalityType
<1>6. \A m, n \in Nat : m * n \in Nat
    OBVIOUS
<1>7. Cardinality(texts) * ViewSize \in Nat /\ (Len(args) - Cardinality(texts)) * ScalarSize \in Nat
    BY <1>5, <1>6, EventAssumption
<1>8. TupleSize(args)
        = Cardinality(texts) * ViewSize + (Len(args) - Cardinality(texts)) * ScalarSize
    BY DEF TupleSize
<1>. HIDE DEF texts
<1>. QED BY <1>7, <1>8

LEMMA EventStart == EventInit => EventInv
<1>. SUFFICES ASSUME EventInit PROVE EventInv
    OBVIOUS
<1>1. /\ format_expr \in Seq(Letters) /\ args \in Seq(TextSizes \cup {Scalar})
      /\ TupleSize(args) <= BufferSize
    <2>1. \A S, n : BoundedSeqs(S, n) \subseteq Seq(S)
        <3>. SUFFICES ASSUME NEW S, NEW n, NEW s \in BoundedSeqs(S, n) PROVE s \in Seq(S)
            OBVIOUS
        <3>1. PICK k \in 0..n : s \in [1..k -> S]
            BY DEF BoundedSeqs
        <3>2. k \in Nat
            BY <3>1
        <3>. QED BY <3>1, <3>2
    <2>2. format_expr \in BoundedSeqs(Letters, MaxPattern)
        BY DEF EventInit
    <2>3. args \in BoundedSeqs(TextSizes \cup {Scalar}, MaxArgs) /\ TupleSize(args) <= BufferSize
        BY DEF EventInit
    <2>. QED BY <2>1, <2>2, <2>3
<1>2. TupleSize(args) \in Nat
    BY <1>1, TupleSizeNat
<1>3. DOMAIN buffer = 0..(BufferSize - 1)
    BY DEF EventInit
<1>4. views \in [Arguments -> Nat \cup {Truncated}]
    BY DEF EventInit
<1>5. EventTypes
    BY <1>1, <1>2, <1>3, <1>4 DEF EventInit, EventTypes
<1>. QED BY <1>5 DEF EventInit, EventInv, CopiesAreWhole, NothingPrinted, PrintsWhatWasLogged

\* What an argument is.
LEMMA ArgFacts ==
    ASSUME EventTypes
    PROVE  /\ Len(args) \in Nat /\ Arguments = 1..Len(args)
           /\ \A a \in Arguments : args[a] # Scalar => args[a] \in Nat
<1>1. args \in Seq(TextSizes \cup {Scalar}) /\ TextSizes \subseteq Nat
    BY EventAssumption DEF EventTypes
<1>2. \A a \in DOMAIN args : args[a] \in TextSizes \cup {Scalar}
    BY <1>1
<1>3. Len(args) \in Nat /\ DOMAIN args = 1..Len(args)
    BY <1>1
<1>4. \A a \in DOMAIN args : args[a] # Scalar => args[a] \in TextSizes
    BY <1>2
<1>. QED BY <1>1, <1>3, <1>4 DEF Arguments

LEMMA PackScalarKeeps ==
    ASSUME EventInv, NEW a \in Arguments, PackScalar(a)
    PROVE  EventInv'
<1>1. /\ place = "pack" /\ args[a] = Scalar /\ unpacked' = unpacked \ {a}
      /\ UNCHANGED <<place, format_expr, args, views, buffer, extra, from, count, printed>>
    BY DEF PackScalar, printVars
<1>2. EventTypes'
    BY <1>1 DEF EventInv, EventTypes, Outputs, Arguments, TupleSize
<1>3. CopiesAreWhole'
    <2>1. CopiesAreWhole
        BY DEF EventInv
    <2>2. \A c \in Arguments : IsCopied(c)' <=> IsCopied(c)
        BY <1>1 DEF IsCopied
    <2>3. Arguments' = Arguments
        BY <1>1 DEF Arguments
    <2>. QED BY <1>1, <2>1, <2>2, <2>3 DEF CopiesAreWhole
<1>. QED BY <1>1, <1>2, <1>3 DEF EventInv, NothingPrinted, PrintsWhatWasLogged

LEMMA PackTextKeeps ==
    ASSUME EventInv, NEW a \in Arguments, PackText(a)
    PROVE  EventInv'
<1>1. /\ place = "pack" /\ a \in unpacked /\ args[a] # Scalar /\ unpacked' = unpacked \ {a}
      /\ UNCHANGED <<place, format_expr, args, from, count, printed>>
    BY DEF PackText, printVars
<1>2. args[a] \in Nat
    BY <1>1, ArgFacts DEF EventInv
<1>3. /\ BufferSize \in Nat /\ extra \in Nat /\ extra <= BufferSize
      /\ TupleSize(args) \in Nat /\ TupleSize(args) <= extra
      /\ views \in [Arguments -> Nat \cup {Truncated}] /\ DOMAIN buffer = 0..(BufferSize - 1)
    BY EventAssumption DEF EventInv, EventTypes
<1>4. /\ Arguments' = Arguments /\ Outputs' = Outputs /\ TupleSize(args') = TupleSize(args)
    BY <1>1 DEF Arguments, Outputs
<1>5. \A c \in Arguments \ unpacked : args[c] # Scalar => IsCopied(c) /\ args[c] \in Nat
    BY ArgFacts DEF EventInv, CopiesAreWhole
<1>6. CASE IsEnought(args[a])
    <2>1. /\ views' = [views EXCEPT ![a] = extra] /\ buffer' = Fill(extra, args[a], a)
          /\ extra' = extra + args[a] /\ args[a] <= BufferSize - extra
        BY <1>6 DEF PackText, IsEnought
    <2>2. /\ views' \in [Arguments -> Nat \cup {Truncated}] /\ views'[a] = extra
          /\ \A c \in Arguments : c # a => views'[c] = views[c]
        BY <1>3, <2>1
    <2>3. /\ DOMAIN buffer' = 0..(BufferSize - 1)
          /\ \A b \in 0..(BufferSize - 1) :
                buffer'[b] = IF b \in extra..(extra + args[a] - 1) THEN a ELSE buffer[b]
        BY <1>3, <2>1 DEF Fill
    <2>4. EventTypes'
        BY <1>1, <1>2, <1>3, <1>4, <2>1, <2>2, <2>3 DEF EventInv, EventTypes
    <2>5. IsCopied(a)'
        <3>1. \A b \in extra..(extra + args[a] - 1) : buffer'[b] = a
            BY <1>2, <1>3, <2>1, <2>3
        <3>. QED BY <1>1, <1>2, <1>3, <2>1, <2>2, <3>1 DEF IsCopied
    <2>6. ASSUME NEW c \in Arguments \ unpacked, args[c] # Scalar PROVE IsCopied(c)'
        <3>1. IsCopied(c) /\ args[c] \in Nat /\ c # a
            BY <1>1, <1>5, <2>6
        <3>2. views'[c] = views[c] /\ args' = args
            BY <1>1, <2>2, <3>1
        <3>3. CASE views[c] = Truncated /\ args[c] > BufferSize - extra
            BY <1>2, <1>3, <2>1, <3>1, <3>2, <3>3 DEF IsCopied
        <3>4. CASE /\ views[c] \in Nat /\ TupleSize(args) <= views[c] /\ views[c] + args[c] <= extra
                   /\ \A b \in views[c]..(views[c] + args[c] - 1) : buffer[b] = c
            <4>1. \A b \in views[c]..(views[c] + args[c] - 1) : buffer'[b] = c
                BY <1>2, <1>3, <2>3, <3>1, <3>4
            <4>. QED BY <1>2, <1>3, <2>1, <3>1, <3>2, <3>4, <4>1 DEF IsCopied
        <3>. QED BY <3>1, <3>3, <3>4 DEF IsCopied
    <2>7. \A c \in unpacked \ {a} : views'[c] = Truncated
        BY <2>2 DEF EventInv, EventTypes, CopiesAreWhole
    <2>8. CopiesAreWhole'
        BY <1>1, <1>4, <2>2, <2>5, <2>6, <2>7 DEF CopiesAreWhole
    <2>. QED BY <1>1, <2>4, <2>8 DEF EventInv, NothingPrinted, PrintsWhatWasLogged
<1>7. CASE ~ IsEnought(args[a])
    <2>1. UNCHANGED <<views, buffer, extra>> /\ args[a] > BufferSize - extra
        BY <1>2, <1>3, <1>7 DEF PackText, IsEnought
    <2>2. EventTypes'
        BY <1>1, <1>4, <2>1 DEF EventInv, EventTypes
    <2>3. \A c \in unpacked : views[c] = Truncated
        BY DEF EventInv, CopiesAreWhole
    <2>4. CopiesAreWhole'
        BY <1>1, <1>4, <1>5, <2>1, <2>3 DEF CopiesAreWhole, IsCopied
    <2>. QED BY <1>1, <2>2, <2>4 DEF EventInv, NothingPrinted, PrintsWhatWasLogged
<1>. QED BY <1>6, <1>7

LEMMA ConstructTupleKeeps ==
    ASSUME EventInv, ConstructTuple
    PROVE  EventInv'
<1>1. /\ place = "pack" /\ unpacked = {} /\ place' = "live"
      /\ buffer' = Fill(0, TupleSize(args), TupleByte)
      /\ UNCHANGED <<format_expr, args, unpacked, views, extra, from, count, printed>>
    BY DEF ConstructTuple, printVars
<1>2. EventTypes /\ NothingPrinted /\ CopiesAreWhole
    BY <1>1 DEF EventInv
<1>3. /\ Arguments' = Arguments /\ Outputs' = Outputs /\ TupleSize(args') = TupleSize(args)
    BY <1>1 DEF Arguments, Outputs
<1>4. /\ BufferSize \in Nat /\ TupleSize(args) \in Nat /\ extra \in Nat /\ extra <= BufferSize
      /\ DOMAIN buffer = 0..(BufferSize - 1)
    BY <1>2, EventAssumption DEF EventTypes
<1>5. /\ DOMAIN buffer' = DOMAIN buffer
      /\ \A b \in DOMAIN buffer : b >= TupleSize(args) => buffer'[b] = buffer[b]
    BY <1>1, <1>4 DEF Fill
<1>6. EventTypes'
    BY <1>1, <1>2, <1>3, <1>4, <1>5 DEF EventTypes
<1>7. ASSUME NEW a \in Arguments, args[a] # Scalar PROVE IsCopied(a)'
    <2>1. IsCopied(a) /\ args[a] \in Nat
        BY <1>1, <1>2, <1>7, ArgFacts DEF CopiesAreWhole
    <2>2. CASE views[a] = Truncated /\ args[a] > BufferSize - extra
        BY <1>1, <2>2 DEF IsCopied
    <2>3. CASE /\ views[a] \in Nat /\ TupleSize(args) <= views[a] /\ views[a] + args[a] <= extra
               /\ \A b \in views[a]..(views[a] + args[a] - 1) : buffer[b] = a
        <3>1. ASSUME NEW b \in views[a]..(views[a] + args[a] - 1) PROVE buffer'[b] = a
            <4>1. b \in 0..(BufferSize - 1) /\ b >= TupleSize(args)
                BY <1>4, <2>1, <2>3
            <4>. QED BY <1>4, <1>5, <2>3, <4>1
        <3>. QED BY <1>1, <1>3, <2>3, <3>1 DEF IsCopied
    <2>. QED BY <2>1, <2>2, <2>3 DEF IsCopied
<1>8. CopiesAreWhole'
    BY <1>1, <1>3, <1>7 DEF CopiesAreWhole
<1>9. PrintedSoFar'
    <2>1. HolesUpTo(0) = 0 /\ Len(format_expr) \in Nat /\ Len(args) \in Nat
        BY <1>2, HoleFacts, ArgFacts DEF EventTypes
    <2>2. from' = 1 /\ count' = 0 /\ printed' = <<>> /\ from' - 1 = 0
        BY <1>1, <1>2 DEF NothingPrinted
    <2>3. HolesUpTo(from - 1)' = 0
        BY <1>1, <2>1, <2>2 DEF HolesUpTo
    <2>4. 1..(from' - 1) = {} /\ (0 + 1)..count' = {}
        BY <2>2
    <2>. QED BY <1>1, <2>1, <2>2, <2>3, <2>4 DEF PrintedSoFar
<1>. QED BY <1>1, <1>6, <1>8, <1>9 DEF EventInv, PrintsWhatWasLogged

\* What the tuple streams is the argument.
LEMMA StreamedIsWhole ==
    ASSUME EventTypes, CopiesAreWhole, unpacked = {}, NEW a \in Arguments
    PROVE  IsWhole(a, Streamed(a)) /\ Streamed(a) \in Outputs
<1>1. CASE args[a] = Scalar
    BY <1>1 DEF IsWhole, Streamed, Outputs
<1>2. CASE args[a] # Scalar
    <2>1. IsCopied(a) /\ args[a] \in Nat /\ BufferSize \in Nat /\ extra <= BufferSize
          /\ extra \in Nat /\ TupleSize(args) \in Nat
        BY <1>2, ArgFacts, EventAssumption DEF CopiesAreWhole, EventTypes
    <2>2. CASE views[a] = Truncated /\ args[a] > BufferSize - extra
        BY <1>2, <2>2 DEF IsWhole, Streamed, Outputs
    <2>3. CASE /\ views[a] \in Nat /\ TupleSize(args) <= views[a] /\ views[a] + args[a] <= extra
               /\ \A b \in views[a]..(views[a] + args[a] - 1) : buffer[b] = a
        <3>1. \A b \in 1..args[a] : Byte(views[a] + b - 1) = a
            BY <2>1, <2>3 DEF Byte
        <3>2. [b \in 1..args[a] |-> Byte(views[a] + b - 1)] = [b \in 1..args[a] |-> a]
            BY <3>1
        <3>3. views[a] # Truncated
            BY <2>3 DEF Truncated
        <3>4. Streamed(a) = [bytes |-> [b \in 1..args[a] |-> a]]
            BY <1>2, <3>2, <3>3 DEF Streamed
        <3>. QED BY <1>2, <3>4 DEF IsWhole, Outputs
    <2>. QED BY <2>1, <2>2, <2>3 DEF IsCopied
<1>. QED BY <1>1, <1>2

\* A piece of the pattern.
LEMMA PieceFacts ==
    ASSUME EventTypes, NEW m \in 1..(Len(format_expr) + 1), NEW p \in (m - 1)..Len(format_expr)
    PROVE  LET piece == SubSeq(format_expr, m, p)
           IN  /\ piece \in Seq(Outputs) /\ Len(piece) = p - m + 1
               /\ \A j \in 1..(p - m + 1) : piece[j] = format_expr[m + j - 1]
<1>1. format_expr \in Seq(Letters) /\ Len(format_expr) \in Nat
    BY DEF EventTypes
<1>2. \A j \in m..p : format_expr[j] \in Outputs
    <2>1. \A j \in m..p : j \in DOMAIN format_expr
        BY <1>1
    <2>2. \A j \in DOMAIN format_expr : format_expr[j] \in Letters
        BY <1>1
    <2>. QED BY <2>1, <2>2 DEF Outputs
<1>3. m \in Int /\ p \in Int /\ (m <= p \/ p - m + 1 = 0)
    BY <1>1
<1>. QED BY <1>2, <1>3, SubSeqProperties

\* Room for the rest of the pattern and one argument more.
LEMMA LengthAfter ==
    ASSUME NEW f \in Nat, NEW l \in Nat, NEW c \in Nat, NEW k \in Nat
    PROVE  (f - 1) + (c - k) + ((l + 1) - f + 1) = l + ((c + 1) - k)
OBVIOUS

LEMMA PrintArgKeeps ==
    ASSUME EventInv, PrintArg
    PROVE  EventInv'
<1>1. /\ place = "live" /\ count < Len(args) /\ count' = count + 1
      /\ UNCHANGED <<place, format_expr, args, unpacked, views, buffer, extra>>
    BY DEF PrintArg
<1>2. PICK p \in from..(Len(format_expr) + 1) :
        /\ NextHole(p)
        /\ printed' = printed \o Append(SubSeq(format_expr, from, p - 1), Streamed(count + 1))
        /\ from' = IF p <= Len(format_expr) THEN p + 1 ELSE p
    BY DEF PrintArg
<1>3. EventTypes /\ CopiesAreWhole /\ unpacked = {} /\ PrintedSoFar
    BY <1>1 DEF EventInv
<1>. DEFINE len == Len(format_expr)
            piece == SubSeq(format_expr, from, p - 1)
            out == Streamed(count + 1)
            tail == Append(piece, out)
            h == HolesUpTo(from - 1)
<1>4. /\ len \in Nat /\ from \in 1..(len + 1) /\ count \in Nat /\ printed \in Seq(Outputs)
      /\ Len(args) \in Nat /\ count + 1 \in Arguments /\ format_expr \in Seq(Letters)
    BY <1>1, <1>3, ArgFacts DEF EventTypes, PrintedSoFar
<1>5. h \in Nat /\ h <= count /\ (h < count => from = len + 1)
      /\ Len(printed) = (from - 1) + (count - h)
    BY <1>3, <1>4, HoleFacts DEF PrintedSoFar
<1>6. /\ piece \in Seq(Outputs) /\ Len(piece) = p - from
      /\ \A j \in 1..(p - from) : piece[j] = format_expr[from + j - 1]
    <2>1. p - 1 \in (from - 1)..Len(format_expr) /\ (p - 1) - from + 1 = p - from
        BY <1>2, <1>4
    <2>. QED BY <1>3, <1>4, <2>1, PieceFacts
<1>7. IsWhole(count + 1, out) /\ out \in Outputs
    BY <1>3, <1>4, StreamedIsWhole
<1>. HIDE DEF piece, out
<1>8. /\ tail \in Seq(Outputs) /\ Len(tail) = p - from + 1 /\ tail[p - from + 1] = out
      /\ \A j \in 1..(p - from) : tail[j] = format_expr[from + j - 1]
    <2>1. p - from \in Nat /\ (p - from) + 1 = p - from + 1
        BY <1>2, <1>4
    <2>. QED BY <1>6, <1>7, <2>1, AppendProperties
<1>. HIDE DEF tail
<1>9. /\ printed' \in Seq(Outputs) /\ Len(printed') = Len(printed) + (p - from + 1)
      /\ \A j \in 1..Len(printed) : printed'[j] = printed[j]
      /\ \A j \in 1..(p - from + 1) : printed'[Len(printed) + j] = tail[j]
    <2>1. printed' = printed \o tail
        BY <1>2 DEF tail, piece, out
    <2>2. p - from + 1 \in Nat /\ Len(printed) \in Nat
        BY <1>2, <1>4
    <2>3. /\ printed' \in Seq(Outputs) /\ Len(printed') = Len(printed) + Len(tail)
          /\ \A j \in 1..(Len(printed) + Len(tail)) :
                printed'[j] = IF j <= Len(printed) THEN printed[j] ELSE tail[j - Len(printed)]
        BY <1>4, <1>8, <2>1, ConcatProperties
    <2>4. \A j \in 1..Len(printed) : j \in 1..(Len(printed) + (p - from + 1)) /\ j <= Len(printed)
        BY <2>2
    <2>5. \A j \in 1..(p - from + 1) :
            /\ Len(printed) + j \in 1..(Len(printed) + (p - from + 1))
            /\ ~ (Len(printed) + j <= Len(printed)) /\ (Len(printed) + j) - Len(printed) = j
        BY <2>2
    <2>6. \A j \in 1..Len(printed) : printed'[j] = printed[j]
        BY <1>8, <2>3, <2>4
    <2>7. \A j \in 1..(p - from + 1) : printed'[Len(printed) + j] = tail[j]
        BY <1>8, <2>3, <2>5
    <2>. QED BY <1>8, <2>3, <2>6, <2>7
<1>10. EventTypes'
    BY <1>1, <1>3, <1>9 DEF EventTypes, Outputs, Arguments
<1>11. CopiesAreWhole'
    BY <1>1, <1>3 DEF CopiesAreWhole, IsCopied, Arguments
<1>12. /\ \A q : HolesUpTo(q)' = HolesUpTo(q)
       /\ \A a, o : IsWhole(a, o)' <=> IsWhole(a, o)
    BY <1>1 DEF HolesUpTo, IsWhole
<1>. DEFINE w2 == from' - 1
<1>13. /\ from' \in 1..(len + 1) /\ w2 \in 0..len /\ from - 1 <= p - 1 /\ p - 1 \in 0..len
       /\ from - 1 \in 0..len
    BY <1>2, <1>4
<1>14. HolesUpTo(p - 1) = h
    <2>1. \A r \in ((from - 1) + 1)..(p - 1) : format_expr[r] # Hole
        BY <1>2, <1>4 DEF NextHole
    <2>. QED BY <1>4, <1>13, <2>1, HoleFacts
<1>15. CASE p <= len
    <2>1. /\ h = count /\ from' = p + 1 /\ p \in 1..len /\ format_expr[p] = Hole
          /\ Len(printed) = from - 1 /\ p \in Nat
        BY <1>2, <1>4, <1>5, <1>15 DEF NextHole
    <2>2. HolesUpTo(p) = count + 1
        BY <1>4, <1>14, <2>1, HoleFacts
    <2>3. Len(printed') = p
        BY <1>4, <1>9, <2>1
    <2>4. ASSUME NEW q \in 1..p
          PROVE  IF format_expr[q] = Hole THEN IsWhole(HolesUpTo(q), printed'[q])
                 ELSE printed'[q] = format_expr[q]
        <3>1. CASE q <= from - 1
            <4>1. q \in 1..(from - 1) /\ printed'[q] = printed[q]
                BY <1>4, <1>9, <2>1, <3>1
            <4>. QED BY <1>3, <4>1 DEF PrintedSoFar
        <3>2. CASE q > from - 1 /\ q < p
            <4>1. q - (from - 1) \in 1..(p - from) /\ (from - 1) + (q - (from - 1)) = q
                  /\ from + (q - (from - 1)) - 1 = q
                BY <1>4, <2>1, <3>2
            <4>2. q - (from - 1) \in 1..(p - from + 1)
                BY <1>4, <2>1, <4>1
            <4>3. printed'[q] = tail[q - (from - 1)]
                BY <1>9, <2>1, <4>1, <4>2
            <4>4. printed'[q] = format_expr[q]
                BY <1>8, <4>1, <4>3
            <4>5. format_expr[q] # Hole
                BY <1>2, <1>4, <2>1, <3>2 DEF NextHole
            <4>. QED BY <4>4, <4>5
        <3>3. CASE q = p
            <4>1. p - from + 1 \in 1..(p - from + 1) /\ (from - 1) + (p - from + 1) = p
                BY <1>2, <1>4, <2>1
            <4>2. printed'[p] = out
                BY <1>8, <1>9, <2>1, <4>1
            <4>. QED BY <1>7, <2>1, <2>2, <3>3, <4>2
        <3>. QED BY <1>4, <2>1, <3>1, <3>2, <3>3
    <2>5. w2 = p
        BY <2>1
    <2>6. (HolesUpTo(w2) + 1)..count' = {}
        BY <1>1, <1>4, <2>2, <2>5
    <2>7. count' \in 0..Len(args')
        BY <1>1, <1>4
    <2>8. PrintedSoFar'
        BY <1>1, <1>4, <1>12, <1>13, <2>1, <2>2, <2>3, <2>4, <2>5, <2>6, <2>7 DEF PrintedSoFar
    <2>. QED BY <1>1, <1>3, <1>10, <1>11, <2>8 DEF EventInv, PrintsWhatWasLogged
<1>16. CASE p > len
    <2>1. p = len + 1 /\ from' = len + 1 /\ w2 = len /\ HolesUpTo(len) = h
        <3>1. p = len + 1 /\ from' = len + 1 /\ w2 = len /\ p - 1 = len
            BY <1>2, <1>4, <1>16
        <3>. QED BY <1>14, <3>1
    <2>2. Len(printed') = len + (count + 1 - h)
        <3>1. Len(printed') = (from - 1) + (count - h) + ((len + 1) - from + 1)
            BY <1>5, <1>9, <2>1
        <3>2. /\ from \in Nat /\ count \in Nat /\ len \in Nat /\ h \in Nat
            BY <1>4, <1>5
        <3>. QED BY <3>1, <3>2
    <2>3. ASSUME NEW q \in 1..len
          PROVE  IF format_expr[q] = Hole THEN IsWhole(HolesUpTo(q), printed'[q])
                 ELSE printed'[q] = format_expr[q]
        <3>1. CASE q <= from - 1
            <4>1. q \in 1..(from - 1) /\ printed'[q] = printed[q]
                <5>1. q \in 1..(from - 1) /\ q \in 1..Len(printed)
                    BY <1>4, <1>5, <3>1
                <5>. QED BY <1>9, <5>1
            <4>. QED BY <1>3, <4>1 DEF PrintedSoFar
        <3>2. CASE q > from - 1
            <4>1. h = count /\ Len(printed) = from - 1
                BY <1>4, <1>5, <3>2
            <4>2. q - (from - 1) \in 1..(p - from) /\ (from - 1) + (q - (from - 1)) = q
                  /\ from + (q - (from - 1)) - 1 = q
                BY <1>4, <2>1, <3>2
            <4>3. q - (from - 1) \in 1..(p - from + 1)
                BY <1>4, <2>1, <4>2
            <4>4. printed'[q] = tail[q - (from - 1)]
                BY <1>9, <4>1, <4>2, <4>3
            <4>5. printed'[q] = format_expr[q]
                BY <1>8, <4>2, <4>4
            <4>6. format_expr[q] # Hole
                BY <1>2, <1>4, <2>1, <3>2 DEF NextHole
            <4>. QED BY <4>5, <4>6
        <3>. QED BY <1>4, <3>1, <3>2
    <2>4. ASSUME NEW a \in (h + 1)..(count + 1)
          PROVE  IsWhole(a, printed'[len + (a - h)])
        <3>1. CASE a <= count
            <4>1. from = len + 1 /\ a \in (h + 1)..count
                BY <1>4, <1>5, <2>4, <3>1
            <4>2. IsWhole(a, printed[len + (a - h)])
                BY <1>3, <1>4, <4>1 DEF PrintedSoFar
            <4>3. len + (a - h) \in 1..Len(printed)
                BY <1>4, <1>5, <4>1
            <4>. QED BY <1>9, <4>2, <4>3
        <3>2. CASE a = count + 1
            <4>1. /\ p - from + 1 \in 1..(p - from + 1)
                  /\ Len(printed) + (p - from + 1) = len + (a - h)
                <5>1. Len(printed) = (from - 1) + (count - h) /\ from \in Nat /\ h \in Nat
                    BY <1>4, <1>5
                <5>2. p = len + 1 /\ a = count + 1 /\ p - from + 1 >= 1
                    BY <1>2, <1>4, <2>1, <3>2
                <5>3. p - from + 1 \in 1..(p - from + 1)
                    BY <1>4, <5>1, <5>2
                <5>4. Len(printed) + (p - from + 1) = (from - 1) + (count - h) + ((len + 1) - from + 1)
                    BY <5>1, <5>2
                <5>5. Len(printed) + (p - from + 1) = len + ((count + 1) - h)
                    <6>1. len \in Nat /\ from \in Nat /\ count \in Nat /\ h \in Nat
                        BY <1>4, <5>1
                    <6>2. (from - 1) + (count - h) + ((len + 1) - from + 1)
                                = len + ((count + 1) - h)
                        BY ONLY <6>1, LengthAfter
                    <6>. QED BY <5>4, <6>2
                <5>. QED BY <5>2, <5>3, <5>5
            <4>2. printed'[len + (a - h)] = out
                BY <1>8, <1>9, <4>1
            <4>. QED BY <1>7, <3>2, <4>2
        <3>. QED BY <1>4, <1>5, <3>1, <3>2
    <2>5. count' \in 0..Len(args')
        BY <1>1, <1>4
    <2>6. PrintedSoFar'
        <3>1. HolesUpTo(from' - 1) = h
            BY <2>1
        <3>2. HolesUpTo(from - 1)' = h
            BY <1>12, <3>1
        <3>3. from' \in 1..(Len(format_expr') + 1) /\ h <= count'
            BY <1>1, <1>4, <1>5, <1>13
        <3>4. \A q \in 1..(from' - 1) :
                IF format_expr'[q] = Hole THEN IsWhole(HolesUpTo(q), printed[q])'
                ELSE printed'[q] = format_expr'[q]
            BY <1>1, <1>12, <2>1, <2>3
        <3>5. \A a \in (h + 1)..count' : IsWhole(a, printed[(from - 1) + (a - h)])'
            BY <1>1, <1>12, <2>1, <2>4
        <3>6. Len(printed') = (from' - 1) + (count' - h)
            BY <1>1, <1>4, <1>5, <2>1, <2>2
        <3>. QED BY <1>1, <2>1, <2>5, <3>2, <3>3, <3>4, <3>5, <3>6 DEF PrintedSoFar
    <2>. QED BY <1>1, <1>3, <1>10, <1>11, <2>6 DEF EventInv, PrintsWhatWasLogged
<1>. QED BY <1>2, <1>4, <1>15, <1>16

LEMMA PrintTailKeeps ==
    ASSUME EventInv, PrintTail
    PROVE  EventInv'
<1>1. /\ place = "live" /\ count = Len(args) /\ place' = "printed"
      /\ printed' = printed \o SubSeq(format_expr, from, Len(format_expr))
      /\ UNCHANGED <<format_expr, args, unpacked, views, buffer, extra, from, count>>
    BY DEF PrintTail
<1>2. EventTypes /\ CopiesAreWhole /\ unpacked = {} /\ PrintedSoFar
    BY <1>1 DEF EventInv
<1>. DEFINE len == Len(format_expr)
            piece == SubSeq(format_expr, from, len)
            h == HolesUpTo(from - 1)
            holes == HolesUpTo(len)
<1>3. /\ len \in Nat /\ from \in 1..(len + 1) /\ count \in Nat /\ printed \in Seq(Outputs)
      /\ format_expr \in Seq(Letters) /\ DOMAIN format_expr = 1..len
    BY <1>1, <1>2, ArgFacts DEF EventTypes, PrintedSoFar
<1>4. h \in Nat /\ h <= count /\ (h < count => from = len + 1)
      /\ Len(printed) = (from - 1) + (count - h) /\ holes \in Nat
    BY <1>2, <1>3, HoleFacts DEF PrintedSoFar
<1>5. /\ piece \in Seq(Outputs) /\ Len(piece) = len - from + 1
      /\ \A j \in 1..(len - from + 1) : piece[j] = format_expr[from + j - 1]
    <2>1. len \in (from - 1)..Len(format_expr)
        BY <1>3
    <2>. QED BY <1>2, <1>3, <2>1, PieceFacts
<1>. HIDE DEF piece
<1>6. /\ printed' \in Seq(Outputs) /\ Len(printed') = Len(printed) + (len - from + 1)
      /\ \A j \in 1..(Len(printed) + (len - from + 1)) :
            printed'[j] = IF j <= Len(printed) THEN printed[j] ELSE piece[j - Len(printed)]
    <2>1. printed' = printed \o piece
        BY <1>1 DEF piece
    <2>2. /\ printed' \in Seq(Outputs) /\ Len(printed') = Len(printed) + Len(piece)
          /\ \A j \in 1..(Len(printed) + Len(piece)) :
                printed'[j] = IF j <= Len(printed) THEN printed[j] ELSE piece[j - Len(printed)]
        BY <1>3, <1>5, <2>1, ConcatProperties
    <2>. QED BY <1>5, <2>2
<1>7. EventTypes'
    BY <1>1, <1>2, <1>6 DEF EventTypes, Outputs, Arguments
<1>8. CopiesAreWhole'
    BY <1>1, <1>2 DEF CopiesAreWhole, IsCopied, Arguments
<1>9. /\ \A q : HolesUpTo(q)' = HolesUpTo(q)
      /\ \A a, o : IsWhole(a, o)' <=> IsWhole(a, o)
    BY <1>1 DEF HolesUpTo, IsWhole
<1>10. h <= holes /\ (from = len + 1 => h = holes)
    <2>1. from - 1 \in 0..len /\ len \in 0..len /\ from - 1 <= len
        BY <1>3
    <2>2. from = len + 1 => from - 1 = len
        BY <1>3
    <2>. QED BY <1>3, <2>1, <2>2, HoleFacts
<1>11. Len(printed') = len + (IF count > holes THEN count - holes ELSE 0)
    <2>1. Len(printed') = (from - 1) + (count - h) + (len - from + 1)
        BY <1>4, <1>6
    <2>2. Len(printed') = len + (count - h)
        BY <1>3, <1>4, <2>1
    <2>3. CASE from = len + 1
        BY <1>3, <1>4, <1>10, <2>2, <2>3
    <2>4. CASE from # len + 1
        <3>1. h = count /\ ~ (count > holes)
            BY <1>3, <1>4, <1>10, <2>4
        <3>. QED BY <1>3, <2>2, <3>1
    <2>. QED BY <2>3, <2>4
<1>12. ASSUME NEW p \in 1..len
       PROVE  IF format_expr[p] = Hole /\ HolesUpTo(p) <= count
              THEN IsWhole(HolesUpTo(p), printed'[p]) ELSE printed'[p] = format_expr[p]
    <2>1. CASE p <= from - 1
        <3>1. p \in 1..(from - 1) /\ p \in 1..(Len(printed) + (len - from + 1)) /\ p <= Len(printed)
            BY <1>3, <1>4, <2>1
        <3>2. printed'[p] = printed[p]
            BY <1>6, <3>1
        <3>3. HolesUpTo(p) <= count
            <4>1. p \in 0..len /\ from - 1 \in 0..len
                BY <1>3, <3>1
            <4>2. HolesUpTo(p) \in Nat /\ HolesUpTo(p) <= h
                BY <1>3, <2>1, <4>1, HoleFacts
            <4>. QED BY <1>3, <1>4, <4>2
        <3>. QED BY <1>2, <3>1, <3>2, <3>3 DEF PrintedSoFar
    <2>2. CASE p > from - 1
        <3>1. h = count /\ Len(printed) = from - 1
            BY <1>3, <1>4, <2>2
        <3>2. /\ p \in 1..(Len(printed) + (len - from + 1)) /\ ~ (p <= Len(printed))
              /\ p - Len(printed) \in 1..(len - from + 1) /\ from + (p - Len(printed)) - 1 = p
            BY <1>3, <2>2, <3>1
        <3>3. printed'[p] = piece[p - Len(printed)]
            BY <1>6, <3>2
        <3>4. printed'[p] = format_expr[p]
            BY <1>5, <3>2, <3>3
        <3>5. format_expr[p] = Hole => HolesUpTo(p) > count
            <4>. SUFFICES ASSUME format_expr[p] = Hole PROVE HolesUpTo(p) > count
                OBVIOUS
            <4>1. p - 1 \in 0..len /\ from - 1 \in 0..len /\ from - 1 <= p - 1
                BY <1>3, <2>2
            <4>2. HolesUpTo(p) = HolesUpTo(p - 1) + 1
                BY <1>3, HoleFacts
            <4>3. h <= HolesUpTo(p - 1) /\ HolesUpTo(p - 1) \in Nat
                BY <1>3, <4>1, HoleFacts
            <4>. QED BY <1>3, <3>1, <4>2, <4>3
        <3>6. ~ (format_expr[p] = Hole /\ HolesUpTo(p) <= count)
            <4>1. p \in 0..len
                BY <1>3
            <4>2. HolesUpTo(p) \in Nat
                BY <1>3, <4>1, HoleFacts
            <4>. QED BY <1>3, <3>5, <4>2
        <3>. QED BY <3>4, <3>6
    <2>. QED BY <1>3, <2>1, <2>2
<1>13. ASSUME NEW a \in (holes + 1)..count PROVE IsWhole(a, printed'[len + a - holes])
    <2>1. h < count /\ from = len + 1 /\ h = holes
        BY <1>3, <1>4, <1>10
    <2>2. /\ a \in (h + 1)..count /\ (from - 1) + (a - h) = len + a - holes
          /\ len + a - holes \in 1..(Len(printed) + (len - from + 1)) /\ len + a - holes <= Len(printed)
        BY <1>3, <1>4, <2>1
    <2>3. IsWhole(a, printed[(from - 1) + (a - h)])
        BY <1>2, <2>2 DEF PrintedSoFar
    <2>4. printed'[len + a - holes] = printed[(from - 1) + (a - h)]
        BY <1>6, <2>2
    <2>. QED BY <2>3, <2>4
<1>14. PrintsWhatWasLogged'
    BY <1>1, <1>3, <1>9, <1>11, <1>12, <1>13 DEF PrintsWhatWasLogged
<1>. QED BY <1>1, <1>2, <1>7, <1>8, <1>14 DEF EventInv

LEMMA CleanKeeps ==
    ASSUME EventInv, Clean
    PROVE  EventInv'
<1>1. /\ place \in {"live", "printed"} /\ place' = "clean"
      /\ buffer' = Fill(0, TupleSize(args), FreeByte)
      /\ UNCHANGED <<format_expr, args, unpacked, views, extra, from, count, printed>>
    BY DEF Clean, printVars
<1>2. EventTypes /\ CopiesAreWhole /\ unpacked = {}
    BY <1>1 DEF EventInv
<1>3. /\ TupleSize(args) \in Nat /\ DOMAIN buffer = 0..(BufferSize - 1)
      /\ BufferSize \in Nat /\ extra \in Nat /\ extra <= BufferSize
    BY <1>2, EventAssumption DEF EventTypes
<1>4. /\ DOMAIN buffer' = DOMAIN buffer
      /\ \A b \in DOMAIN buffer : b >= TupleSize(args) => buffer'[b] = buffer[b]
    BY <1>1, <1>3 DEF Fill
<1>5. EventTypes'
    BY <1>1, <1>2, <1>4 DEF EventTypes, Outputs, Arguments, TupleSize
<1>6. ASSUME NEW a \in Arguments, args[a] # Scalar PROVE IsCopied(a)'
    <2>1. IsCopied(a) /\ args[a] \in Nat
        BY <1>2, <1>6, ArgFacts DEF CopiesAreWhole
    <2>2. CASE views[a] = Truncated /\ args[a] > BufferSize - extra
        BY <1>1, <2>2 DEF IsCopied
    <2>3. CASE /\ views[a] \in Nat /\ TupleSize(args) <= views[a] /\ views[a] + args[a] <= extra
               /\ \A b \in views[a]..(views[a] + args[a] - 1) : buffer[b] = a
        <3>1. ASSUME NEW b \in views[a]..(views[a] + args[a] - 1) PROVE buffer'[b] = a
            <4>1. b \in 0..(BufferSize - 1) /\ b >= TupleSize(args)
                BY <1>3, <2>1, <2>3
            <4>. QED BY <1>3, <1>4, <2>3, <4>1
        <3>2. TupleSize(args') = TupleSize(args)
            BY <1>1
        <3>. QED BY <1>1, <2>3, <3>1, <3>2 DEF IsCopied
    <2>. QED BY <2>1, <2>2, <2>3 DEF IsCopied
<1>7. CopiesAreWhole'
    BY <1>1, <1>2, <1>6 DEF CopiesAreWhole, Arguments
<1>. QED BY <1>1, <1>2, <1>5, <1>7 DEF EventInv, PrintsWhatWasLogged

LEMMA EventStep == EventInv /\ [EventNext]_eventVars => EventInv'
<1>. SUFFICES ASSUME EventInv, [EventNext]_eventVars PROVE EventInv'
    OBVIOUS
<1>1. CASE \E a \in Arguments : PackScalar(a) \/ PackText(a)
    BY <1>1, PackScalarKeeps, PackTextKeeps
<1>2. CASE UNCHANGED eventVars
    <2>1. UNCHANGED <<place, format_expr, args, unpacked, views, buffer, extra, from, count, printed>>
        BY <1>2 DEF eventVars, printVars
    <2>2. /\ Arguments' = Arguments /\ Outputs' = Outputs /\ TupleSize(args') = TupleSize(args)
        BY <2>1 DEF Arguments, Outputs
    <2>3. /\ \A q : HolesUpTo(q)' = HolesUpTo(q)
          /\ \A a, o : IsWhole(a, o)' <=> IsWhole(a, o)
        BY <2>1 DEF HolesUpTo, IsWhole
    <2>4. EventTypes' /\ CopiesAreWhole'
        BY <2>1, <2>2 DEF EventInv, EventTypes, CopiesAreWhole, IsCopied
    <2>5. NothingPrinted' <=> NothingPrinted
        BY <2>1 DEF NothingPrinted
    <2>6. PrintedSoFar' <=> PrintedSoFar
        BY <2>1, <2>3 DEF PrintedSoFar
    <2>7. PrintsWhatWasLogged' <=> PrintsWhatWasLogged
        BY <2>1, <2>3 DEF PrintsWhatWasLogged
    <2>. QED BY <2>1, <2>4, <2>5, <2>6, <2>7 DEF EventInv
<1>. QED BY <1>1, <1>2, ConstructTupleKeeps, PrintArgKeeps, PrintTailKeeps, CleanKeeps DEF EventNext

\* Of any event of any size, with any arguments packed in any order, the printing is
\* the statement as it was written (logger_event.h:35-69, 104-109).
THEOREM EventPrintsWhatWasLogged == EventSpec => []PrintsWhatWasLogged
<1>1. EventInv => PrintsWhatWasLogged
    BY DEF EventInv
<1>. QED BY <1>1, EventStart, EventStep, PTL DEF EventSpec
-----------------------------------------------------------------------------
(***************************************************************************)
(* PingPong.  Each thread knows where it is in its own reading, and what   *)
(* it has read; the numbers on their way back are those thread a sent.     *)
(***************************************************************************)
BAP == INSTANCE One2OneProofs WITH
        m_seqn         <- ba_seqn,     m_storage     <- ba_storage,
        w_next_seq_num <- ba_w_num,    w_next_bucket <- ba_w_bucket,
        r_next_seq_num <- ba_r_num,    r_next_bucket <- ba_r_bucket,
        guards         <- ba_guards,   closing       <- ba_closing,
        delivered      <- ba_delivered, handles      <- ba_handles,
        sent           <- ba_sent,     taken         <- ba_taken,
        w_pc           <- ba_w_pc

\* How far thread a is in round a_i.
ThreadA ==
    /\ a_i \in Nat
    /\ a_pc \in {"write", "read", "compare", "leave", "end"}
    /\ a_pc = "write" => ba_guards = {} /\ ba_taken = a_i
    /\ a_pc = "read" => BAP!PollsFor(a_i)
    /\ a_pc = "compare" => BAP!HasRead(a_i)

\* How far thread b is in the round it has not answered yet.
ThreadB ==
    /\ b_pc \in {"read", "write", "leave", "end"}
    /\ b_pc = "read" => PollsFor(ba_sent)
    /\ b_pc = "write" => HasRead(ba_sent)

Echoes ==
    /\ echoed \in Seq(Int) /\ Len(echoed) = ba_sent
    /\ \A k \in 1..ba_sent : echoed[k] = Number(k - 1)

PingPongInv ==
    /\ IInv /\ BAP!IInv
    /\ playing => ThreadA /\ ThreadB /\ Echoes
    /\ ~ playing => a_pc = "write"

\* The queue back is the same queue, under other names.
LEMMA SameQueue ==
    /\ BA!Init => BAP!Init
    /\ BA!WriterStep => BAP!WriterStep
    /\ BA!ReaderStep => BAP!ReaderStep
    /\ BA!GuardStep => BAP!GuardStep
    /\ \A h : BA!DropHandle(h) => BAP!DropHandle(h)
    /\ UNCHANGED baVars => UNCHANGED BAP!vars
<1>1. BA!Init => BAP!Init
    BY DEF BA!Init, BAP!Init, BA!CntMod, BAP!CntMod, BA!DUMMY_EVENT_SEQ_NUM,
           BAP!DUMMY_EVENT_SEQ_NUM, BA!MIN_EVENT_SEQ_NUM, BAP!MIN_EVENT_SEQ_NUM,
           BA!Writer, BAP!Writer, BA!Reader, BAP!Reader, BA!Buckets, BAP!Buckets,
           BA!NoEvent, BAP!NoEvent
<1>2. BA!WriterStep => BAP!WriterStep
    BY DEF BA!WriterStep, BAP!WriterStep, BA!TryWriteFull, BAP!TryWriteFull,
           BA!TryWriteStart, BAP!TryWriteStart, BA!Construct, BAP!Construct,
           BA!Publish, BAP!Publish, BA!WriterIdle, BAP!WriterIdle, BA!FoundEmpty,
           BAP!FoundEmpty, BA!CntMod, BAP!CntMod, BA!DUMMY_EVENT_SEQ_NUM,
           BAP!DUMMY_EVENT_SEQ_NUM, BA!Masked, BAP!Masked, BA!Writer, BAP!Writer,
           BA!Reader, BAP!Reader, BA!writerVars, BAP!writerVars, BA!readerVars,
           BAP!readerVars, BA!guardVars, BAP!guardVars, BA!bucketVars,
           BAP!bucketVars, BA!vars, BAP!vars
<1>3. BA!ReaderStep => BAP!ReaderStep
    BY DEF BA!ReaderStep, BAP!ReaderStep, BA!TryReadMiss, BAP!TryReadMiss,
           BA!TryReadHit, BAP!TryReadHit, BA!ReaderIdle, BAP!ReaderIdle,
           BA!FoundNext, BAP!FoundNext, BA!Expected, BAP!Expected, BA!CntMod,
           BAP!CntMod, BA!DUMMY_EVENT_SEQ_NUM, BAP!DUMMY_EVENT_SEQ_NUM, BA!Masked,
           BAP!Masked, BA!Writer, BAP!Writer, BA!Reader, BAP!Reader, BA!writerVars,
           BAP!writerVars, BA!readerVars, BAP!readerVars, BA!guardVars,
           BAP!guardVars, BA!bucketVars, BAP!bucketVars, BA!vars, BAP!vars
<1>4. BA!GuardStep => BAP!GuardStep
    BY DEF BA!GuardStep, BAP!GuardStep, BA!CopyEvent, BAP!CopyEvent, BA!GetEvent,
           BAP!GetEvent, BA!DestroyEvent, BAP!DestroyEvent, BA!ReleaseBucket,
           BAP!ReleaseBucket, BA!NoEvent, BAP!NoEvent, BA!CntMod, BAP!CntMod,
           BA!DUMMY_EVENT_SEQ_NUM, BAP!DUMMY_EVENT_SEQ_NUM, BA!Masked, BAP!Masked,
           BA!Writer, BAP!Writer, BA!Reader, BAP!Reader, BA!writerVars,
           BAP!writerVars, BA!readerVars, BAP!readerVars, BA!guardVars,
           BAP!guardVars, BA!bucketVars, BAP!bucketVars, BA!vars, BAP!vars
<1>5. \A h : BA!DropHandle(h) => BAP!DropHandle(h)
    BY DEF BA!DropHandle, BAP!DropHandle, BA!BucketDestructors,
           BAP!BucketDestructors, BA!Buckets, BAP!Buckets, BA!NoEvent, BAP!NoEvent,
           BA!CntMod, BAP!CntMod, BA!DUMMY_EVENT_SEQ_NUM, BAP!DUMMY_EVENT_SEQ_NUM,
           BA!Masked, BAP!Masked, BA!Writer, BAP!Writer, BA!Reader, BAP!Reader,
           BA!writerVars, BAP!writerVars, BA!readerVars, BAP!readerVars,
           BA!guardVars, BAP!guardVars, BA!bucketVars, BAP!bucketVars, BA!vars,
           BAP!vars
<1>6. UNCHANGED baVars => UNCHANGED BAP!vars
    BY DEF baVars, BAP!vars, BAP!bucketVars, BAP!writerVars, BAP!readerVars, BAP!guardVars
<1>. QED BY <1>1, <1>2, <1>3, <1>4, <1>5, <1>6

LEMMA PingPongStart == PingPongInit => PingPongInv
<1>. SUFFICES ASSUME PingPongInit PROVE PingPongInv
    OBVIOUS
<1>1. IInv
    BY InitIInv DEF PingPongInit
<1>2. BAP!Init /\ BAP!IInv
    BY SameQueue, BAP!InitIInv, QueueAssumption DEF PingPongInit
<1>3. a_pc = "write" /\ b_pc = "read" /\ a_i = 0 /\ echoed = <<>>
    BY DEF PingPongInit
<1>4. guards = {} /\ taken = 0
    BY DEF PingPongInit, Init
<1>5. ba_guards = {} /\ ba_taken = 0 /\ ba_sent = 0
    BY <1>2 DEF BAP!Init
<1>. QED BY <1>1, <1>2, <1>3, <1>4, <1>5
         DEF PingPongInv, ThreadA, ThreadB, Echoes, PollsFor

\* Both queues keep their invariants, whatever the threads do with them.
LEMMA QueuesKeep ==
    ASSUME PingPongInv,
           [Next]_vars, [BAP!Next]_(BAP!vars)
    PROVE  IInv' /\ BAP!IInv'
BY NextKeeps, BAP!NextKeeps, QueueAssumption DEF PingPongInv

LEMMA AStepKeeps ==
    ASSUME PingPongInv, playing, playing' = playing, AStep
    PROVE  PingPongInv'
<1>1. ThreadA /\ ThreadB /\ Echoes /\ IInv /\ BAP!IInv
    BY DEF PingPongInv
<1>2. CASE AWrites
    <2>1. /\ a_pc = "write" /\ WriterStep /\ a_pc' \in {"write", "read"}
          /\ UNCHANGED <<b_pc, a_i, echoed>> /\ UNCHANGED baVars
        BY <1>2 DEF AWrites
    <2>2. UNCHANGED <<taken, guards, closing, delivered>>
        BY <1>1, <2>1, WriterCall
    <2>3. UNCHANGED <<ba_taken, ba_guards, ba_closing, ba_delivered, ba_sent>>
        BY <2>1 DEF baVars
    <2>4. IInv' /\ BAP!IInv'
        BY <2>1, SameQueue, QueuesKeep DEF Next
    <2>5. ThreadA'
        BY <1>1, <2>1, <2>3 DEF ThreadA, BAP!PollsFor
    <2>6. ThreadB' /\ Echoes'
        BY <1>1, <2>1, <2>2, <2>3 DEF ThreadB, Echoes, PollsFor, HasRead
    <2>. QED BY <2>4, <2>5, <2>6 DEF PingPongInv
<1>3. CASE AReads
    <2>1. /\ a_pc = "read" /\ (BAP!ReaderStep \/ BAP!GuardStep)
          /\ a_pc' = IF ba_closing # {} /\ ba_closing' = {} THEN "compare" ELSE "read"
          /\ UNCHANGED <<b_pc, a_i, echoed>> /\ UNCHANGED vars
        BY <1>3, SameQueue DEF AReads
    <2>2. /\ IF ba_closing # {} /\ ba_closing' = {}
             THEN BAP!HasRead(a_i)' ELSE BAP!PollsFor(a_i)'
          /\ UNCHANGED ba_sent
        <3>1. BAP!PollsFor(a_i) /\ a_i \in Nat /\ a_i' = a_i
            BY <1>1, <2>1 DEF ThreadA
        <3>2. PICK n \in Nat : n = a_i
            BY <3>1
        <3>3. /\ IF ba_closing # {} /\ ba_closing' = {} THEN BAP!HasRead(n)' ELSE BAP!PollsFor(n)'
              /\ UNCHANGED ba_sent
            BY <1>1, <2>1, <3>1, <3>2, BAP!PodReaderStep, QueueAssumption, PodAssumption
        <3>. QED BY <3>1, <3>2, <3>3 DEF BAP!HasRead, BAP!PollsFor
    <2>3. UNCHANGED <<taken, guards, closing, delivered>>
        BY <2>1 DEF vars, readerVars, guardVars
    <2>4. IInv' /\ BAP!IInv'
        BY <2>1, QueuesKeep DEF BAP!Next
    <2>5. ThreadA'
        BY <1>1, <2>1, <2>2 DEF ThreadA
    <2>6. ThreadB' /\ Echoes'
        BY <1>1, <2>1, <2>2, <2>3 DEF ThreadB, Echoes, PollsFor, HasRead
    <2>. QED BY <2>4, <2>5, <2>6 DEF PingPongInv
<1>4. CASE ACompares
    <2>1. /\ a_pc = "compare" /\ UNCHANGED <<b_pc, echoed>>
          /\ UNCHANGED vars /\ UNCHANGED baVars
        BY <1>4 DEF ACompares
    <2>2. UNCHANGED <<taken, guards, closing, delivered>>
        BY <2>1 DEF vars, readerVars, guardVars
    <2>3. UNCHANGED <<ba_taken, ba_guards, ba_closing, ba_delivered, ba_sent>>
        BY <2>1 DEF baVars
    <2>4. a_i \in Nat /\ ba_taken = a_i + 1 /\ ba_delivered = a_i /\ ba_guards = {}
        BY <1>1, <2>1 DEF ThreadA, BAP!HasRead
    <2>5. ba_taken <= ba_sent /\ ba_sent \in Nat
        BY <1>1 DEF BAP!IInv, BAP!Window, BAP!TypeOK
    <2>6. echoed[ba_delivered + 1] = Number(a_i)
        <3>1. a_i + 1 \in 1..ba_sent /\ (a_i + 1) - 1 = a_i
            BY <2>4, <2>5
        <3>2. echoed[a_i + 1] = Number((a_i + 1) - 1)
            BY <1>1, <3>1 DEF Echoes
        <3>. QED BY <2>4, <3>1, <3>2
    <2>7. a_i' = a_i + 1 /\ a_pc' \in {"leave", "write"}
        BY <1>4, <2>6 DEF ACompares
    <2>8. ThreadA'
        BY <2>3, <2>4, <2>7 DEF ThreadA
    <2>9. ThreadB' /\ Echoes'
        BY <1>1, <2>1, <2>2, <2>3 DEF ThreadB, Echoes, PollsFor, HasRead
    <2>10. IInv' /\ BAP!IInv'
        BY <2>1, SameQueue, QueuesKeep
    <2>. QED BY <2>8, <2>9, <2>10 DEF PingPongInv
<1>5. CASE ALeaves
    <2>1. /\ DropHandle(Writer) /\ BAP!DropHandle(BAP!Reader)
          /\ a_pc' = "end" /\ UNCHANGED <<b_pc, a_i, echoed>>
        BY <1>5, SameQueue DEF ALeaves, Reader, BAP!Reader
    <2>2. UNCHANGED <<taken, guards, closing, delivered>>
        BY <2>1 DEF DropHandle, readerVars, guardVars
    <2>3. UNCHANGED ba_sent
        BY <2>1 DEF BAP!DropHandle, BAP!writerVars
    <2>4. IInv' /\ BAP!IInv'
        BY <2>1, QueuesKeep DEF Next, BAP!Next
    <2>5. ThreadA'
        BY <1>1, <2>1 DEF ThreadA
    <2>6. ThreadB' /\ Echoes'
        BY <1>1, <2>1, <2>2, <2>3 DEF ThreadB, Echoes, PollsFor, HasRead
    <2>. QED BY <2>4, <2>5, <2>6 DEF PingPongInv
<1>. QED BY <1>2, <1>3, <1>4, <1>5 DEF AStep

LEMMA BStepKeeps ==
    ASSUME PingPongInv, playing, playing' = playing, BStep
    PROVE  PingPongInv'
<1>1. ThreadA /\ ThreadB /\ Echoes /\ IInv /\ BAP!IInv
    BY DEF PingPongInv
<1>2. ba_sent \in Nat
    BY <1>1 DEF BAP!IInv, BAP!TypeOK
<1>3. CASE BReads
    <2>1. /\ b_pc = "read" /\ (ReaderStep \/ GuardStep)
          /\ b_pc' = IF closing # {} /\ closing' = {} THEN "write" ELSE "read"
          /\ UNCHANGED <<a_pc, a_i, echoed>> /\ UNCHANGED baVars
        BY <1>3 DEF BReads
    <2>2. UNCHANGED <<ba_taken, ba_guards, ba_closing, ba_delivered, ba_sent>>
        BY <2>1 DEF baVars
    <2>3. IF closing # {} /\ closing' = {} THEN HasRead(ba_sent)' ELSE PollsFor(ba_sent)'
        <3>1. PollsFor(ba_sent)
            BY <1>1, <2>1 DEF ThreadB
        <3>2. PICK n \in Nat : n = ba_sent
            BY <1>2
        <3>3. IF closing # {} /\ closing' = {} THEN HasRead(n)' ELSE PollsFor(n)'
            BY <1>1, <2>1, <3>1, <3>2, PodReaderStep, PodAssumption
        <3>. QED BY <2>2, <3>2, <3>3 DEF HasRead, PollsFor
    <2>4. IInv' /\ BAP!IInv'
        BY <2>1, SameQueue, QueuesKeep DEF Next
    <2>5. ThreadA'
        BY <1>1, <2>1, <2>2 DEF ThreadA, BAP!PollsFor, BAP!HasRead
    <2>6. ThreadB'
        BY <1>1, <2>1, <2>3 DEF ThreadB
    <2>7. Echoes'
        BY <1>1, <2>1, <2>2 DEF Echoes
    <2>. QED BY <2>4, <2>5, <2>6, <2>7 DEF PingPongInv
<1>4. CASE BWrites
    <2>1. /\ b_pc = "write" /\ BAP!WriterStep /\ UNCHANGED <<a_pc, a_i>> /\ UNCHANGED vars
          /\ IF ba_sent' = ba_sent THEN UNCHANGED <<b_pc, echoed>>
             ELSE echoed' = Append(echoed, Number(delivered)) /\ b_pc' \in {"leave", "read"}
        BY <1>4, SameQueue DEF BWrites
    <2>2. UNCHANGED <<ba_taken, ba_guards, ba_closing, ba_delivered>>
          /\ (ba_sent' = ba_sent \/ ba_sent' = ba_sent + 1)
        BY <1>1, <2>1, BAP!WriterCall, QueueAssumption
    <2>3. UNCHANGED <<taken, guards, closing, delivered>>
        BY <2>1 DEF vars, readerVars, guardVars
    <2>4. guards = {} /\ taken = ba_sent + 1 /\ delivered = ba_sent
        BY <1>1, <2>1 DEF ThreadB, HasRead
    <2>5. IInv' /\ BAP!IInv'
        BY <2>1, QueuesKeep DEF BAP!Next
    <2>6. ThreadA'
        BY <1>1, <2>1, <2>2 DEF ThreadA, BAP!PollsFor, BAP!HasRead
    <2>7. CASE ba_sent' = ba_sent
        BY <1>1, <2>1, <2>3, <2>5, <2>6, <2>7
           DEF PingPongInv, ThreadB, Echoes, HasRead
    <2>8. CASE ba_sent' = ba_sent + 1
        <3>1. echoed' = Append(echoed, Number(ba_sent)) /\ b_pc' \in {"leave", "read"}
            BY <1>2, <2>1, <2>4, <2>8
        <3>2. ThreadB'
            BY <2>3, <2>4, <2>8, <3>1 DEF ThreadB, PollsFor
        <3>3. Number(ba_sent) \in Int
            BY <1>2, ItersAssumption DEF Number
        <3>4. echoed \in Seq(Int) /\ Len(echoed) = ba_sent
            BY <1>1 DEF Echoes
        <3>5. /\ echoed' \in Seq(Int) /\ Len(echoed') = ba_sent + 1
              /\ echoed'[ba_sent + 1] = Number(ba_sent)
              /\ \A k \in 1..ba_sent : echoed'[k] = echoed[k]
            BY <3>1, <3>3, <3>4
        <3>6. ASSUME NEW k \in 1..(ba_sent + 1) PROVE echoed'[k] = Number(k - 1)
            <4>1. CASE k \in 1..ba_sent
                BY <1>1, <3>5, <4>1 DEF Echoes
            <4>2. CASE k = ba_sent + 1
                <5>1. k - 1 = ba_sent
                    BY <1>2, <4>2
                <5>. QED BY <3>5, <4>2, <5>1
            <4>. QED BY <1>2, <4>1, <4>2
        <3>7. Echoes'
            BY <2>8, <3>5, <3>6 DEF Echoes, Number
        <3>. QED BY <2>5, <2>6, <3>2, <3>7 DEF PingPongInv
    <2>. QED BY <2>2, <2>7, <2>8
<1>5. CASE BLeaves
    <2>1. /\ DropHandle(Reader) /\ BAP!DropHandle(BAP!Writer)
          /\ b_pc' = "end" /\ UNCHANGED <<a_pc, a_i, echoed>>
        BY <1>5, SameQueue DEF BLeaves, Writer, BAP!Writer
    <2>2. UNCHANGED <<ba_taken, ba_guards, ba_closing, ba_delivered, ba_sent>>
        BY <2>1 DEF BAP!DropHandle, BAP!writerVars, BAP!readerVars, BAP!guardVars
    <2>3. IInv' /\ BAP!IInv'
        BY <2>1, QueuesKeep DEF Next, BAP!Next
    <2>4. ThreadA'
        BY <1>1, <2>1, <2>2 DEF ThreadA, BAP!PollsFor, BAP!HasRead
    <2>5. ThreadB' /\ Echoes'
        BY <1>1, <2>1, <2>2 DEF ThreadB, Echoes
    <2>. QED BY <2>3, <2>4, <2>5 DEF PingPongInv
<1>. QED BY <1>3, <1>4, <1>5 DEF BStep

LEMMA PingPongStep == PingPongInv /\ [PingPongNext]_pingPongVars => PingPongInv'
<1>. SUFFICES ASSUME PingPongInv, [PingPongNext]_pingPongVars PROVE PingPongInv'
    OBVIOUS
<1>1. CASE playing /\ (AStep \/ BStep) /\ UNCHANGED playing
    BY <1>1, AStepKeeps, BStepKeeps
<1>2. CASE ~ playing /\ Alone /\ UNCHANGED playing
    <2>1. Next /\ UNCHANGED baVars /\ UNCHANGED a_pc
        BY <1>2 DEF Alone, threadVars
    <2>2. IInv' /\ BAP!IInv'
        BY <2>1, SameQueue, QueuesKeep
    <2>. QED BY <1>2, <2>1, <2>2 DEF PingPongInv
<1>3. CASE UNCHANGED pingPongVars
    <2>1. UNCHANGED vars /\ UNCHANGED baVars /\ UNCHANGED <<a_pc, b_pc, a_i, echoed, playing>>
        BY <1>3 DEF pingPongVars, exchangeVars, threadVars
    <2>2. UNCHANGED <<taken, guards, closing, delivered>>
        BY <2>1 DEF vars, readerVars, guardVars
    <2>3. UNCHANGED <<ba_taken, ba_guards, ba_closing, ba_delivered, ba_sent>>
        BY <2>1 DEF baVars
    <2>4. IInv' /\ BAP!IInv'
        BY <2>1, SameQueue, QueuesKeep
    <2>5. (ThreadA' <=> ThreadA) /\ (ThreadB' <=> ThreadB) /\ (Echoes' <=> Echoes)
        BY <2>1, <2>2, <2>3
           DEF ThreadA, ThreadB, Echoes, PollsFor, HasRead, BAP!PollsFor, BAP!HasRead
    <2>. QED BY <2>1, <2>4, <2>5 DEF PingPongInv
<1>. QED BY <1>1, <1>2, <1>3 DEF PingPongNext, Joined

\* Between queues of any capacity and any width of the counter, for any number of
\* rounds: the answer is the number that was sent, and thread a does not abort.
THEOREM PingPongNeverAborts == PingPongSpec => []NeverAborts
<1>1. PingPongInv => NeverAborts
    BY DEF PingPongInv, ThreadA, NeverAborts
<1>. QED BY <1>1, PingPongStart, PingPongStep, PTL DEF PingPongSpec
=============================================================================
