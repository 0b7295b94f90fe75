------------------------------ MODULE LogEvent ------------------------------
(***************************************************************************)
(* logger_event with logger_contract and logger_extra_data.  The buffer of *)
(* an event begins with the tuple of its arguments; a text is copied       *)
(* behind it, if it fits in what is left there, and the tuple holds a view *)
(* of the copy.  pack is called once per argument, in the order the        *)
(* compiler likes, before construct_at makes the tuple.  Printing cuts the *)
(* pattern at its placeholders and streams pieces and arguments in turn.   *)
(*                                                                         *)
(* A pattern is a sequence of letters, one of which stands for "{}"; a     *)
(* byte of the buffer names the argument written there.  The header        *)
(* (level, time, source, thread) is formatting.                            *)
(***************************************************************************)
EXTENDS Integers, Sequences, FiniteSets

CONSTANTS
    BufferSize,     \* sizeof(buffer_t)
    ScalarSize,     \* the place of a number or a pointer in the tuple
    ViewSize,       \* the place of a std::string_view
    TextSizes,      \* the lengths of texts
    MaxArgs,        \* bound: arguments
    MaxPattern      \* bound: letters of a pattern

ASSUME EventAssumption ==
    /\ {BufferSize, ScalarSize, ViewSize} \subseteq Nat \ {0}
    /\ TextSizes \subseteq Nat
    /\ MaxArgs \in Nat /\ MaxPattern \in Nat

Scalar == -1    \* an argument that is no text: a text is its length
Hole == [letter |-> "{}"]
Letters == {Hole, [letter |-> "text"]}
FreeByte == 0
TupleByte == -1

VARIABLES
    place,      \* "pack", "live", "printed", "clean"
    format_expr,
    args,       \* the arguments
    unpacked,   \* those pack was not called for yet
    views,      \* argument -> where the view of its copy begins, or Truncated
    buffer,     \* byte -> the argument that wrote it
    extra,      \* logger_extra_data: m_buffer, as an offset
    from,       \* where the rest of the pattern begins
    count,      \* arguments printed
    printed     \* what was streamed

printVars == <<from, count, printed>>
eventVars == <<place, format_expr, args, unpacked, views, buffer, extra, printVars>>

Truncated == -1

Arguments == DOMAIN args
TupleSize(a) ==
    LET texts == Cardinality({i \in DOMAIN a : a[i] # Scalar})
    IN  texts * ViewSize + (Len(a) - texts) * ScalarSize

BoundedSeqs(S, n) == UNION {[1..k -> S] : k \in 0..n}

\* The static_assert of the constructor: the tuple fits.
EventInit ==
    /\ place = "pack"
    /\ format_expr \in BoundedSeqs(Letters, MaxPattern)
    /\ args \in {a \in BoundedSeqs(TextSizes \cup {Scalar}, MaxArgs) : TupleSize(a) <= BufferSize}
    /\ unpacked = Arguments
    /\ views = [i \in Arguments |-> Truncated]
    /\ buffer = [b \in 0..(BufferSize - 1) |-> FreeByte]
    /\ extra = TupleSize(args)
    /\ from = 1
    /\ count = 0
    /\ printed = <<>>
-----------------------------------------------------------------------------
Fill(at, size, value) ==
    [b \in DOMAIN buffer |-> IF b \in at..(at + size - 1) THEN value ELSE buffer[b]]

\* Mutant: the room is that of the whole buffer.
IsEnought_Total(size) == size <= BufferSize - TupleSize(args)

IsEnought(size) == size <= BufferSize - extra

PackScalar(i) ==
    /\ place = "pack" /\ i \in unpacked /\ args[i] = Scalar
    /\ unpacked' = unpacked \ {i}
    /\ UNCHANGED <<place, format_expr, args, views, buffer, extra, printVars>>

PackText(i) ==
    /\ place = "pack" /\ i \in unpacked /\ args[i] # Scalar
    /\ unpacked' = unpacked \ {i}
    /\ IF IsEnought(args[i])
       THEN /\ views' = [views EXCEPT ![i] = extra]
            /\ buffer' = Fill(extra, args[i], i)
            /\ extra' = extra + args[i]
       ELSE UNCHANGED <<views, buffer, extra>>
    /\ UNCHANGED <<place, format_expr, args, printVars>>

ConstructTuple ==
    /\ place = "pack" /\ unpacked = {}
    /\ buffer' = Fill(0, TupleSize(args), TupleByte)
    /\ place' = "live"
    /\ UNCHANGED <<format_expr, args, unpacked, views, extra, printVars>>

\* Behind the buffer is somebody else's memory.
Byte(at) == IF at < BufferSize THEN buffer[at] ELSE FreeByte

\* What the tuple's element streams: a text through its view of the buffer.
Streamed(i) ==
    IF args[i] = Scalar THEN [arg |-> i]
    ELSE IF views[i] = Truncated THEN [truncated |-> i]
    ELSE [bytes |-> [b \in 1..args[i] |-> Byte(views[i] + b - 1)]]

\* Up to p the pattern has no other placeholder.
NextHole(p) ==
    /\ p <= Len(format_expr) => format_expr[p] = Hole
    /\ \A q \in from..(p - 1) : format_expr[q] # Hole

\* print_tuple and print_tuple_impl: before each argument comes the piece of the pattern
\* up to the next placeholder, or, when there is none left, all that is left of it.
\* The code cuts all pieces first and then streams them.
PrintArg ==
    /\ place = "live" /\ count < Len(args)
    /\ \E p \in from..(Len(format_expr) + 1) :
        /\ NextHole(p)
        /\ printed' = printed \o Append(SubSeq(format_expr, from, p - 1), Streamed(count + 1))
        /\ from' = IF p <= Len(format_expr) THEN p + 1 ELSE p
    /\ count' = count + 1
    /\ UNCHANGED <<place, format_expr, args, unpacked, views, buffer, extra>>

\* The last piece, whatever placeholders are in it.
PrintTail ==
    /\ place = "live" /\ count = Len(args)
    /\ printed' = printed \o SubSeq(format_expr, from, Len(format_expr))
    /\ place' = "printed"
    /\ UNCHANGED <<format_expr, args, unpacked, views, buffer, extra, from, count>>

\* The header's destructor destroys the tuple.
Clean ==
    /\ place \in {"live", "printed"} /\ (place = "live" => count = 0)
    /\ place' = "clean"
    /\ buffer' = Fill(0, TupleSize(args), FreeByte)
    /\ UNCHANGED <<format_expr, args, unpacked, views, extra, printVars>>

EventNext ==
    \/ \E i \in Arguments : PackScalar(i) \/ PackText(i)
    \/ ConstructTuple
    \/ PrintArg \/ PrintTail
    \/ Clean

EventSpec == EventInit /\ [][EventNext]_eventVars
-----------------------------------------------------------------------------
(***************************************************************************)
(* The statement as it was written: the k-th placeholder is replaced by    *)
(* the k-th argument, placeholders without one stay, arguments without one *)
(* follow.                                                                 *)
(***************************************************************************)
HolesUpTo(p) == Cardinality({q \in 1..p : format_expr[q] = Hole})

IsWhole(i, out) ==
    IF args[i] = Scalar THEN out = [arg |-> i]
    ELSE \/ out = [bytes |-> [b \in 1..args[i] |-> i]]
         \/ out = [truncated |-> i] /\ args[i] > BufferSize - extra

\* An event prints what was logged: each letter of the pattern and each argument
\* once and in order, a text whole or, if what the others left had no room for it,
\* truncated.  Whatever order the compiler packs in, no copy lies over another one
\* or over the tuple, or outside the event (logger_event.h:104-109).
PrintsWhatWasLogged ==
    place = "printed" =>
        LET n == Len(args)
            holes == HolesUpTo(Len(format_expr))
        IN  /\ Len(printed) = Len(format_expr) + (IF n > holes THEN n - holes ELSE 0)
            /\ \A p \in DOMAIN format_expr :
                IF format_expr[p] = Hole /\ HolesUpTo(p) <= n
                THEN IsWhole(HolesUpTo(p), printed[p])
                ELSE printed[p] = format_expr[p]
            /\ \A i \in (holes + 1)..n : IsWhole(i, printed[Len(format_expr) + i - holes])
=============================================================================
