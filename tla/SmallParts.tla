----------------------------- MODULE SmallParts -----------------------------
(***************************************************************************)
(* Parts of the library that do not depend on each other, checked side by  *)
(* side: a behaviour is a behaviour of one of them, chosen at the start,   *)
(* and the others stay as they began.                                      *)
(***************************************************************************)
EXTENDS PingPong, Arena, LogEvent, CpuLists, SysJitter

VARIABLE part

partsVars == <<part, pingPongVars, arenaVars, eventVars, cpuVars, jitterVars>>

\* The cpu lists that are read: two sections of an argument, or two parameters of a
\* kernel command line with one each.
Argument == [list : {Argv}, sections : (Sections \X Sections)]
Parameter == [list : ListNames, sections : {<<s>> : s \in Sections}]
CpuTexts == {<<w>> : w \in Argument} \cup (Parameter \X Parameter)

\* The others begin in one state each.
SomeArena == m_origin_arena_ptr = 0 /\ m_arena_size = 0 /\ m_current_arena_ptr = 0 /\ blocks = {}
SomeEvent ==
    /\ place = "clean" /\ format_expr = <<>> /\ args = <<>> /\ unpacked = {} /\ views = <<>>
    /\ buffer = <<>> /\ extra = 0 /\ from = 1 /\ count = 0 /\ printed = <<>>
SomeLists ==
    /\ words = <<>> /\ given = <<>> /\ i = 0 /\ to = 0 /\ ranging = FALSE
    /\ list = <<>> /\ thrown = FALSE
SomeJitter ==
    /\ refused = {} /\ threshold = 0 /\ now = Runtime /\ active_threads = Cores
    /\ place_of = [c \in CoreIds |-> "true"] /\ ts1 = [c \in CoreIds |-> Runtime]
    /\ hiccups = [c \in CoreIds |-> 0] /\ reported = Undefined
SomeQueue == PingPongInit /\ playing = FALSE

PartsInit ==
    \/ part = "queue" /\ PingPongInit /\ SomeArena /\ SomeEvent /\ SomeLists /\ SomeJitter
    \/ part = "arena" /\ SomeQueue /\ ArenaInit /\ SomeEvent /\ SomeLists /\ SomeJitter
    \/ part = "event" /\ SomeQueue /\ SomeArena /\ EventInit /\ SomeLists /\ SomeJitter
    \/ part = "lists" /\ SomeQueue /\ SomeArena /\ SomeEvent /\ CpuInit /\ SomeJitter
    \/ part = "jitter" /\ SomeQueue /\ SomeArena /\ SomeEvent /\ SomeLists /\ JitterInit

PartsNext ==
    /\ UNCHANGED part
    /\ \/ part = "queue" /\ PingPongNext /\ UNCHANGED <<arenaVars, eventVars, cpuVars, jitterVars>>
       \/ part = "arena" /\ ArenaNext /\ UNCHANGED <<pingPongVars, eventVars, cpuVars, jitterVars>>
       \/ part = "event" /\ EventNext /\ UNCHANGED <<pingPongVars, arenaVars, cpuVars, jitterVars>>
       \/ part = "lists" /\ CpuNext /\ UNCHANGED <<pingPongVars, arenaVars, eventVars, jitterVars>>
       \/ part = "jitter" /\ JitterNext /\ UNCHANGED <<pingPongVars, arenaVars, eventVars, cpuVars>>

PartsSpec ==
    /\ PartsInit
    /\ [][PartsNext]_partsVars
    /\ PingPongFairness
    /\ WF_cpuVars(CpuNext)
    /\ JitterFairness
=============================================================================
