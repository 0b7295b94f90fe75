------------------------------ MODULE CpuLists ------------------------------
(***************************************************************************)
(* process_cpu_list and its two users: cmdline, which looks for three      *)
(* lists among the words of the kernel's command line and keeps each in a  *)
(* bitset, and the measuring programs, which collect the cpus of an        *)
(* argument.                                                               *)
(*                                                                         *)
(* A word is the name of its list and its sections, cut at the commas.  A  *)
(* section is a number (NotNumber where std::from_chars fails), what       *)
(* follows it, and for "-" a second number; what follows that one is not   *)
(* looked at.  unsigned has CpuMod values and wraps.                       *)
(***************************************************************************)
EXTENDS Integers, Sequences

CONSTANTS
    CpuMod,     \* the number of values of unsigned
    MAX_CPUS,   \* the size of a bitset
    ListNames,  \* isolcpus, nohz_full, rcu_nocbs
    Texts       \* what there may be to read: the words of a command line that name
                \* lists, or the one argument of a measuring program

Argv == "argv"
Unsigned == 0..(CpuMod - 1)
NotNumber == -1
Sections ==
    [first : {NotNumber}, then : {"end"}, last : {NotNumber}]
        \cup [first : Unsigned, then : {"end", "other"}, last : {NotNumber}]
        \cup [first : Unsigned, then : {"-"}, last : Unsigned \cup {NotNumber}]

Words == [list : ListNames \cup {Argv}, sections : Seq(Sections) \ {<<>>}]

ASSUME CpuListAssumption ==
    /\ CpuMod \in Nat \ {0} /\ MAX_CPUS \in 1..CpuMod
    /\ Argv \notin ListNames
    /\ Texts \subseteq Seq(Words)

VARIABLES
    words,      \* [list, sections] of what is still to be read
    given,      \* history: what there was to read
    i, to,      \* the range being passed on, if ranging
    ranging,
    list,       \* the cpus of each list, called so far
    thrown      \* a bitset refused a cpu; nobody catches it

cpuVars == <<words, given, i, to, ranging, list, thrown>>

CpuInit ==
    /\ words \in Texts
    /\ given = words
    /\ i = 0 /\ to = 0
    /\ ranging = FALSE
    /\ list = [l \in ListNames \cup {Argv} |-> {}]
    /\ thrown = FALSE
-----------------------------------------------------------------------------
\* The functor: list.set(cpu), which throws, or emplace_back.
Call(cpu) ==
    LET l == words[1].list
    IN  IF l # Argv /\ cpu >= MAX_CPUS
        THEN thrown' = TRUE /\ UNCHANGED list
        ELSE list' = [list EXCEPT ![l] = @ \cup {cpu}] /\ UNCHANGED thrown

Section == words[1].sections[1]
Rest == Tail(words[1].sections)
NextSection ==
    words' = IF Rest = <<>> THEN Tail(words)
             ELSE <<[words[1] EXCEPT !.sections = Rest]>> \o Tail(words)

Reading == ~ thrown /\ words # <<>> /\ ~ ranging

\* Mutant: a section that is no number ends the list.
Skip_EndsList ==
    /\ Reading
    /\ Section.first = NotNumber \/ (Section.then = "-" /\ Section.last = NotNumber)
    /\ words' = Tail(words)
    /\ UNCHANGED <<given, i, to, ranging, list, thrown>>

\* Not a number at all, or a range without its end: on to the next section.
Skip ==
    /\ Reading
    /\ Section.first = NotNumber \/ (Section.then = "-" /\ Section.last = NotNumber)
    /\ NextSection
    /\ UNCHANGED <<given, i, to, ranging, list, thrown>>

OneCpu ==
    /\ Reading
    /\ Section.first # NotNumber /\ Section.then = "end"
    /\ Call(Section.first)
    /\ NextSection
    /\ UNCHANGED <<given, i, to, ranging>>

\* A number and then neither a comma nor "-": the rest of the list is dropped.
GiveUp ==
    /\ Reading
    /\ Section.first # NotNumber /\ Section.then = "other"
    /\ words' = Tail(words)
    /\ UNCHANGED <<given, i, to, ranging, list, thrown>>

RangeOfCpus ==
    /\ Reading
    /\ Section.first # NotNumber /\ Section.then = "-" /\ Section.last # NotNumber
    /\ i' = Section.first
    /\ to' = Section.last
    /\ ranging' = TRUE
    /\ UNCHANGED <<words, given, list, thrown>>

\* Mutant: the range ends before its last cpu.
InRange_Open == i < to

InRange == i <= to

RangeStep ==
    /\ ranging /\ ~ thrown
    /\ IF InRange
       THEN /\ Call(i)
            /\ i' = (i + 1) % CpuMod
            /\ UNCHANGED <<words, ranging>>
       ELSE /\ ranging' = FALSE
            /\ NextSection
            /\ UNCHANGED <<i, list, thrown>>
    /\ UNCHANGED <<given, to>>

CpuNext == Skip \/ OneCpu \/ GiveUp \/ RangeOfCpus \/ RangeStep

CpuSpec == CpuInit /\ [][CpuNext]_cpuVars
-----------------------------------------------------------------------------
(***************************************************************************)
(* What a list means, by its grammar.                                      *)
(***************************************************************************)
CpusOf(s) ==
    IF s.first = NotNumber THEN {}
    ELSE s.first..(IF s.then = "end" THEN s.first ELSE s.last)

\* Up to the first section that ends the reading of its list.
MeantBy(sections) ==
    UNION {CpusOf(sections[k]) :
        k \in {k \in DOMAIN sections : \A n \in 1..k : sections[n].then # "other"}}

Listed(l) ==
    UNION {MeantBy(given[w].sections) : w \in {w \in DOMAIN given : given[w].list = l}}

\* A bitset has room for the cpus named, and no range ends at the largest unsigned,
\* from where its loop would begin again at 0.
Representable ==
    /\ \A l \in ListNames : Listed(l) \subseteq 0..(MAX_CPUS - 1)
    /\ \A w \in DOMAIN given : \A k \in DOMAIN given[w].sections :
        given[w].sections[k].last # CpuMod - 1

\* What was read to its end is exact, whatever the text: each list holds exactly the
\* cpus its words name, as the comment of process_cpu_list.h:6-12 has it, whatever
\* stands in the other lists and whatever sections are no numbers.  Where the code
\* falls short it throws or never ends; it does not throw of anything representable.
ListsAreExact ==
    /\ words = <<>> /\ ~ thrown => \A l \in DOMAIN list : list[l] = Listed(l)
    /\ thrown => ~ Representable

\* Reading ends, with each list exact, unless Representable fails.
CpuListsAreRead ==
    Representable ~> words = <<>> /\ ~ thrown /\ \A l \in DOMAIN list : list[l] = Listed(l)
=============================================================================
