------------------------------ MODULE SysJitter ------------------------------
(***************************************************************************)
(* sysjitter: a thread per core, main being the one of core 0, measures    *)
(* the gaps between its readings of the clock.  Each binds itself to its   *)
(* core, takes its name, counts itself in, and spins until all cores are   *)
(* counted; main then joins the others and reports core by core.           *)
(*                                                                         *)
(* Sorting, dumping and the options other than the threshold are left      *)
(* out.                                                                    *)
(***************************************************************************)
EXTENDS Integers, FiniteSets

CONSTANTS
    Cores,      \* std::thread::hardware_concurrency()
    Runtime,    \* the clock when the measurement ends; it begins at 0
    Thresholds  \* what -t or the calibration may give

ASSUME JitterAssumption ==
    /\ Cores \in Nat \ {0} /\ Runtime \in Nat
    /\ Thresholds \subseteq Nat \ {0}

CoreIds == 0..(Cores - 1)

VARIABLES
    refused,    \* the cores the system lets no thread bind to, or take its name
    threshold,
    now,        \* the clock, which bound: stops at Runtime
    place_of,   \* core -> where its thread is
    active_threads,
    ts1,        \* core -> the last reading
    hiccups,    \* core -> the size of its samples
    reported    \* the cores main has reported; Undefined once it reads no sample

jitterVars == <<refused, threshold, now, place_of, active_threads, ts1, hiccups, reported>>

Undefined == -1

JitterInit ==
    /\ refused \in SUBSET CoreIds
    /\ threshold \in Thresholds
    /\ now = 0
    /\ place_of = [c \in CoreIds |-> "unborn"]
    /\ active_threads = 0
    /\ ts1 = [c \in CoreIds |-> 0]
    /\ hiccups = [c \in CoreIds |-> 0]
    /\ reported = 0

From(c, here, there) == place_of[c] = here /\ place_of' = [place_of EXCEPT ![c] = there]
Valid(c) == place_of[c] = "true"
Returned(c) == place_of[c] \in {"true", "false"}
-----------------------------------------------------------------------------
Tick ==
    /\ now < Runtime
    /\ now' = now + 1
    /\ UNCHANGED <<refused, threshold, place_of, active_threads, ts1, hiccups, reported>>

\* main starts the threads of the other cores in order, and then measures itself.
StartThread(c) ==
    /\ \A d \in CoreIds : place_of[d] = "unborn" => d = 0 \/ c \in 1..d
    /\ From(c, "unborn", "bind")
    /\ UNCHANGED <<refused, threshold, now, active_threads, ts1, hiccups, reported>>

BindCore(c) ==
    /\ IF c \in refused THEN From(c, "bind", "false") ELSE From(c, "bind", "count")
    /\ UNCHANGED <<refused, threshold, now, active_threads, ts1, hiccups, reported>>

CountIn(c) ==
    /\ From(c, "count", "spin")
    /\ active_threads' = active_threads + 1
    /\ UNCHANGED <<refused, threshold, now, ts1, hiccups, reported>>

\* Mutant: main is forgotten among the threads.
AllCounted_WithoutMain == active_threads = Cores - 1

AllCounted == active_threads = Cores

ReadClock(c) ==
    /\ \/ AllCounted /\ From(c, "spin", "measure")
       \/ From(c, "sampled", "measure")
    /\ ts1' = [ts1 EXCEPT ![c] = now]
    /\ UNCHANGED <<refused, threshold, now, active_threads, hiccups, reported>>

\* A gap is a sample from the threshold on; the time it takes to store the sample
\* is not measured.
Iterate(c) ==
    /\ ts1[c] < Runtime
    /\ IF now - ts1[c] < threshold
       THEN /\ From(c, "measure", "measure")
            /\ ts1' = [ts1 EXCEPT ![c] = now]
            /\ UNCHANGED hiccups
       ELSE /\ From(c, "measure", "sampled")
            /\ hiccups' = [hiccups EXCEPT ![c] = @ + 1]
            /\ UNCHANGED ts1
    /\ UNCHANGED <<refused, threshold, now, active_threads, reported>>

TimeIsUp(c) ==
    /\ ts1[c] >= Runtime
    /\ From(c, "measure", "true")
    /\ UNCHANGED <<refused, threshold, now, active_threads, ts1, hiccups, reported>>

\* Once all have been joined.  The percentiles of no samples are read past the end.
ReportCore ==
    /\ reported \in CoreIds
    /\ \A c \in CoreIds : Returned(c)
    /\ \/ reported' = reported + 1
       \/ Valid(reported) /\ hiccups[reported] = 0 /\ reported' = Undefined
    /\ UNCHANGED <<refused, threshold, now, place_of, active_threads, ts1, hiccups>>

MeasureStep(c) ==
    \/ BindCore(c) \/ CountIn(c)
    \/ ReadClock(c) \/ Iterate(c) \/ TimeIsUp(c)

StartStep == \E c \in CoreIds : StartThread(c)

JitterNext ==
    \/ Tick \/ StartStep \/ ReportCore
    \/ \E c \in CoreIds : MeasureStep(c)

JitterSpec == JitterInit /\ [][JitterNext]_jitterVars

\* The clock goes on, and so do the threads, which are at work on their own cores.
JitterFairness ==
    /\ WF_jitterVars(Tick) /\ WF_jitterVars(StartStep) /\ WF_jitterVars(ReportCore)
    /\ \A c \in CoreIds : WF_jitterVars(MeasureStep(c))
-----------------------------------------------------------------------------
\* A report begins only when every thread was let onto its core, or none was: if some are
\* refused, the others spin for ever and main never joins them, so that the line
\* about an invalid experiment (sysjitter.cpp:189-193) is never one among others.  It
\* reads past the end of samples (sysjitter.cpp:176-177) only if all were let onto
\* theirs and one of them saw no gap.
ReportNeedsAllOrNone ==
    /\ reported # 0 => refused \in {{}, CoreIds}
    /\ reported = Undefined => refused = {} /\ \E c \in CoreIds : hiccups[c] = 0

\* And in these two cases the report comes.  With no thread let onto its core it
\* comes to its end; with all, it does if it stays within the samples.
JitterIsReported ==
    reported = 0 /\ refused \in {{}, CoreIds} ~>
        reported = Cores \/ (reported = Undefined /\ refused = {})
=============================================================================
