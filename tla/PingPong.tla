------------------------------ MODULE PingPong ------------------------------
(***************************************************************************)
(* ping_pong.cpp: two one-to-one pod queues between two threads.  Thread a *)
(* writes i and reads until the answer comes, which must be i again, or it *)
(* aborts; thread b answers with what it read.  Both queues are the        *)
(* detailed ones: the queue from a to b is that of One2OneQueue, the queue *)
(* back is an instance of it.                                              *)
(*                                                                         *)
(* While playing is FALSE the queue from a to b is alone, and writes and   *)
(* reads as it pleases.  The latencies are left out.                       *)
(***************************************************************************)
EXTENDS One2OneQueue, Sequences

CONSTANT Iters  \* the numbers sent are 0..Iters - 1, over and over

ASSUME ItersAssumption == Iters \in Nat \ {0}

\* The queues are one2one_seqnum_stream_pod_queue.
ASSUME PodAssumption == Object = FALSE

VARIABLES
    ba_seqn, ba_storage, ba_w_num, ba_w_bucket, ba_w_pc, ba_r_num, ba_r_bucket,
    ba_guards, ba_closing, ba_delivered, ba_handles, ba_sent, ba_taken,
    playing,    \* whether this is the ping-pong
    a_pc, b_pc, \* where the two threads are
    a_i,        \* how many answers thread a has seen
    echoed      \* the numbers thread b has written

BA == INSTANCE One2OneQueue WITH
        m_seqn         <- ba_seqn,     m_storage     <- ba_storage,
        w_next_seq_num <- ba_w_num,    w_next_bucket <- ba_w_bucket,
        r_next_seq_num <- ba_r_num,    r_next_bucket <- ba_r_bucket,
        guards         <- ba_guards,   closing       <- ba_closing,
        delivered      <- ba_delivered, handles      <- ba_handles,
        sent           <- ba_sent,     taken         <- ba_taken,
        w_pc           <- ba_w_pc

baVars == <<ba_seqn, ba_storage, ba_w_num, ba_w_bucket, ba_w_pc, ba_r_num,
            ba_r_bucket, ba_guards, ba_closing, ba_delivered, ba_handles,
            ba_sent, ba_taken>>
threadVars == <<a_pc, b_pc, a_i, echoed>>
exchangeVars == <<vars, baVars, threadVars>>
pingPongVars == <<exchangeVars, playing>>

PingPongInit ==
    /\ Init
    /\ BA!Init
    /\ playing \in BOOLEAN
    /\ a_pc = "write"
    /\ b_pc = "read"
    /\ a_i = 0
    /\ echoed = <<>>

\* The number an event of the queue from a to b carries, i of the inner loop.
Number(e) == e % Iters
-----------------------------------------------------------------------------
(***************************************************************************)
(* Thread a.                                                               *)
(***************************************************************************)
AWrites ==
    /\ a_pc = "write"
    /\ WriterStep
    /\ a_pc' = IF sent' # sent THEN "read" ELSE "write"
    /\ UNCHANGED <<baVars, b_pc, a_i, echoed>>

AReads ==
    /\ a_pc = "read"
    /\ BA!ReaderStep \/ BA!GuardStep
    /\ a_pc' = IF ba_closing # {} /\ ba_closing' = {} THEN "compare" ELSE "read"
    /\ UNCHANGED <<vars, b_pc, a_i, echoed>>

ACompares ==
    /\ a_pc = "compare"
    /\ IF echoed[ba_delivered + 1] = Number(a_i)
       THEN /\ a_i' = a_i + 1
            /\ a_pc' = IF a_i' = MaxEvents THEN "leave" ELSE "write"
       ELSE a_pc' = "abort" /\ UNCHANGED a_i
    /\ UNCHANGED <<vars, baVars, b_pc, echoed>>

\* A thread's ends of the two queues are captured by its function.
ALeaves ==
    /\ a_pc = "leave"
    /\ DropHandle(Writer)
    /\ BA!DropHandle(Reader)
    /\ a_pc' = "end"
    /\ UNCHANGED <<b_pc, a_i, echoed>>
-----------------------------------------------------------------------------
(***************************************************************************)
(* Thread b.                                                               *)
(***************************************************************************)
BReads ==
    /\ b_pc = "read"
    /\ ReaderStep \/ GuardStep
    /\ b_pc' = IF closing # {} /\ closing' = {} THEN "write" ELSE "read"
    /\ UNCHANGED <<baVars, a_pc, a_i, echoed>>

\* Mutant: the answer is the number of answers so far.
BWrites_Counts ==
    /\ b_pc = "write"
    /\ BA!WriterStep
    /\ IF ba_sent' = ba_sent THEN UNCHANGED <<b_pc, echoed>>
       ELSE /\ echoed' = Append(echoed, ba_sent)
            /\ b_pc' = IF ba_sent' = MaxEvents THEN "leave" ELSE "read"
    /\ UNCHANGED <<vars, a_pc, a_i>>

BWrites ==
    /\ b_pc = "write"
    /\ BA!WriterStep
    /\ IF ba_sent' = ba_sent THEN UNCHANGED <<b_pc, echoed>>
       ELSE /\ echoed' = Append(echoed, Number(delivered))
            /\ b_pc' = IF ba_sent' = MaxEvents THEN "leave" ELSE "read"
    /\ UNCHANGED <<vars, a_pc, a_i>>

BLeaves ==
    /\ b_pc = "leave"
    /\ DropHandle(Reader)
    /\ BA!DropHandle(Writer)
    /\ b_pc' = "end"
    /\ UNCHANGED <<a_pc, a_i, echoed>>

AStep == a_pc # "abort" /\ (AWrites \/ AReads \/ ACompares \/ ALeaves)
BStep == a_pc # "abort" /\ (BReads \/ BWrites \/ BLeaves)

Alone == Next /\ UNCHANGED <<baVars, threadVars>>

\* The threads are joined, or the process is aborted.
Joined == a_pc \in {"end", "abort"} /\ UNCHANGED pingPongVars

PingPongNext ==
    /\ UNCHANGED playing
    /\ \/ playing /\ (AStep \/ BStep \/ Joined)
       \/ ~ playing /\ Alone

PingPongSpec == PingPongInit /\ [][PingPongNext]_pingPongVars

PingPongFairness ==
    /\ WF_exchangeVars(playing /\ AStep)
    /\ WF_exchangeVars(playing /\ BStep)
-----------------------------------------------------------------------------
\* The answer thread a reads is the number it sent, however often the counters of both
\* queues wrap: else it aborts (ping_pong.cpp:66-69).
NeverAborts == a_pc # "abort"

\* The exchange ends: neither thread waits for an event or for room that will not come.
PingPongEnds == playing ~> a_pc = "end" /\ b_pc = "end"
=============================================================================
