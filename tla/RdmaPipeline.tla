---------------------------- MODULE RdmaPipeline ----------------------------
(***************************************************************************)
(* writeDataPipeline and readDataPipeline (rdma_endpoint.cpp): a transfer   *)
(* cut into chunks that are posted round-robin over the queue pairs of an   *)
(* endpoint.  Every signal_interval-th chunk and the last one are signaled; *)
(* the call waits for the signaled ones after max_inflight posts and at the *)
(* end.                                                                    *)
(*                                                                         *)
(* The i-th work request of a queue pair is identified by i.  A queue pair  *)
(* executes in order, and a slot of its send queue becomes free when the    *)
(* completion of that or of a later work request of the same queue pair is  *)
(* polled, which only signaled ones have.  So of the chunks a call waits    *)
(* for, the last one of each queue pair matters (awaited).  A queue pair in *)
(* error executes nothing more; what is posted on it completes with an      *)
(* error, whether signaled or not.                                         *)
(*                                                                         *)
(* A call that fails returns at once: what it posted stays on the send      *)
(* queues, and nothing keeps the program from calling again.               *)
(*                                                                         *)
(* CqWait models the same endpoint; the names here differ from its names,   *)
(* so that one module can extend both.                                     *)
(***************************************************************************)
EXTENDS Integers

CONSTANTS PipeQPs,    \* num_qps_
          MaxWr,      \* max_wr: slots of a send queue
          Settings,   \* <<HMC_RDMA_PIPELINE_SIGNAL_INTERVAL, max_inflight>> pairs
          Sizes,      \* chunks of a transfer
          MaxPosts    \* bound: chunks posted in a behaviour

ASSUME PipeQPsAssumption == PipeQPs \in Nat \ {0}
ASSUME MaxWrAssumption == MaxWr \in Nat \ {0}
ASSUME PipeSettingsAssumption == Settings \subseteq (Nat \ {0}) \X (Nat \ {0})
ASSUME SizesAssumption == Sizes \subseteq Nat \ {0}
ASSUME MaxPostsAssumption == MaxPosts \in Nat

VARIABLES
    phase,           \* where the call is; "ok", "full" and "error" are its outcomes
    setting,         \* the environment's settings
    left,            \* chunks not posted yet: size - offset
    inflight_posts,
    since,           \* since_last_signal
    next,            \* next_qp_idx_
    awaited,         \* per queue pair the last work request of pending_wrs, or 0
    sent,            \* work requests posted on each queue pair
    ran,             \* work requests each queue pair has executed
    freed,           \* work requests whose slots of the send queue are free again
    signals,         \* signaled work requests whose completions are not polled yet
    dead,            \* queue pairs in error
    fails            \* calls that have failed since the last wait that succeeded

pipelineVars == <<phase, setting, left, inflight_posts, since, next, awaited, sent, ran, freed,
                  signals, dead, fails>>

QP == 0 .. PipeQPs - 1
MaxInflight == setting[2]

\* signal_interval is never above max_inflight.
Interval == IF setting[1] < MaxInflight THEN setting[1] ELSE MaxInflight

PipelineInit ==
    /\ phase = "idle"
    /\ setting \in Settings
    /\ left = 0 /\ inflight_posts = 0 /\ since = 0
    /\ next = 0
    /\ awaited = [q \in QP |-> 0]
    /\ sent = [q \in QP |-> 0]
    /\ ran = [q \in QP |-> 0]
    /\ freed = [q \in QP |-> 0]
    /\ signals = [q \in QP |-> {}]
    /\ dead = {}
    /\ fails = 0

----------------------------------------------------------------------------
\* A call, after one that succeeded or one that failed.
Start ==
    /\ phase \in {"idle", "ok", "full", "error"}
    /\ fails' = IF phase \in {"full", "error"} THEN fails + 1 ELSE fails
    /\ \E n \in Sizes : next + n <= MaxPosts /\ left' = n
    /\ inflight_posts' = 0 /\ since' = 0
    /\ awaited' = [q \in QP |-> 0]
    /\ phase' = "post"
    /\ UNCHANGED <<setting, next, sent, ran, freed, signals, dead>>

\* The queue pair of the next chunk.
Turn == next % PipeQPs

MutSignaled == Interval <= 1 \/ since + 1 >= Interval
MutLateSignal == Interval <= 1 \/ left = 1 \/ since + 1 > Interval
Signaled == Interval <= 1 \/ left = 1 \/ since + 1 >= Interval

\* The call waits after max_inflight posts and at the end.
MustWait == inflight_posts + 1 >= MaxInflight \/ left = 1

\* ibv_post_send finds a free slot and the chunk is on its way.
PostChunk ==
    /\ phase = "post"
    /\ sent[Turn] - freed[Turn] < MaxWr
    /\ sent' = [sent EXCEPT ![Turn] = @ + 1]
    /\ next' = next + 1
    /\ awaited' = [awaited EXCEPT ![Turn] = IF Signaled THEN sent[Turn] + 1 ELSE @]
    /\ signals' = [signals EXCEPT ![Turn] = IF Signaled THEN @ \cup {sent[Turn] + 1} ELSE @]
    /\ since' = IF Signaled THEN 0 ELSE since + 1
    /\ left' = left - 1
    /\ inflight_posts' = inflight_posts + 1
    /\ phase' = IF MustWait THEN "wait" ELSE "post"
    /\ UNCHANGED <<setting, ran, freed, dead, fails>>

\* ibv_post_send finds the send queue full and the call returns ERROR.
PostFull ==
    /\ phase = "post"
    /\ sent[Turn] - freed[Turn] >= MaxWr
    /\ phase' = "full"
    /\ next' = next + 1
    /\ UNCHANGED <<setting, left, inflight_posts, since, awaited, sent, ran, freed, signals, dead, fails>>

AllCompleted == \A q \in QP : awaited[q] <= ran[q]

\* The completions on the completion queue, and those with an error.
Completed(q) == {i \in signals[q] : i <= ran[q]}
Flushed(q) == IF q \in dead THEN ran[q] + 1 .. sent[q] ELSE {}

\* Polling up to the completion of work request f[q] frees the slots up to it.
Polled(f) ==
    /\ freed' = f
    /\ signals' = [q \in QP |-> {i \in signals[q] : i > f[q]}]

\* A new window of max_inflight posts.
MutRestart == UNCHANGED inflight_posts
Restart == inflight_posts' = 0

\* waitWrIdMulti(pending_wrs) has seen every completion it waits for and no
\* error; it may have polled others, of calls that failed.
Wait ==
    /\ phase = "wait"
    /\ AllCompleted
    /\ \E f \in [QP -> 0 .. next] :
         /\ \A q \in QP : f[q] \in {freed[q]} \cup Completed(q) /\ f[q] >= awaited[q]
         /\ Polled(f)
    /\ awaited' = [q \in QP |-> 0]
    /\ Restart
    /\ fails' = 0
    /\ phase' = IF left = 0 THEN "ok" ELSE "post"
    /\ UNCHANGED <<setting, left, since, next, sent, ran, dead>>

\* waitWrIdMulti times out, meets an error completion or cannot poll, and the
\* call returns ERROR, whatever was polled before.
WaitFails ==
    /\ phase = "wait"
    /\ \E f \in [QP -> 0 .. next] :
         /\ \A q \in QP : f[q] \in {freed[q]} \cup Completed(q) \cup Flushed(q) /\ f[q] >= freed[q]
         /\ Polled(f)
    /\ phase' = "error"
    /\ UNCHANGED <<setting, left, inflight_posts, since, next, awaited, sent, ran, dead, fails>>

PipelineNic(q) ==
    /\ q \notin dead
    /\ ran[q] < sent[q]
    /\ ran' = [ran EXCEPT ![q] = @ + 1]
    /\ UNCHANGED <<phase, setting, left, inflight_posts, since, next, awaited, sent, freed,
                   signals, dead, fails>>

\* The queue pair goes to the error state.
QpFails(q) ==
    /\ q \notin dead
    /\ dead' = dead \cup {q}
    /\ UNCHANGED <<phase, setting, left, inflight_posts, since, next, awaited, sent, ran, freed,
                   signals, fails>>

PipelineNext ==
    \/ Start \/ PostChunk \/ PostFull \/ Wait \/ WaitFails
    \/ \E q \in QP : PipelineNic(q) \/ QpFails(q)

PipelineSpec == PipelineInit /\ [][PipelineNext]_pipelineVars

----------------------------------------------------------------------------
PipelineTypeOK ==
    /\ phase \in {"idle", "post", "wait", "ok", "full", "error"}
    /\ setting \in Settings
    /\ left \in Nat
    /\ inflight_posts \in 0 .. MaxInflight
    /\ since \in Nat
    /\ next \in Nat
    /\ awaited \in [QP -> Nat]
    /\ sent \in [QP -> Nat]
    /\ ran \in [QP -> Nat]
    /\ freed \in [QP -> Nat]
    /\ signals \in [QP -> SUBSET Nat]
    /\ dead \subseteq QP
    /\ fails \in Nat

\* The send queue holds the window of this call, those of the calls that
\* failed since the last successful wait, and the unsignaled tail before them.
\* The defaults (interval 16, window 64, max_wr 128) fit as long as no call
\* fails; after one failed call they no longer do.
Fits == Interval - 1 + MaxInflight * (fails + 1) <= MaxWr

\* With one queue pair ibv_post_send never finds a send queue that fits full,
\* over any number of calls, the ones that failed counted.
SlotsSuffice == (PipeQPs = 1 /\ Fits) => phase # "full"

\* When a pipelined transfer returns SUCCESS all of it has been executed:
\* apps/python_app/perf_write_bw.py tells the peer to verify the data then.
AllDelivered == phase = "ok" => ran = sent
=============================================================================
