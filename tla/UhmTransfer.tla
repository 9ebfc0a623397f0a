---------------------------- MODULE UhmTransfer ----------------------------
(***************************************************************************)
(* One UHM transfer between two connected RDMA endpoints: uhm_send on the   *)
(* Sender, uhm_recv on the Receiver (rdma_endpoint.cpp).  The registered    *)
(* buffer of each endpoint is cut in two halves; chunk k travels through    *)
(* half k % 2, and the two words uhm_buffer_state.state[0..1], mirrored by  *)
(* RDMA writes in both directions, say who may touch a half.                *)
(*                                                                         *)
(* The NIC is modelled from the way the code uses it: a posted RDMA write   *)
(* is executed later, reads its source at that moment, and the writes       *)
(* posted on one queue pair are executed in posting order; queue pairs are  *)
(* independent.  A chunk's bytes are abstracted to the chunk's number.      *)
(* wr_ids grow with the posting order, so a work request is identified by   *)
(* its kind and its chunk.                                                 *)
(*                                                                         *)
(* Definitions named Mut... are seeded faults, used only to test that the   *)
(* properties notice them.                                                  *)
(***************************************************************************)
EXTENDS Integers, FiniteSets

CONSTANTS NumChunks,    \* num_send_chunks: chunks of the message
          NumQPs,       \* num_qps_ of the endpoints
          Settings,     \* <<HMC_UHM_SIGNAL_INTERVAL, HMC_UHM_PENDING_SIGNAL>> pairs
          Capacities,   \* room in the receiver's output buffer, in chunks
          None          \* a half or an output slot nothing was copied to

ASSUME NumChunksAssumption == NumChunks \in Nat \ {0}
ASSUME NumQPsAssumption == NumQPs \in Nat \ {0}
ASSUME SettingsAssumption == Settings \subseteq (Nat \ {0}) \X (Nat \ {0})
ASSUME CapacitiesAssumption == Capacities \subseteq Nat
ASSUME NoneAssumption == None \notin Nat

VARIABLES
    pc,        \* where each side's call is
    chunk,     \* current_chunk
    state,     \* uhm_buffer_state.state
    length,    \* uhm_buffer_state.length and chunk_bytes, as a number of chunks
    half,      \* the two halves of the registered buffer
    sq,        \* posted work requests the NIC has not executed
    pending,   \* pending_signaled, as chunk numbers
    since,     \* since_last_signal
    setting,   \* the environment's signalling settings, read at call time
    capacity,  \* buffer_size argument of uhm_recv
    output     \* the receiver's output_buffer

vars == <<pc, chunk, state, length, half, sq, pending, since, setting, capacity, output>>

Side == {"Sender", "Receiver"}
Peer(s) == IF s = "Sender" THEN "Receiver" ELSE "Sender"

CAN_WRITE == 0
CAN_READ == 1

Chunk == 0 .. NumChunks - 1
Half == {0, 1}
Payload == Chunk \cup {None}

(***************************************************************************)
(* Work requests.  The bootstrap writes the whole uhm_buffer_state; "data"  *)
(* writes a half; "flag" writes one word of uhm_buffer_state.state.         *)
(***************************************************************************)
WR == [kind : {"boot", "data", "flag"}, k : Chunk]
Boot == [kind |-> "boot", k |-> 0]
Data(k) == [kind |-> "data", k |-> k]
Flag(k) == [kind |-> "flag", k |-> k]

\* The bootstrap uses queue pair 0, a chunk's data and flag use the same one.
MutQpOf(w) == IF w.kind = "flag" THEN (w.k + 1) % NumQPs ELSE w.k % NumQPs
QpOf(w) == IF w.kind = "boot" THEN 0 ELSE w.k % NumQPs

\* v was posted before w.
PostedBefore(v, w) ==
    \/ v.kind = "boot" /\ w.kind # "boot"
    \/ v.kind # "boot" /\ w.kind # "boot" /\ v.k < w.k
    \/ v.kind = "data" /\ w.kind = "flag" /\ v.k = w.k

\* uhm_buffer_state has no initial value in the code; both calls store every
\* word of it before they read it.
Init ==
    /\ pc = [s \in Side |-> "idle"]
    /\ chunk = [s \in Side |-> 0]
    /\ state = [s \in Side |-> [i \in Half |-> CAN_WRITE]]
    /\ length = [s \in Side |-> 0]
    /\ half = [s \in Side |-> [i \in Half |-> None]]
    /\ sq = [s \in Side |-> {}]
    /\ pending = [s \in Side |-> {}]
    /\ since = [s \in Side |-> 0]
    /\ setting \in [Side -> Settings]
    /\ capacity \in Capacities
    /\ output = [k \in Chunk |-> None]

Goto(s, label) == pc' = [pc EXCEPT ![s] = label]

Post(s, w) == sq' = [sq EXCEPT ![s] = @ \cup {w}]

(***************************************************************************)
(* Signalling: the last flag of the message and every signal_interval-th    *)
(* one are signaled; the call waits when max_pending_signal are pending.    *)
(***************************************************************************)
Interval(s) == setting[s][1]
MaxPending(s) == setting[s][2]

Signaled(s) ==
    \/ Interval(s) <= 1
    \/ chunk[s] + 1 >= NumChunks
    \/ since[s] + 1 >= Interval(s)

TrackSignal(s) ==
    /\ pending' = [pending EXCEPT ![s] = IF Signaled(s) THEN @ \cup {chunk[s]} ELSE @]
    /\ since' = [since EXCEPT ![s] = IF Signaled(s) THEN 0 ELSE @ + 1]

\* pending_signaled.size() >= max_pending_signal.
MutWindowFull(s, ids) == Cardinality(ids) > MaxPending(s)
WindowFull(s, ids) == Cardinality(ids) >= MaxPending(s)

\* What waitWrIdMulti(pending_signaled) waits for.
AllCompleted(s) == \A k \in pending[s] : Flag(k) \notin sq[s]

----------------------------------------------------------------------------
(***************************************************************************)
(* uhm_send                                                                *)
(***************************************************************************)

\* Both words and the length are set, and the whole structure is written out.
SendStart ==
    /\ pc["Sender"] = "idle"
    /\ state' = [state EXCEPT !["Sender"] = [i \in Half |-> CAN_WRITE]]
    /\ length' = [length EXCEPT !["Sender"] = NumChunks]
    /\ \/ Post("Sender", Boot) /\ Goto("Sender", "first")
       \/ Goto("Sender", "error") /\ UNCHANGED sq
    /\ UNCHANGED <<chunk, half, pending, since, setting, capacity, output>>

SendPrefillFirst ==
    /\ pc["Sender"] = "first"
    /\ half' = [half EXCEPT !["Sender"][0] = 0]
    /\ Goto("Sender", "boot")
    /\ UNCHANGED <<chunk, state, length, sq, pending, since, setting, capacity, output>>

\* waitWrId on the bootstrap; an error completion ends the call.
SendBootWait ==
    /\ pc["Sender"] = "boot"
    /\ \/ Boot \notin sq["Sender"] /\ Goto("Sender", "loop")
       \/ Boot \in sq["Sender"] /\ Goto("Sender", "error")
    /\ UNCHANGED <<chunk, state, length, half, sq, pending, since, setting, capacity, output>>

\* The spin on uhm_buffer_state.state[chunk_index].
MutAlwaysWrite(k) == TRUE
MayWrite(k) == state["Sender"][k % 2] = CAN_WRITE

SendData ==
    /\ pc["Sender"] = "loop"
    /\ chunk["Sender"] < NumChunks
    /\ MayWrite(chunk["Sender"])
    /\ \/ Post("Sender", Data(chunk["Sender"])) /\ Goto("Sender", "flag")
       \/ Goto("Sender", "error") /\ UNCHANGED sq
    /\ UNCHANGED <<chunk, state, length, half, pending, since, setting, capacity, output>>

SendFlag ==
    /\ pc["Sender"] = "flag"
    /\ state' = [state EXCEPT !["Sender"][chunk["Sender"] % 2] = CAN_READ]
    /\ \/ Post("Sender", Flag(chunk["Sender"])) /\ Goto("Sender", "next") /\ TrackSignal("Sender")
       \/ Goto("Sender", "errorFlag") /\ UNCHANGED <<sq, pending, since>>
    /\ UNCHANGED <<chunk, length, half, setting, capacity, output>>

\* The other half is filled with the next chunk as soon as this one is posted.
MutPrefillNext(k) == half' = [half EXCEPT !["Sender"][(k + 1) % 2] = k + 1]
PrefillNext(k) ==
    half' = IF k + 1 < NumChunks
            THEN [half EXCEPT !["Sender"][(k + 1) % 2] = k + 1]
            ELSE half

SendPrefillNext ==
    /\ pc["Sender"] = "next"
    /\ PrefillNext(chunk["Sender"])
    /\ chunk' = [chunk EXCEPT !["Sender"] = @ + 1]
    /\ Goto("Sender", IF WindowFull("Sender", pending["Sender"])
                      THEN "wait" ELSE "loop")
    /\ UNCHANGED <<state, length, sq, pending, since, setting, capacity, output>>

----------------------------------------------------------------------------
(***************************************************************************)
(* uhm_recv                                                                *)
(***************************************************************************)

RecvStart ==
    /\ pc["Receiver"] = "idle"
    /\ state' = [state EXCEPT !["Receiver"] = [i \in Half |-> CAN_READ]]
    /\ Goto("Receiver", "zero")
    /\ UNCHANGED <<chunk, length, half, sq, pending, since, setting, capacity, output>>

\* The stores of length and chunk_bytes.  chunk_bytes is not kept: both sides
\* take half the buffer as the chunk, which is also what a receiver falls back
\* to when the bootstrap write lands between the two stores.
RecvZeroLength ==
    /\ pc["Receiver"] = "zero"
    /\ length' = [length EXCEPT !["Receiver"] = 0]
    /\ Goto("Receiver", "poll")
    /\ UNCHANGED <<chunk, state, half, sq, pending, since, setting, capacity, output>>

\* The loop that samples uhm_buffer_state until state[0] says CAN_WRITE.
RecvPoll ==
    /\ pc["Receiver"] = "poll"
    /\ state["Receiver"][0] = CAN_WRITE
    /\ Goto("Receiver", IF length["Receiver"] = 0 THEN "error" ELSE "reset0")
    /\ UNCHANGED <<chunk, state, length, half, sq, pending, since, setting, capacity, output>>

\* The sampled words are then stored again, one after the other.
ResetWord(i, here, next) ==
    /\ pc["Receiver"] = here
    /\ state' = [state EXCEPT !["Receiver"][i] = CAN_WRITE]
    /\ Goto("Receiver", next)
    /\ UNCHANGED <<chunk, length, half, sq, pending, since, setting, capacity, output>>

RecvReset0 == ResetWord(0, "reset0", "reset1")
RecvReset1 == ResetWord(1, "reset1", "loop")

\* The spin on the receiver's own word of the half.
MutMayRead(k) == TRUE
MayRead(k) == state["Receiver"][k % 2] = CAN_READ

\* The boundary checks and the copy out of one chunk.
RecvChunk ==
    LET k == chunk["Receiver"]
    IN  /\ pc["Receiver"] = "loop"
        /\ k < NumChunks
        /\ MayRead(k)
        /\ IF k < capacity
           THEN /\ output' = [output EXCEPT ![k] = half["Receiver"][k % 2]]
                /\ Goto("Receiver", "grant")
           ELSE Goto("Receiver", "error") /\ UNCHANGED output
        /\ UNCHANGED <<chunk, state, length, half, sq, pending, since, setting, capacity>>

\* The half of chunk k may be written again.
MutReleaseHalf(k) == state' = [state EXCEPT !["Receiver"][(k + 1) % 2] = CAN_WRITE]
ReleaseHalf(k) == state' = [state EXCEPT !["Receiver"][k % 2] = CAN_WRITE]

\* The half is released and the word written back to the sender.
RecvGrant ==
    /\ pc["Receiver"] = "grant"
    /\ ReleaseHalf(chunk["Receiver"])
    /\ \/ /\ Post("Receiver", Flag(chunk["Receiver"]))
          /\ TrackSignal("Receiver")
          /\ chunk' = [chunk EXCEPT !["Receiver"] = @ + 1]
          /\ Goto("Receiver", IF WindowFull("Receiver", pending'["Receiver"])
                              THEN "wait" ELSE "loop")
       \/ Goto("Receiver", "errorGrant") /\ UNCHANGED <<sq, pending, since, chunk>>
    /\ UNCHANGED <<length, half, setting, capacity, output>>

----------------------------------------------------------------------------
(***************************************************************************)
(* waitWrIdMulti(pending_signaled), in the loop and at the end of the call. *)
(* It returns an error after 5 seconds or on an error completion.           *)
(***************************************************************************)
WaitPending(s) ==
    /\ pc[s] = "wait"
    /\ AllCompleted(s)
    /\ pending' = [pending EXCEPT ![s] = {}]
    /\ Goto(s, "loop")
    /\ UNCHANGED <<chunk, state, length, half, sq, since, setting, capacity, output>>

Finish(s) ==
    /\ pc[s] = "loop"
    /\ chunk[s] = NumChunks
    /\ AllCompleted(s)
    /\ Goto(s, "done")
    /\ UNCHANGED <<chunk, state, length, half, sq, pending, since, setting, capacity, output>>

WaitFails(s) ==
    /\ pc[s] = "wait" \/ (pc[s] = "loop" /\ chunk[s] = NumChunks)
    /\ ~AllCompleted(s)
    /\ Goto(s, "error")
    /\ UNCHANGED <<chunk, state, length, half, sq, pending, since, setting, capacity, output>>

----------------------------------------------------------------------------
(***************************************************************************)
(* The NIC executes the oldest work request of a queue pair.               *)
(***************************************************************************)
Oldest(s, w) ==
    /\ w \in sq[s]
    /\ \A v \in sq[s] : QpOf(v) = QpOf(w) => ~PostedBefore(v, w)

Retire(s, w) == sq' = [sq EXCEPT ![s] = @ \ {w}]

NicBoot ==
    /\ Oldest("Sender", Boot)
    /\ state' = [state EXCEPT !["Receiver"] = state["Sender"]]
    /\ length' = [length EXCEPT !["Receiver"] = length["Sender"]]
    /\ Retire("Sender", Boot)
    /\ UNCHANGED <<pc, chunk, half, pending, since, setting, capacity, output>>

NicData(k) ==
    /\ Oldest("Sender", Data(k))
    /\ half' = [half EXCEPT !["Receiver"][k % 2] = half["Sender"][k % 2]]
    /\ Retire("Sender", Data(k))
    /\ UNCHANGED <<pc, chunk, state, length, pending, since, setting, capacity, output>>

NicFlag(s, k) ==
    /\ Oldest(s, Flag(k))
    /\ state' = [state EXCEPT ![Peer(s)][k % 2] = state[s][k % 2]]
    /\ Retire(s, Flag(k))
    /\ UNCHANGED <<pc, chunk, length, half, pending, since, setting, capacity, output>>

----------------------------------------------------------------------------
SenderStep ==
    \/ SendStart \/ SendPrefillFirst \/ SendBootWait
    \/ SendData \/ SendFlag \/ SendPrefillNext
    \/ WaitPending("Sender") \/ Finish("Sender")

ReceiverStep ==
    \/ RecvStart \/ RecvZeroLength \/ RecvPoll \/ RecvReset0 \/ RecvReset1
    \/ RecvChunk \/ RecvGrant
    \/ WaitPending("Receiver") \/ Finish("Receiver")

Nic ==
    \/ NicBoot
    \/ \E k \in Chunk : NicData(k)
    \/ \E s \in Side, k \in Chunk : NicFlag(s, k)

Next ==
    \/ SenderStep
    \/ ReceiverStep
    \/ \E s \in Side : WaitFails(s)
    \/ Nic

Spec == Init /\ [][Next]_vars

----------------------------------------------------------------------------
Labels == {"idle", "first", "boot", "loop", "flag", "next", "wait", "done", "error",
           "errorFlag", "zero", "poll", "reset0", "reset1", "grant", "errorGrant"}

TypeOK ==
    /\ pc \in [Side -> Labels]
    /\ chunk \in [Side -> 0 .. NumChunks]
    /\ state \in [Side -> [Half -> {CAN_WRITE, CAN_READ}]]
    /\ length \in [Side -> {0, NumChunks}]
    /\ half \in [Side -> [Half -> Payload]]
    /\ sq \in [Side -> SUBSET WR]
    /\ pending \in [Side -> SUBSET Chunk]
    /\ since \in [Side -> Nat]
    /\ setting \in [Side -> Settings]
    /\ capacity \in Capacities
    /\ output \in [Chunk -> Payload]
----------------------------------------------------------------------------
(***************************************************************************)
(* Properties                                                              *)
(***************************************************************************)

\* Chunks the receiver has copied out of its buffer.
Copied == chunk["Receiver"] + (IF pc["Receiver"] \in {"grant", "errorGrant"} THEN 1 ELSE 0)

\* Chunks whose data write the sender has posted.
Posted == chunk["Sender"] + (IF pc["Sender"] \in {"flag", "next", "errorFlag"} THEN 1 ELSE 0)

\* Flow control: a data write that is still outstanding never targets a half
\* whose earlier chunk the receiver has not copied out ("copy out first, then
\* grant write-back to avoid overwrite race").
FlowControl ==
    \A k \in Chunk : Data(k) \in sq["Sender"] => k < Copied + 2

\* A chunk the receiver copied out is the right one or, when the sender's
\* prefill overtook the DMA, the next chunk of the same half: never an older
\* one, which is what "same QP to preserve order" between data and flag buys.
RightOrOvertaken ==
    \A k \in Chunk : output[k] \in {None, k, k + 2}

\* With HMC_UHM_SIGNAL_INTERVAL = 1 and HMC_UHM_PENDING_SIGNAL = 1 the sender
\* waits for each flag before it posts the next chunk, so no prefill overtakes
\* a data write and every chunk arrives intact.
IntactWhenSerialized ==
    setting["Sender"] = <<1, 1>> => \A k \in Chunk : output[k] \in {None, k}

\* Every chunk the receiver copies out is the chunk that was sent, whatever the
\* settings: what the data integrity check of apps/uhm_app/server.cpp expects.
EveryChunkIntact == \A k \in Chunk : output[k] \in {None, k}

\* The receiver resets its words before the first flag of the sender is posted.
Met ==
    /\ pc["Receiver"] = "loop" /\ chunk["Receiver"] = 0
    /\ pc["Sender"] \in {"first", "boot", "loop", "flag"} /\ chunk["Sender"] = 0

\* One of the calls returned an error: a post failed, a wait failed, or the
\* receiver rejected the size.
Failed == \E s \in Side : pc[s] \in {"error", "errorFlag", "errorGrant"}

\* Once the two calls have met, both return: no grant and no flag is lost or
\* overwritten on any queue pair, and neither side spins forever.
MetCompletes == Met ~> (Failed \/ \A s \in Side : pc[s] = "done")

\* The calls' threads are scheduled and the NIC executes what is posted.
FairSpec ==
    /\ Spec
    /\ WF_vars(SenderStep)
    /\ WF_vars(ReceiverStep)
    /\ WF_vars(Nic)

\* The transfer is a window of two chunks.
Channel == INSTANCE UhmChannel WITH posted <- Posted, copied <- Copied

\* Every step of the transfer is a step of the two-chunk window, or changes
\* neither of its counters.
ImplementsChannel == Channel!Spec

=============================================================================
