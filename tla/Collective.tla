----------------------------- MODULE Collective -----------------------------
(***************************************************************************)
(* alltoall of hmc/collective.py over a group of W ranks, each with one     *)
(* registered buffer that holds a send and a receive region of W blocks.    *)
(* The direct algorithm connects the ranks in rounds with a barrier after   *)
(* each, then every rank puts its block into every peer's receive region    *)
(* and a last barrier ends the call.  The ring algorithm connects every     *)
(* rank to its right neighbour, and in W - 1 steps gets from the left, puts *)
(* to the right and passes a tag on.                                        *)
(*                                                                         *)
(* The contents of a block are the call, the rank that sends it and the     *)
(* rank it is for.  A put or get moves one chunk of a block in one step.    *)
(* Over RDMA a put returns when the chunk is in the peer's buffer.  Over    *)
(* UCX it returns when the source may be used again: nothing flushes the    *)
(* endpoint, and the chunk gets to the peer later, in any order.           *)
(* A connect call adds the caller's endpoint when it returns; the peer's    *)
(* listen thread adds the other one when it gets to it (RdmaConnect).       *)
(* Barriers are those of torch.distributed, and the control sockets under   *)
(* the tags of the ring are taken as connected.                             *)
(***************************************************************************)
EXTENDS Integers, Sequences, FiniteSets

CONSTANTS W,         \* world
          Chunks,    \* chunks of a block, bytes_per_peer over chunk_bytes, per algorithm
          Algos,     \* algorithms the application may ask for
          Ucx,       \* <<r, p>>: puts of r to p go over UCX
          MaxCalls,  \* bound: alltoall calls of a behaviour
          None       \* nothing received yet

ASSUME WAssumption == W \in Nat /\ W > 1
ASSUME AlgosAssumption == Algos \subseteq {"direct", "ring"}
ASSUME ChunksAssumption == Chunks \in [Algos -> Nat \ {0}]
ASSUME UcxAssumption == Ucx \subseteq {x \in (0 .. W - 1) \X (0 .. W - 1) : x[1] # x[2]}
ASSUME MaxCallsAssumption == MaxCalls \in Nat

VARIABLES
    algo,      \* the algorithm of this application's calls
    pc,        \* where each rank is
    call,      \* the call it is in or has completed
    step,      \* s of the connection rounds and of the ring
    dst,       \* dst of the direct algorithm
    moved,     \* chunks of the current block moved so far
    arrived,   \* barriers the rank has entered
    conns,     \* peers the rank has an endpoint for
    adopting,  \* accepted connections the rank's listen thread has yet to add
    send,      \* the call whose data is in the send region
    recv,      \* the receive region
    flying,    \* chunks whose put has returned and that are not there yet
    tags,      \* control messages from each rank to its right neighbour
    out        \* the recv argument

vars == <<algo, pc, call, step, dst, moved, arrived, conns, adopting, send, recv, flying, tags, out>>

Rank == 0 .. W - 1
Chunk == 0 .. Chunks[algo] - 1
Right(r) == (r + 1) % W
Left(r) == (r - 1 + W) % W

\* The block a rank sends to another in its current call.
Block(src, to) == <<send[src], src, to>>

Init ==
    /\ algo \in Algos
    /\ pc = [r \in Rank |-> "idle"]
    /\ call = [r \in Rank |-> 0]
    /\ step = [r \in Rank |-> 1]
    /\ dst = [r \in Rank |-> 0]
    /\ moved = [r \in Rank |-> 0]
    /\ arrived = [r \in Rank |-> 0]
    /\ conns = [r \in Rank |-> {}]
    /\ adopting = [r \in Rank |-> {}]
    /\ send = [r \in Rank |-> 0]
    /\ recv = [r \in Rank |-> [b \in Rank |-> [i \in Chunk |-> None]]]
    /\ flying = {}
    /\ tags = [r \in Rank |-> <<>>]
    /\ out = [r \in Rank |-> None]

Goto(r, label) == pc' = [pc EXCEPT ![r] = label]

----------------------------------------------------------------------------
(***************************************************************************)
(* Connecting                                                              *)
(***************************************************************************)

\* alltoall copies the send argument into the buffer first.
Start(r) ==
    /\ pc[r] = "idle"
    /\ call[r] < MaxCalls
    /\ call' = [call EXCEPT ![r] = @ + 1]
    /\ send' = [send EXCEPT ![r] = call[r] + 1]
    /\ step' = [step EXCEPT ![r] = 1]
    /\ Goto(r, "connect")
    /\ UNCHANGED <<algo, dst, moved, arrived, conns, adopting, recv, flying, tags, out>>

\* The peer of a connection round; the smaller rank connects to the larger.
MutDials(r, p) == TRUE
Dials(r, p) == algo = "direct" => r < p
Target(r) == IF algo = "direct" THEN (r + step[r]) % W ELSE Right(r)

\* The connect call of this round starts.
Connect(r) ==
    /\ pc[r] = "connect"
    /\ Dials(r, Target(r)) /\ Target(r) \notin conns[r]
    /\ Goto(r, "dial")
    /\ UNCHANGED <<algo, call, step, dst, moved, arrived, conns, adopting, send, recv, flying, tags, out>>

EnterBarrier(r, label) ==
    /\ arrived' = [arrived EXCEPT ![r] = @ + 1]
    /\ Goto(r, label)

\* The connect call returns, or raises.
Dialed(r) ==
    /\ pc[r] = "dial"
    /\ \/ /\ conns' = [conns EXCEPT ![r] = @ \cup {Target(r)}]
          /\ adopting' = [adopting EXCEPT ![Target(r)] = @ \cup {r}]
          /\ EnterBarrier(r, "barrier")
       \/ Goto(r, "raised") /\ UNCHANGED <<conns, adopting, arrived>>
    /\ UNCHANGED <<algo, call, step, dst, moved, send, recv, flying, tags, out>>

\* Nothing to connect in this round.
NoConnect(r) ==
    /\ pc[r] = "connect"
    /\ ~(Dials(r, Target(r)) /\ Target(r) \notin conns[r])
    /\ EnterBarrier(r, "barrier")
    /\ UNCHANGED <<algo, call, step, dst, moved, conns, adopting, send, recv, flying, tags, out>>

\* The listen thread of r adds the endpoint of an accepted connection.
Adopt(r) ==
    \E p \in adopting[r] :
        /\ adopting' = [adopting EXCEPT ![r] = @ \ {p}]
        /\ conns' = [conns EXCEPT ![r] = @ \cup {p}]
        /\ UNCHANGED <<algo, pc, call, step, dst, moved, arrived, send, recv, flying, tags, out>>

\* A barrier lets a rank go when all have entered it.
AllArrived(r) == \A p \in Rank : arrived[p] >= arrived[r]

\* for s in range(1, w)
MutMoreRounds(r) == algo = "direct" /\ step[r] < W
MoreRounds(r) == algo = "direct" /\ step[r] < W - 1

\* dist.barrier() of a round; after the last one the rank's own block is copied.
PassBarrier(r) ==
    /\ pc[r] = "barrier"
    /\ AllArrived(r)
    /\ IF MoreRounds(r)
       THEN /\ step' = [step EXCEPT ![r] = @ + 1]
            /\ Goto(r, "connect")
            /\ UNCHANGED <<dst, moved, recv>>
       ELSE /\ recv' = [recv EXCEPT ![r][r] = [i \in Chunk |-> Block(r, r)]]
            /\ step' = [step EXCEPT ![r] = 1]
            /\ dst' = [dst EXCEPT ![r] = 0]
            /\ moved' = [moved EXCEPT ![r] = 0]
            /\ Goto(r, IF algo = "direct" THEN "put" ELSE "ringGet")
    /\ UNCHANGED <<algo, call, arrived, conns, adopting, send, flying, tags, out>>

----------------------------------------------------------------------------
(***************************************************************************)
(* _direct_alltoall_core                                                   *)
(***************************************************************************)

\* No endpoint for the peer: the call raises.
NotConnected(r, p) ==
    /\ p \notin conns[r]
    /\ Goto(r, "raised")
    /\ UNCHANGED <<algo, call, step, dst, moved, arrived, conns, adopting, send, recv, flying, tags, out>>

\* The put of chunk moved[r], for block b of p's receive region, returns.
Deliver(r, p, b, data) ==
    IF <<r, p>> \in Ucx
    THEN /\ flying' = flying \cup {[to |-> p, block |-> b, chunk |-> moved[r], data |-> data]}
         /\ UNCHANGED recv
    ELSE /\ recv' = [recv EXCEPT ![p][b][moved[r]] = data]
         /\ UNCHANGED flying

\* A chunk put over UCX gets to its place.
Land ==
    \E x \in flying :
        /\ flying' = flying \ {x}
        /\ recv' = [recv EXCEPT ![x.to][x.block][x.chunk] = x.data]
        /\ UNCHANGED <<algo, pc, call, step, dst, moved, arrived, conns, adopting, send, tags, out>>

\* One chunk of the block for dst; it goes to the peer's block for r.
Put(r) ==
    /\ pc[r] = "put"
    /\ dst[r] < W /\ dst[r] # r
    /\ \/ NotConnected(r, dst[r])
       \/ /\ dst[r] \in conns[r]
          /\ Deliver(r, dst[r], r, Block(r, dst[r]))
          /\ IF moved[r] + 1 < Chunks[algo]
             THEN moved' = [moved EXCEPT ![r] = @ + 1] /\ UNCHANGED dst
             ELSE moved' = [moved EXCEPT ![r] = 0] /\ dst' = [dst EXCEPT ![r] = @ + 1]
          /\ UNCHANGED <<algo, pc, call, step, arrived, conns, adopting, send, tags, out>>

SkipSelf(r) ==
    /\ pc[r] = "put" /\ dst[r] = r
    /\ dst' = [dst EXCEPT ![r] = @ + 1]
    /\ UNCHANGED <<algo, pc, call, step, moved, arrived, conns, adopting, send, recv, flying, tags, out>>

MutPutsDone(r) ==
    /\ pc[r] = "put" /\ dst[r] = W
    /\ Goto(r, "last")
    /\ UNCHANGED <<algo, call, step, dst, moved, arrived, conns, adopting, send, recv, flying, tags, out>>
PutsDone(r) ==
    /\ pc[r] = "put" /\ dst[r] = W
    /\ EnterBarrier(r, "last")
    /\ UNCHANGED <<algo, call, step, dst, moved, conns, adopting, send, recv, flying, tags, out>>

\* The last barrier, and the copy into the recv argument.
Return(r) ==
    /\ \/ pc[r] = "last" /\ AllArrived(r)
       \/ pc[r] = "ringEnd"
    /\ out' = [out EXCEPT ![r] = recv[r]]
    /\ Goto(r, "idle")
    /\ UNCHANGED <<algo, call, step, dst, moved, arrived, conns, adopting, send, recv, flying, tags>>

----------------------------------------------------------------------------
(***************************************************************************)
(* _ring_alltoall_core                                                     *)
(***************************************************************************)
RecvPeer(r) == (r + step[r]) % W
SendPeer(r) == (r - step[r] + W) % W

\* left.send[recv_peer] -> my recv[recv_peer]
RingGet(r) ==
    /\ pc[r] = "ringGet"
    /\ \/ NotConnected(r, Left(r))
       \/ /\ Left(r) \in conns[r]
          /\ recv' = [recv EXCEPT ![r][RecvPeer(r)][moved[r]] = Block(Left(r), RecvPeer(r))]
          /\ Goto(r, "ringPut")
          /\ UNCHANGED <<algo, call, step, dst, moved, arrived, conns, adopting, send, flying, tags, out>>

\* ctrl_send to the right.
MutPassOn(r) == tags' = IF step[r] < W - 1 THEN [tags EXCEPT ![r] = Append(@, step[r])] ELSE tags
PassOn(r) == tags' = [tags EXCEPT ![r] = Append(@, step[r])]

\* my send[send_peer] -> right.recv[recv_peer]; after the last chunk the tag
\* goes to the right neighbour.
RingPut(r) ==
    /\ pc[r] = "ringPut"
    /\ Deliver(r, Right(r), RecvPeer(r), Block(r, SendPeer(r)))
    /\ IF moved[r] + 1 < Chunks[algo]
       THEN /\ moved' = [moved EXCEPT ![r] = @ + 1]
            /\ Goto(r, "ringGet")
            /\ UNCHANGED tags
       ELSE /\ moved' = [moved EXCEPT ![r] = 0]
            /\ PassOn(r)
            /\ Goto(r, "ringTag")
    /\ UNCHANGED <<algo, call, step, dst, arrived, conns, adopting, send, out>>

\* ctrl_recv from the left; a tag of another step raises.
RingTag(r) ==
    /\ pc[r] = "ringTag"
    /\ tags[Left(r)] # <<>>
    /\ tags' = [tags EXCEPT ![Left(r)] = Tail(@)]
    /\ IF Head(tags[Left(r)]) # step[r]
       THEN Goto(r, "mismatch") /\ UNCHANGED step
       ELSE IF step[r] < W - 1
       THEN Goto(r, "ringGet") /\ step' = [step EXCEPT ![r] = @ + 1]
       ELSE Goto(r, "ringEnd") /\ UNCHANGED step
    /\ UNCHANGED <<algo, call, dst, moved, arrived, conns, adopting, send, recv, flying, out>>

----------------------------------------------------------------------------
Proceed(r) ==
    \/ Connect(r) \/ Dialed(r) \/ NoConnect(r) \/ PassBarrier(r)
    \/ Put(r) \/ SkipSelf(r) \/ PutsDone(r) \/ Return(r)
    \/ RingGet(r) \/ RingPut(r) \/ RingTag(r)

Next ==
    \/ \E r \in Rank : Start(r) \/ Proceed(r) \/ Adopt(r)
    \/ Land

Spec == Init /\ [][Next]_vars

\* Every rank makes all its calls, and its listen thread is scheduled.
FairSpec == Spec /\ \A r \in Rank : WF_vars(Start(r) \/ Proceed(r)) /\ WF_vars(Adopt(r))

----------------------------------------------------------------------------
Contents == (0 .. MaxCalls) \X Rank \X Rank
Region == [Rank -> [Chunk -> Contents \cup {None}]]
Flight == [to : Rank, block : Rank, chunk : Chunk, data : Contents]

TypeOK ==
    /\ algo \in Algos
    /\ pc \in [Rank -> {"idle", "connect", "dial", "barrier", "put", "last", "ringGet", "ringPut",
                        "ringTag", "ringEnd", "raised", "mismatch"}]
    /\ call \in [Rank -> 0 .. MaxCalls]
    /\ step \in [Rank -> 1 .. W - 1]
    /\ dst \in [Rank -> 0 .. W]
    /\ moved \in [Rank -> Chunk]
    /\ arrived \in [Rank -> Nat]
    /\ conns \in [Rank -> SUBSET Rank]
    /\ adopting \in [Rank -> SUBSET Rank]
    /\ send \in [Rank -> 0 .. MaxCalls]
    /\ recv \in [Rank -> Region]
    /\ flying \subseteq Flight
    /\ tags \in [Rank -> Seq(1 .. W - 1)]
    /\ out \in [Rank -> Region \cup {None}]

\* A rank that has returned from its n-th call holds its own block and, from
\* every rank it has no UCX connection with, the block sent to it in that call,
\* although the ranks go on to their next calls at their own pace and put into
\* each other's buffers.  The last barrier does not say as much of a block that
\* comes over UCX: it may still be in flight.
Exchanged(r) ==
    (call[r] > 0 /\ pc[r] = "idle") =>
        \A b \in Rank : <<b, r>> \notin Ucx => out[r][b] = [i \in Chunk |-> <<call[r], b, r>>]
DirectExchanges == algo = "direct" => \A r \in Rank : Exchanged(r)

\* The connection rounds keep connect calls apart.  No server has two clients in
\* a connect call at once, which its listen loop could not tell apart; and since
\* "the smaller rank connects to the larger", a listen thread never adds an
\* endpoint for a peer its rank already has one for, which would destroy that one
\* under the calls that use it.
ConnectsSafely ==
    /\ \A r, p \in Rank : pc[r] = "dial" /\ pc[p] = "dial" /\ Target(r) = Target(p) => r = p
    /\ algo = "direct" => \A r \in Rank : adopting[r] \cap conns[r] = {}

\* Every call returns on every rank, unless one of them raises for want of a
\* connection: no rank waits in a barrier or for a tag that never comes, and none
\* reads the tag of another step than its own.
CallsReturn ==
    \A r \in Rank : pc[r] = "connect" ~> (pc[r] = "idle" \/ \E p \in Rank : pc[p] = "raised")
=============================================================================
