-------------------------- MODULE CollectiveProofs --------------------------
(***************************************************************************)
(* alltoall for every number of ranks, of chunks and of calls: the           *)
(* connection rounds keep connect calls apart, and the direct algorithm      *)
(* delivers each call's blocks over RDMA although the ranks run ahead of     *)
(* each other.                                                             *)
(*                                                                         *)
(* The barriers are the clock.  A call of the direct algorithm enters W of   *)
(* them, so the barriers a rank has entered tell its call and its round;     *)
(* and a rank that is not inside a barrier is never ahead of another one.    *)
(***************************************************************************)
EXTENDS Collective, TLAPS

\* Barriers of the first c calls.
Base(c) == c * W

\* Barriers entered in the current call.
Phase(r) == arrived[r] + W - Base(call[r])

Clock ==
    algo = "direct" => \A r \in Rank :
        /\ pc[r] \in {"idle", "last"} => Phase(r) = W
        /\ pc[r] \in {"connect", "dial"} => Phase(r) = step[r] - 1
        /\ pc[r] = "barrier" => Phase(r) = step[r]
        /\ pc[r] = "put" => Phase(r) = W - 1
        /\ pc[r] = "raised" => Phase(r) \in 0 .. W - 1
        /\ pc[r] \notin {"ringGet", "ringPut", "ringTag", "ringEnd", "mismatch"}

\* A rank in a barrier is at most one ahead, any other not at all.
Barriers ==
    \A r, p \in Rank :
        IF pc[r] \in {"barrier", "last"} THEN arrived[r] <= arrived[p] + 1
                                         ELSE arrived[r] <= arrived[p]

\* Which connections there are: the smaller rank of a pair has the endpoint
\* first, the larger one when its listen thread has added it.
Connections ==
    algo = "direct" => \A r, p \in Rank :
        /\ p \in adopting[r] => p < r /\ r \in conns[p] /\ p \notin conns[r]
        /\ p \in conns[r] /\ p < r => r \in conns[p]

Dialing ==
    algo = "direct" => \A r \in Rank :
        pc[r] = "dial" => r < Target(r) /\ Target(r) \notin conns[r]

Sent == \A r \in Rank : send[r] = call[r] /\ (pc[r] # "idle" => call[r] > 0)

\* What rank b has put into the receive region of q over RDMA.
Full(c, b, q) == [i \in Chunk |-> <<c, b, q>>]
Before(b) == pc[b] \in {"connect", "dial", "barrier"} \/ (pc[b] = "raised" /\ Phase(b) < W - 1)
Blocks ==
    algo = "direct" => \A b, q \in Rank : <<b, q>> \notin Ucx =>
        /\ pc[b] \in {"idle", "last"} /\ call[b] > 0 => recv[q][b] = Full(call[b], b, q)
        /\ Before(b) /\ call[b] > 1 => recv[q][b] = Full(call[b] - 1, b, q)
        /\ pc[b] = "put" =>
              /\ dst[b] = b => moved[b] = 0
              /\ q < dst[b] \/ q = b => recv[q][b] = Full(call[b], b, q)
              /\ q = dst[b] => \A i \in Chunk : i < moved[b] => recv[q][b][i] = <<call[b], b, q>>

\* What is in flight was put over UCX, into the sender's own block.
Flying == algo = "direct" => \A x \in flying : <<x.block, x.to>> \in Ucx

IInv ==
    /\ TypeOK /\ Clock /\ Barriers /\ Connections /\ Dialing /\ Sent /\ Blocks /\ Flying
    /\ DirectExchanges

----------------------------------------------------------------------------
USE WAssumption, AlgosAssumption, ChunksAssumption, MaxCallsAssumption

\* A rank copies its own block.
LEMMA OwnIsCopied == ASSUME NEW r \in Rank PROVE <<r, r>> \notin Ucx
  BY UcxAssumption DEF Rank

LEMMA BaseFacts ==
    ASSUME NEW c \in Nat, NEW d \in Nat
    PROVE  /\ Base(c) \in Nat
           /\ Base(c + 1) = Base(c) + W
           /\ c < d => Base(c) + W <= Base(d)
           /\ Base(0) = 0
<1>1. Base(c) \in Nat /\ Base(c + 1) = Base(c) + W /\ Base(0) = 0
  BY DEF Base
<1>2. ASSUME c < d PROVE Base(c) + W <= Base(d)
  <2>1. PICK e \in Nat : d = (c + 1) + e
    <3>1. d - (c + 1) \in Nat /\ d = (c + 1) + (d - (c + 1))
      BY <1>2
    <3> QED
      BY <3>1
  <2>2. d * W = (c + 1) * W + e * W
    BY <2>1
  <2>3. e * W \in Nat
    OBVIOUS
  <2>4. (c + 1) * W = c * W + W
    OBVIOUS
  <2>5. c * W \in Nat /\ d * W \in Nat
    OBVIOUS
  <2> QED
    BY <2>2, <2>3, <2>4, <2>5 DEF Base
<1> QED
  BY <1>1, <1>2

\* The arithmetic of the rank numbers.
LEMMA Wrap ==
    ASSUME NEW a \in Nat, a < 2 * W
    PROVE  a % W = (IF a < W THEN a ELSE a - W) /\ a % W \in Rank
  BY DEF Rank

LEMMA WrapInjective ==
    ASSUME NEW a \in Nat, a < W, NEW b \in Nat, b < W, NEW s \in 1 .. W - 1,
           (IF a + s < W THEN a + s ELSE (a + s) - W) = (IF b + s < W THEN b + s ELSE (b + s) - W)
    PROVE  a = b
  OBVIOUS

LEMMA RankFacts ==
    ASSUME TypeOK, NEW r \in Rank
    PROVE  /\ r \in Nat /\ r < W
           /\ Right(r) \in Rank /\ Left(r) \in Rank /\ Target(r) \in Rank
           /\ RecvPeer(r) \in Rank /\ SendPeer(r) \in Rank
           /\ Right(r) = IF r + 1 < W THEN r + 1 ELSE (r + 1) - W
           /\ algo = "direct" => Target(r) = IF r + step[r] < W THEN r + step[r] ELSE (r + step[r]) - W
<1>0. step[r] \in 1 .. W - 1
  BY DEF TypeOK
<1>1. r \in Nat /\ r < W /\ step[r] \in Nat /\ 1 <= step[r] /\ step[r] < W
  BY <1>0 DEF Rank
<1>2. r + 1 \in Nat /\ r + 1 < 2 * W /\ (r - 1) + W \in Nat /\ (r - 1) + W < 2 * W
      /\ r + step[r] \in Nat /\ r + step[r] < 2 * W
      /\ (r - step[r]) + W \in Nat /\ (r - step[r]) + W < 2 * W
  BY <1>1
<1>3. Right(r) \in Rank /\ Right(r) = IF r + 1 < W THEN r + 1 ELSE (r + 1) - W
  BY <1>2, Wrap DEF Right
<1>4. Left(r) \in Rank /\ RecvPeer(r) \in Rank /\ SendPeer(r) \in Rank
  BY <1>2, Wrap DEF Left, RecvPeer, SendPeer
<1>5. /\ Target(r) \in Rank
      /\ algo = "direct" => Target(r) = IF r + step[r] < W THEN r + step[r] ELSE (r + step[r]) - W
  BY <1>2, <1>3, Wrap DEF Target
<1> QED
  BY <1>1, <1>3, <1>4, <1>5

LEMMA ChunkFacts ==
    ASSUME TypeOK
    PROVE  /\ 0 \in Chunk /\ Chunk \subseteq Nat
           /\ \A i \in Nat : i \in Chunk <=> i < Chunks[algo]
           /\ \A i \in Chunk : i + 1 < Chunks[algo] => i + 1 \in Chunk
<1>1. Chunks[algo] \in Nat \ {0}
  BY DEF TypeOK
<1> QED
  BY <1>1 DEF Chunk

LEMMA InitTypeOK == Init => TypeOK
<1> SUFFICES ASSUME Init PROVE TypeOK
  OBVIOUS
<1>1. 0 \in Chunk /\ 1 \in 1 .. W - 1 /\ 0 \in 0 .. W
  BY DEF Init, Chunk
<1>2. [b \in Rank |-> [i \in Chunk |-> None]] \in Region
  BY DEF Region
<1>3. recv \in [Rank -> Region] /\ out \in [Rank -> Region \cup {None}]
  BY <1>2 DEF Init
<1>4. tags \in [Rank -> Seq(1 .. W - 1)]
  BY DEF Init
<1>5. /\ call \in [Rank -> 0 .. MaxCalls] /\ send \in [Rank -> 0 .. MaxCalls]
      /\ step \in [Rank -> 1 .. W - 1] /\ dst \in [Rank -> 0 .. W]
      /\ moved \in [Rank -> Chunk] /\ arrived \in [Rank -> Nat]
      /\ conns \in [Rank -> SUBSET Rank] /\ adopting \in [Rank -> SUBSET Rank]
  BY <1>1 DEF Init
<1>6. algo \in Algos /\ pc = [r \in Rank |-> "idle"] /\ flying \subseteq Flight
  BY DEF Init
<1> QED
  BY <1>3, <1>4, <1>5, <1>6 DEF TypeOK

\* Writing one chunk, or a whole block, of a receive region.
LEMMA RegionWrite ==
    ASSUME TypeOK, NEW q \in Rank, NEW b \in Rank, NEW v \in Contents
    PROVE  /\ \A f \in [Chunk -> Contents \cup {None}] : [recv EXCEPT ![q][b] = f] \in [Rank -> Region]
           /\ \A j \in Chunk : [recv EXCEPT ![q][b][j] = v] \in [Rank -> Region]
<1>1. recv \in [Rank -> [Rank -> [Chunk -> Contents \cup {None}]]]
  BY DEF TypeOK, Region
<1> DEFINE C == Contents \cup {None}
<1>2. v \in C
  OBVIOUS
<1> HIDE DEF C
<1>3. ASSUME NEW f \in [Chunk -> C] PROVE [recv EXCEPT ![q][b] = f] \in [Rank -> [Rank -> [Chunk -> C]]]
  BY <1>1 DEF C
<1>5. ASSUME NEW j \in Chunk PROVE [recv EXCEPT ![q][b][j] = v] \in [Rank -> [Rank -> [Chunk -> C]]]
  BY <1>1, <1>2 DEF C
<1> QED
  BY <1>3, <1>5 DEF Region, C

\* What such a write leaves in the region.
LEMMA RegionRead ==
    ASSUME TypeOK, NEW q \in Rank, NEW b \in Rank, NEW j \in Chunk, NEW v, NEW g
    PROVE  /\ g = [recv EXCEPT ![q][b] = v] =>
                 \A x, y \in Rank : g[x][y] = IF x = q /\ y = b THEN v ELSE recv[x][y]
           /\ g = [recv EXCEPT ![q][b][j] = v] =>
                 /\ \A x, y \in Rank : x # q \/ y # b => g[x][y] = recv[x][y]
                 /\ \A i \in Chunk : g[q][b][i] = IF i = j THEN v ELSE recv[q][b][i]
<1>1. recv \in [Rank -> [Rank -> [Chunk -> Contents \cup {None}]]]
  BY DEF TypeOK, Region
<1>2. ASSUME g = [recv EXCEPT ![q][b] = v], NEW x \in Rank, NEW y \in Rank
      PROVE  g[x][y] = IF x = q /\ y = b THEN v ELSE recv[x][y]
  BY <1>1, <1>2
<1>3. ASSUME g = [recv EXCEPT ![q][b][j] = v], NEW x \in Rank, NEW y \in Rank, x # q \/ y # b
      PROVE  g[x][y] = recv[x][y]
  BY <1>1, <1>3
<1>4. ASSUME g = [recv EXCEPT ![q][b][j] = v], NEW i \in Chunk
      PROVE  g[q][b][i] = IF i = j THEN v ELSE recv[q][b][i]
  BY <1>1, <1>4
<1> QED
  BY <1>2, <1>3, <1>4

LEMMA DeliverType ==
    ASSUME TypeOK, NEW r \in Rank, NEW q \in Rank, NEW b \in Rank, NEW v \in Contents,
           Deliver(r, q, b, v)
    PROVE  recv' \in [Rank -> Region] /\ flying' \subseteq Flight
<1>1. moved[r] \in Chunk /\ recv \in [Rank -> Region] /\ flying \subseteq Flight
  BY DEF TypeOK
<1>2. [to |-> q, block |-> b, chunk |-> moved[r], data |-> v] \in Flight
  BY <1>1 DEF Flight
<1>3. [recv EXCEPT ![q][b][moved[r]] = v] \in [Rank -> Region]
  BY <1>1, RegionWrite
<1> QED
  BY <1>1, <1>2, <1>3 DEF Deliver

LEMMA BlockType ==
    ASSUME TypeOK, NEW b \in Rank, NEW q \in Rank
    PROVE  Block(b, q) \in Contents
  BY DEF TypeOK, Block, Contents

\* The labels of a rank.
LEMMA GotoType ==
    ASSUME TypeOK, NEW r \in Rank,
           NEW l \in {"idle", "connect", "dial", "barrier", "put", "last", "ringGet", "ringPut",
                      "ringTag", "ringEnd", "raised", "mismatch"},
           Goto(r, l)
    PROVE  /\ pc' \in [Rank -> {"idle", "connect", "dial", "barrier", "put", "last", "ringGet",
                                "ringPut", "ringTag", "ringEnd", "raised", "mismatch"}]
           /\ pc'[r] = l /\ \A p \in Rank \ {r} : pc'[p] = pc[p]
  BY DEF TypeOK, Goto

LEMMA StepTypeOK == TypeOK /\ [Next]_vars => TypeOK'
<1> SUFFICES ASSUME TypeOK, [Next]_vars PROVE TypeOK'
  OBVIOUS
<1>0. ASSUME UNCHANGED <<algo>> PROVE Chunk' = Chunk /\ Region' = Region /\ Flight' = Flight
  BY <1>0 DEF Chunk, Region, Flight
<1>1. ASSUME NEW r \in Rank, Start(r) PROVE TypeOK'
  <2>1. call[r] \in 0 .. MaxCalls /\ call[r] + 1 \in 0 .. MaxCalls /\ 1 \in 1 .. W - 1
    BY <1>1 DEF TypeOK, Start
  <2>2. call' \in [Rank -> 0 .. MaxCalls] /\ send' \in [Rank -> 0 .. MaxCalls]
        /\ step' \in [Rank -> 1 .. W - 1]
    BY <1>1, <2>1 DEF TypeOK, Start
  <2> QED
    BY <1>0, <1>1, <2>2, GotoType DEF TypeOK, Start
<1>2. ASSUME NEW r \in Rank, Connect(r) PROVE TypeOK'
  BY <1>0, <1>2, GotoType DEF TypeOK, Connect
<1>3. ASSUME NEW r \in Rank, Dialed(r) PROVE TypeOK'
  <2>1. conns' \in [Rank -> SUBSET Rank] /\ adopting' \in [Rank -> SUBSET Rank]
        /\ arrived' \in [Rank -> Nat]
    <3>1. Target(r) \in Rank
      BY RankFacts
    <3>2. CASE conns' = [conns EXCEPT ![r] = @ \cup {Target(r)}]
               /\ adopting' = [adopting EXCEPT ![Target(r)] = @ \cup {r}]
               /\ EnterBarrier(r, "barrier")
      <4>1. conns' \in [Rank -> SUBSET Rank]
        BY <3>1, <3>2 DEF TypeOK
      <4>2. adopting' \in [Rank -> SUBSET Rank]
        BY <3>1, <3>2 DEF TypeOK
      <4>3. arrived' \in [Rank -> Nat]
        BY <3>2 DEF TypeOK, EnterBarrier
      <4> QED
        BY <4>1, <4>2, <4>3
    <3>3. CASE UNCHANGED <<conns, adopting, arrived>>
      BY <3>3 DEF TypeOK
    <3> QED
      BY <1>3, <3>2, <3>3 DEF Dialed
  <2>2. Goto(r, "barrier") \/ Goto(r, "raised")
    BY <1>3 DEF Dialed, EnterBarrier
  <2> QED
    BY <1>0, <1>3, <2>1, <2>2, GotoType DEF TypeOK, Dialed
<1>4. ASSUME NEW r \in Rank, NoConnect(r) PROVE TypeOK'
  <2>1. arrived' \in [Rank -> Nat] /\ Goto(r, "barrier")
    BY <1>4 DEF TypeOK, NoConnect, EnterBarrier
  <2>2. UNCHANGED <<algo, call, step, dst, moved, conns, adopting, send, recv, flying, tags, out>>
    BY <1>4 DEF NoConnect
  <2> QED
    BY <1>0, <2>1, <2>2, GotoType DEF TypeOK
<1>5. ASSUME NEW r \in Rank, Adopt(r) PROVE TypeOK'
  <2>1. conns' \in [Rank -> SUBSET Rank] /\ adopting' \in [Rank -> SUBSET Rank]
    BY SMTT(30), <1>5 DEF TypeOK, Adopt
  <2> QED
    BY <1>0, <1>5, <2>1 DEF TypeOK, Adopt
<1>6. ASSUME NEW r \in Rank, PassBarrier(r) PROVE TypeOK'
  <2>1. UNCHANGED <<algo, call, arrived, conns, adopting, send, flying, tags, out>>
    BY <1>6 DEF PassBarrier
  <2>2. CASE MoreRounds(r)
    <3>1. step[r] \in 1 .. W - 1 /\ step[r] + 1 \in 1 .. W - 1
      BY <2>2 DEF TypeOK, MoreRounds
    <3>2. step' \in [Rank -> 1 .. W - 1]
      BY <1>6, <2>2, <3>1 DEF PassBarrier, TypeOK
    <3> QED
      BY <1>0, <1>6, <2>1, <2>2, <3>2, GotoType DEF TypeOK, PassBarrier
  <2>3. CASE ~MoreRounds(r)
    <3>1. recv' \in [Rank -> Region]
      <4>1. recv' = [recv EXCEPT ![r][r] = [i \in Chunk |-> Block(r, r)]]
        BY <1>6, <2>3 DEF PassBarrier
      <4>2. Block(r, r) \in Contents
        BY BlockType
      <4>3. [i \in Chunk |-> Block(r, r)] \in [Chunk -> Contents \cup {None}]
        BY <4>2
      <4> QED
        BY <4>1, <4>2, <4>3, RegionWrite
    <3>2. 1 \in 1 .. W - 1 /\ 0 \in 0 .. W /\ 0 \in Chunk
      BY DEF TypeOK, Chunk
    <3>3. step' \in [Rank -> 1 .. W - 1] /\ dst' \in [Rank -> 0 .. W] /\ moved' \in [Rank -> Chunk]
      <4>1. /\ step' = [step EXCEPT ![r] = 1] /\ dst' = [dst EXCEPT ![r] = 0]
            /\ moved' = [moved EXCEPT ![r] = 0]
        BY <1>6, <2>3 DEF PassBarrier
      <4> QED
        BY <3>2, <4>1 DEF TypeOK
    <3>4. Goto(r, "put") \/ Goto(r, "ringGet")
      BY <1>6, <2>3 DEF PassBarrier
    <3> QED
      BY <1>0, <2>1, <3>1, <3>3, <3>4, GotoType DEF TypeOK
  <2> QED
    BY <2>2, <2>3
<1>7. ASSUME NEW r \in Rank, NEW p, NotConnected(r, p) PROVE TypeOK'
  BY <1>0, <1>7, GotoType DEF TypeOK, NotConnected
<1>8. ASSUME NEW r \in Rank, Put(r) PROVE TypeOK'
  <2>1. CASE ~NotConnected(r, dst[r])
    <3>1. dst[r] \in Rank /\ dst[r] + 1 \in 0 .. W /\ moved[r] \in Chunk
      <4>1. dst[r] \in 0 .. W /\ dst[r] < W /\ moved[r] \in Chunk
        BY <1>8 DEF TypeOK, Put
      <4> QED
        BY <4>1 DEF Rank
    <3>2. recv' \in [Rank -> Region] /\ flying' \subseteq Flight
      <4>1. Deliver(r, dst[r], r, Block(r, dst[r]))
        BY <1>8, <2>1 DEF Put
      <4>2. Block(r, dst[r]) \in Contents
        BY <3>1, BlockType
      <4> QED
        BY <3>1, <4>1, <4>2, DeliverType
    <3>3. 0 \in Chunk /\ (moved[r] + 1 < Chunks[algo] => moved[r] + 1 \in Chunk)
      BY <3>1, ChunkFacts
    <3>4. dst' \in [Rank -> 0 .. W] /\ moved' \in [Rank -> Chunk]
      <4>1. \/ dst' = dst /\ moved' = [moved EXCEPT ![r] = moved[r] + 1] /\ moved[r] + 1 \in Chunk
            \/ dst' = [dst EXCEPT ![r] = dst[r] + 1] /\ moved' = [moved EXCEPT ![r] = 0]
        BY <1>8, <2>1, <3>3 DEF Put
      <4>2. dst \in [Rank -> 0 .. W] /\ moved \in [Rank -> Chunk]
        BY DEF TypeOK
      <4> QED
        BY <3>1, <3>3, <4>1, <4>2
    <3> QED
      BY <1>0, <1>8, <2>1, <3>2, <3>4 DEF TypeOK, Put
  <2> QED
    BY <1>7, <2>1
<1>9. ASSUME NEW r \in Rank, SkipSelf(r) PROVE TypeOK'
  <2>1. dst[r] + 1 \in 0 .. W
    BY <1>9 DEF SkipSelf, Rank
  <2>2. dst' \in [Rank -> 0 .. W]
    BY <1>9, <2>1 DEF SkipSelf, TypeOK
  <2> QED
    BY <1>0, <1>9, <2>2 DEF TypeOK, SkipSelf
<1>10. ASSUME NEW r \in Rank, PutsDone(r) PROVE TypeOK'
  <2>1. arrived' \in [Rank -> Nat] /\ Goto(r, "last")
    BY <1>10 DEF TypeOK, PutsDone, EnterBarrier
  <2> QED
    BY <1>0, <1>10, <2>1, GotoType DEF TypeOK, PutsDone
<1>11. ASSUME NEW r \in Rank, Return(r) PROVE TypeOK'
  <2>1. out' \in [Rank -> Region \cup {None}]
    BY <1>11 DEF TypeOK, Return
  <2> QED
    BY <1>0, <1>11, <2>1, GotoType DEF TypeOK, Return
<1>12. ASSUME NEW r \in Rank, RingGet(r) PROVE TypeOK'
  <2>1. CASE ~NotConnected(r, Left(r))
    <3>1. recv' \in [Rank -> Region]
      <4>1. moved[r] \in Chunk
        BY DEF TypeOK
      <4>2. recv' = [recv EXCEPT ![r][RecvPeer(r)][moved[r]] = Block(Left(r), RecvPeer(r))]
        BY <1>12, <2>1 DEF RingGet
      <4>3. RecvPeer(r) \in Rank /\ Block(Left(r), RecvPeer(r)) \in Contents
        BY RankFacts, BlockType
      <4>4. [recv EXCEPT ![r][RecvPeer(r)][moved[r]] = Block(Left(r), RecvPeer(r))] \in [Rank -> Region]
        BY <4>1, <4>3, RegionWrite
      <4> QED
        BY <4>2, <4>4
    <3> QED
      BY <1>0, <1>12, <2>1, <3>1, GotoType DEF TypeOK, RingGet
  <2> QED
    BY <1>7, <2>1
<1>13. ASSUME NEW r \in Rank, RingPut(r) PROVE TypeOK'
  <2>1. moved[r] \in Chunk /\ step[r] \in 1 .. W - 1
    BY DEF TypeOK
  <2>2. recv' \in [Rank -> Region] /\ flying' \subseteq Flight
    BY <1>13, <2>1, DeliverType, BlockType, RankFacts DEF RingPut
  <2>3. 0 \in Chunk /\ (moved[r] + 1 < Chunks[algo] => moved[r] + 1 \in Chunk)
    BY <2>1, ChunkFacts
  <2>4. moved' \in [Rank -> Chunk]
    <3>1. \/ moved' = [moved EXCEPT ![r] = moved[r] + 1] /\ moved[r] + 1 < Chunks[algo]
          \/ moved' = [moved EXCEPT ![r] = 0]
      BY <1>13 DEF RingPut
    <3> QED
      BY <2>3, <3>1 DEF TypeOK
  <2>5. tags' \in [Rank -> Seq(1 .. W - 1)]
    <3>1. Append(tags[r], step[r]) \in Seq(1 .. W - 1)
      BY <2>1 DEF TypeOK
    <3>2. tags' = tags \/ tags' = [tags EXCEPT ![r] = Append(tags[r], step[r])]
      BY <1>13 DEF RingPut, PassOn
    <3>3. ASSUME NEW S, NEW t \in S, tags \in [Rank -> S] PROVE [tags EXCEPT ![r] = t] \in [Rank -> S]
      BY <3>3
    <3>4. tags \in [Rank -> Seq(1 .. W - 1)]
      BY DEF TypeOK
    <3> QED
      BY ZenonT(30), <3>1, <3>2, <3>3, <3>4
  <2>6. Goto(r, "ringGet") \/ Goto(r, "ringTag")
    BY <1>13 DEF RingPut
  <2> QED
    BY <1>0, <1>13, <2>2, <2>4, <2>5, <2>6, GotoType DEF TypeOK, RingPut
<1>14. ASSUME NEW r \in Rank, RingTag(r) PROVE TypeOK'
  <2>1. tags' \in [Rank -> Seq(1 .. W - 1)]
    <3>1. Left(r) \in Rank /\ tags[Left(r)] \in Seq(1 .. W - 1) /\ tags[Left(r)] # <<>>
      BY <1>14, RankFacts DEF TypeOK, RingTag
    <3>2. Tail(tags[Left(r)]) \in Seq(1 .. W - 1)
      <4> DEFINE S == 1 .. W - 1
                 q == tags[Left(r)]
      <4>1. q \in Seq(S) /\ q # <<>>
        BY <3>1
      <4> HIDE DEF S, q
      <4>2. Tail(q) \in Seq(S)
        BY <4>1
      <4> QED
        BY <4>2 DEF S, q
    <3> QED
      BY <1>14, <3>1, <3>2 DEF TypeOK, RingTag
  <2>2. step' \in [Rank -> 1 .. W - 1]
    <3>1. step[r] \in 1 .. W - 1 /\ (step[r] < W - 1 => step[r] + 1 \in 1 .. W - 1)
      BY DEF TypeOK
    <3> QED
      BY <1>14, <3>1 DEF TypeOK, RingTag
  <2>3. Goto(r, "mismatch") \/ Goto(r, "ringGet") \/ Goto(r, "ringEnd")
    BY <1>14 DEF RingTag
  <2> QED
    BY <1>0, <1>14, <2>1, <2>2, <2>3, GotoType DEF TypeOK, RingTag
<1>15. CASE UNCHANGED vars
  BY <1>0, <1>15 DEF vars, TypeOK
<1>16. CASE Land
  <2>1. PICK x \in flying :
           /\ flying' = flying \ {x}
           /\ recv' = [recv EXCEPT ![x.to][x.block][x.chunk] = x.data]
           /\ UNCHANGED <<algo, pc, call, step, dst, moved, arrived, conns, adopting, send, tags, out>>
    BY <1>16 DEF Land
  <2>2. x.to \in Rank /\ x.block \in Rank /\ x.chunk \in Chunk /\ x.data \in Contents
    BY DEF TypeOK, Flight
  <2>3. recv' \in [Rank -> Region] /\ flying' \subseteq Flight
    BY <2>1, <2>2, RegionWrite DEF TypeOK
  <2> QED
    BY <1>0, <2>1, <2>3 DEF TypeOK
<1> QED
  BY <1>1, <1>2, <1>3, <1>4, <1>5, <1>6, <1>8, <1>9, <1>10, <1>11, <1>12, <1>13, <1>14, <1>15, <1>16
     DEF Next, Proceed

LEMMA TypeInvariance == Spec => []TypeOK
  BY InitTypeOK, StepTypeOK, PTL DEF Spec

----------------------------------------------------------------------------
\* What a step of one rank leaves alone at the others.
LEMMA Frame ==
    ASSUME TypeOK, NEW r \in Rank, Start(r) \/ Proceed(r)
    PROVE  /\ algo' = algo
           /\ \A p \in Rank \ {r} :
                 /\ pc'[p] = pc[p] /\ call'[p] = call[p] /\ step'[p] = step[p]
                 /\ arrived'[p] = arrived[p] /\ conns'[p] = conns[p]
                 /\ dst'[p] = dst[p] /\ moved'[p] = moved[p] /\ send'[p] = send[p]
                 /\ out'[p] = out[p]
<1>1. CASE Start(r)
  BY <1>1 DEF Start, Goto, TypeOK
<1>2. CASE Connect(r) \/ Dialed(r) \/ NoConnect(r)
  BY SMTT(30), <1>2 DEF Connect, Dialed, NoConnect, EnterBarrier, Goto, TypeOK
<1>3. CASE PassBarrier(r)
  BY SMTT(30), <1>3 DEF PassBarrier, Goto, TypeOK
<1>4. CASE Put(r) \/ SkipSelf(r) \/ PutsDone(r)
  BY ZenonT(30), <1>4 DEF Put, NotConnected, SkipSelf, PutsDone, EnterBarrier, Goto, TypeOK
<1>5. CASE Return(r)
  BY <1>5 DEF Return, Goto, TypeOK
<1>6. CASE RingGet(r) \/ RingPut(r) \/ RingTag(r)
  BY SMTT(30), <1>6 DEF RingGet, NotConnected, RingPut, RingTag, Goto, TypeOK
<1> QED
  BY <1>1, <1>2, <1>3, <1>4, <1>5, <1>6 DEF Proceed

LEMMA AdoptFrame ==
    ASSUME TypeOK, NEW r \in Rank, Adopt(r)
    PROVE  /\ UNCHANGED <<algo, pc, call, step, dst, moved, arrived, send, recv, flying, tags, out>>
           /\ \E p \in adopting[r] :
                 /\ conns'[r] = conns[r] \cup {p} /\ adopting'[r] = adopting[r] \ {p}
                 /\ \A q \in Rank \ {r} : conns'[q] = conns[q] /\ adopting'[q] = adopting[q]
  BY DEF TypeOK, Adopt

----------------------------------------------------------------------------
\* The barriers: a rank enters one, passes the one it is in, or does neither.
Waiting(r) == pc[r] \in {"barrier", "last"}

LEMMA BarrierMoves ==
    ASSUME TypeOK, NEW r \in Rank, Start(r) \/ Proceed(r)
    PROVE  \/ arrived'[r] = arrived[r] /\ (Waiting(r)' <=> Waiting(r))
           \/ arrived'[r] = arrived[r] + 1 /\ ~Waiting(r) /\ Waiting(r)'
           \/ arrived'[r] = arrived[r] /\ AllArrived(r) /\ ~Waiting(r)'
<1>1. CASE Start(r) \/ Connect(r)
  BY <1>1 DEF Start, Connect, Goto, TypeOK, Waiting
<1>2. CASE Dialed(r) \/ NoConnect(r)
  BY <1>2 DEF Dialed, NoConnect, EnterBarrier, Goto, TypeOK, Waiting
<1>3. CASE PassBarrier(r)
  <2>1. pc'[r] \in {"connect", "put", "ringGet"}
    BY <1>3 DEF PassBarrier, Goto, TypeOK
  <2> QED
    BY <1>3, <2>1 DEF PassBarrier, Waiting
<1>4. CASE Put(r) \/ SkipSelf(r) \/ PutsDone(r)
  BY <1>4 DEF Put, NotConnected, SkipSelf, PutsDone, EnterBarrier, Goto, TypeOK, Waiting
<1>5. CASE Return(r)
  BY <1>5 DEF Return, Goto, TypeOK, Waiting
<1>6. CASE RingGet(r) \/ RingPut(r) \/ RingTag(r)
  BY <1>6 DEF RingGet, NotConnected, RingPut, RingTag, Goto, TypeOK, Waiting
<1> QED
  BY <1>1, <1>2, <1>3, <1>4, <1>5, <1>6 DEF Proceed

LEMMA StepBarriers ==
    ASSUME TypeOK, Barriers, [Next]_vars
    PROVE  Barriers'
<1>1. ASSUME NEW r \in Rank, Start(r) \/ Proceed(r) PROVE Barriers'
  <2>1. \A p \in Rank \ {r} : (Waiting(p)' <=> Waiting(p)) /\ arrived'[p] = arrived[p]
    BY <1>1, Frame DEF Waiting
  <2>2. \A p \in Rank : arrived[p] \in Nat
    BY DEF TypeOK
  <2>3. \A p, q \in Rank : IF Waiting(p) THEN arrived[p] <= arrived[q] + 1 ELSE arrived[p] <= arrived[q]
    BY DEF Barriers, Waiting
  <2>4. \A p, q \in Rank : IF Waiting(p)' THEN arrived'[p] <= arrived'[q] + 1 ELSE arrived'[p] <= arrived'[q]
    <3>1. CASE arrived'[r] = arrived[r] /\ (Waiting(r)' <=> Waiting(r))
      BY <2>1, <2>3, <3>1
    <3>2. CASE arrived'[r] = arrived[r] + 1 /\ ~Waiting(r) /\ Waiting(r)'
      BY <2>1, <2>2, <2>3, <3>2
    <3>3. CASE arrived'[r] = arrived[r] /\ AllArrived(r) /\ ~Waiting(r)'
      BY <2>1, <2>2, <2>3, <3>3 DEF AllArrived
    <3> QED
      BY <1>1, <3>1, <3>2, <3>3, BarrierMoves
  <2> QED
    BY <2>4 DEF Barriers, Waiting
<1>2. ASSUME NEW r \in Rank, Adopt(r) PROVE Barriers'
  BY <1>2 DEF Adopt, Barriers
<1>3. CASE Land \/ UNCHANGED vars
  BY <1>3 DEF Land, vars, Barriers
<1> QED
  BY <1>1, <1>2, <1>3 DEF Next

----------------------------------------------------------------------------
\* The clock.
LEMMA PhaseType ==
    ASSUME TypeOK, NEW r \in Rank
    PROVE  /\ arrived[r] \in Nat /\ call[r] \in Nat /\ Base(call[r]) \in Nat
           /\ step[r] \in 1 .. W - 1 /\ Phase(r) \in Int
           /\ Base(call[r] + 1) = Base(call[r]) + W
<1>1. arrived[r] \in Nat /\ call[r] \in 0 .. MaxCalls /\ step[r] \in 1 .. W - 1
  BY DEF TypeOK
<1>2. call[r] \in Nat
  BY <1>1
<1>3. Base(call[r]) \in Nat /\ Base(call[r] + 1) = Base(call[r]) + W
  BY <1>2, BaseFacts
<1> QED
  BY <1>1, <1>2, <1>3 DEF Phase

\* What the clock says of one rank.
ClockOf(r) ==
    /\ pc[r] \in {"idle", "last"} => Phase(r) = W
    /\ pc[r] \in {"connect", "dial"} => Phase(r) = step[r] - 1
    /\ pc[r] = "barrier" => Phase(r) = step[r]
    /\ pc[r] = "put" => Phase(r) = W - 1
    /\ pc[r] = "raised" => Phase(r) \in 0 .. W - 1
    /\ pc[r] \notin {"ringGet", "ringPut", "ringTag", "ringEnd", "mismatch"}

LEMMA StepClockOf ==
    ASSUME TypeOK, algo = "direct", NEW r \in Rank, ClockOf(r), Start(r) \/ Proceed(r)
    PROVE  ClockOf(r)'
<1>1. /\ arrived[r] \in Nat /\ call[r] \in Nat /\ Base(call[r]) \in Nat
      /\ step[r] \in 1 .. W - 1 /\ Phase(r) \in Int
      /\ Base(call[r] + 1) = Base(call[r]) + W
  BY PhaseType
<1>2. ASSUME call'[r] = call[r], arrived'[r] = arrived[r] PROVE Phase(r)' = Phase(r)
  BY <1>2 DEF Phase
<1>3. ASSUME call'[r] = call[r], arrived'[r] = arrived[r] + 1 PROVE Phase(r)' = Phase(r) + 1
  BY <1>1, <1>3 DEF Phase
<1>4. CASE Start(r)
  <2>1. /\ pc'[r] = "connect" /\ pc[r] = "idle" /\ call'[r] = call[r] + 1 /\ step'[r] = 1
        /\ arrived'[r] = arrived[r]
    BY <1>4 DEF Start, Goto, TypeOK
  <2>2. Phase(r) = W
    BY <2>1 DEF ClockOf
  <2>3. Phase(r)' = 0
    BY <1>1, <2>1, <2>2 DEF Phase
  <2> QED
    BY <2>1, <2>3 DEF ClockOf
<1>5. CASE Connect(r)
  <2>1. pc'[r] = "dial" /\ pc[r] = "connect" /\ UNCHANGED <<call, step, arrived>>
    BY <1>5 DEF Connect, Goto, TypeOK
  <2> QED
    BY <1>2, <2>1 DEF ClockOf
<1>6. CASE Dialed(r) \/ NoConnect(r)
  <2>1. pc[r] \in {"connect", "dial"} /\ UNCHANGED <<call, step>>
    BY <1>6 DEF Dialed, NoConnect
  <2>2. \/ pc'[r] = "barrier" /\ arrived'[r] = arrived[r] + 1
        \/ pc'[r] = "raised" /\ arrived'[r] = arrived[r]
    BY <1>6 DEF Dialed, NoConnect, EnterBarrier, Goto, TypeOK
  <2> QED
    BY <1>1, <1>2, <1>3, <2>1, <2>2 DEF ClockOf
<1>7. CASE PassBarrier(r)
  <2>1. pc[r] = "barrier" /\ UNCHANGED <<call, arrived>> /\ Phase(r)' = Phase(r) /\ Phase(r) = step[r]
    BY <1>2, <1>7 DEF PassBarrier, ClockOf
  <2>2. CASE MoreRounds(r)
    <3>1. pc'[r] = "connect" /\ step'[r] = step[r] + 1
      BY <1>7, <2>2 DEF PassBarrier, Goto, TypeOK
    <3> QED
      BY <1>1, <2>1, <3>1 DEF ClockOf
  <2>3. CASE ~MoreRounds(r)
    <3>1. pc'[r] = "put" /\ step[r] = W - 1
      BY SMTT(30), <1>1, <1>7, <2>3 DEF PassBarrier, Goto, TypeOK, MoreRounds
    <3> QED
      BY <2>1, <3>1 DEF ClockOf
  <2> QED
    BY <2>2, <2>3
<1>8. CASE Put(r) \/ SkipSelf(r)
  <2>1. pc[r] = "put" /\ UNCHANGED <<call, arrived, step>> /\ Phase(r)' = Phase(r)
    BY <1>2, <1>8 DEF Put, NotConnected, SkipSelf
  <2>2. pc'[r] \in {"put", "raised"}
    BY <1>8 DEF Put, NotConnected, SkipSelf, Goto, TypeOK
  <2> QED
    BY <1>1, <2>1, <2>2 DEF ClockOf
<1>9. CASE PutsDone(r)
  <2>1. pc[r] = "put" /\ UNCHANGED <<call, step>> /\ arrived'[r] = arrived[r] + 1 /\ pc'[r] = "last"
    BY <1>9 DEF PutsDone, EnterBarrier, Goto, TypeOK
  <2> QED
    BY <1>1, <1>3, <2>1 DEF ClockOf
<1>10. CASE Return(r)
  <2>1. pc[r] \in {"last", "ringEnd"} /\ UNCHANGED <<call, arrived, step>> /\ pc'[r] = "idle"
    BY <1>10 DEF Return, Goto, TypeOK
  <2> QED
    BY <1>2, <2>1 DEF ClockOf
<1>11. CASE RingGet(r) \/ RingPut(r) \/ RingTag(r)
  BY <1>11 DEF RingGet, RingPut, RingTag, ClockOf
<1> QED
  BY <1>4, <1>5, <1>6, <1>7, <1>8, <1>9, <1>10, <1>11 DEF Proceed

LEMMA StepClock ==
    ASSUME TypeOK, Clock, [Next]_vars
    PROVE  Clock'
<1>1. Clock <=> (algo = "direct" => \A r \in Rank : ClockOf(r))
  BY DEF Clock, ClockOf
<1>2. Clock' <=> (algo' = "direct" => \A r \in Rank : ClockOf(r)')
  BY DEF Clock, ClockOf
<1>3. ASSUME NEW r \in Rank, Start(r) \/ Proceed(r) PROVE Clock'
  <2>1. algo' = algo
    BY <1>3, Frame
  <2>2. ASSUME algo = "direct", NEW p \in Rank \ {r} PROVE ClockOf(p)'
    <3>1. pc'[p] = pc[p] /\ step'[p] = step[p] /\ Phase(p)' = Phase(p)
      BY <1>3, Frame DEF Phase
    <3> QED
      BY <1>1, <2>2, <3>1 DEF ClockOf
  <2>3. algo = "direct" => ClockOf(r)'
    BY <1>1, <1>3, StepClockOf
  <2> QED
    BY <1>2, <2>1, <2>2, <2>3
<1>4. ASSUME NEW r \in Rank, Adopt(r) PROVE Clock'
  BY <1>4 DEF Adopt, Clock, Phase
<1>5. CASE Land \/ UNCHANGED vars
  BY <1>5 DEF Land, vars, Clock, Phase
<1> QED
  BY <1>3, <1>4, <1>5 DEF Next

\* send and call advance together.
LEMMA StepSent ==
    ASSUME TypeOK, Sent, [Next]_vars
    PROVE  Sent'
<1>1. ASSUME NEW r \in Rank, Start(r) PROVE Sent'
  <2>1. pc'[r] = "connect" /\ call'[r] = call[r] + 1 /\ send'[r] = call[r] + 1 /\ call[r] \in Nat
    BY <1>1, PhaseType DEF Start, Goto, TypeOK
  <2> QED
    BY <1>1, <2>1, Frame DEF Sent
<1>2. ASSUME NEW r \in Rank, Proceed(r) PROVE Sent'
  <2>1. UNCHANGED <<call, send>> /\ pc[r] # "idle"
    BY <1>2 DEF Proceed, Connect, Dialed, NoConnect, PassBarrier, Put, NotConnected, SkipSelf,
                PutsDone, Return, RingGet, RingPut, RingTag
  <2> QED
    BY <1>2, <2>1, Frame DEF Sent
<1>3. ASSUME NEW r \in Rank, Adopt(r) PROVE Sent'
  BY <1>3 DEF Adopt, Sent
<1>4. CASE Land \/ UNCHANGED vars
  BY <1>4 DEF Land, vars, Sent
<1> QED
  BY <1>1, <1>2, <1>3, <1>4 DEF Next

----------------------------------------------------------------------------
\* The connections of the direct algorithm.
LEMMA StepConnections ==
    ASSUME TypeOK, Connections, Dialing, [Next]_vars
    PROVE  Connections' /\ Dialing'
<1>1. ASSUME NEW r \in Rank, Start(r) \/ Proceed(r), algo = "direct"
      PROVE  Connections' /\ Dialing'
  <2>1. algo' = algo /\ \A p \in Rank \ {r} : pc'[p] = pc[p] /\ Target(p)' = Target(p)
    BY <1>1, Frame DEF Target, Right
  <2>2. CASE UNCHANGED <<conns, adopting>> /\ pc'[r] # "dial"
    BY <1>1, <2>1, <2>2 DEF Connections, Dialing
  <2>3. CASE Connect(r)
    <3>1. UNCHANGED <<conns, adopting>> /\ Target(r)' = Target(r)
      BY <2>3 DEF Connect, Target, Right
    <3>2. r < Target(r) /\ Target(r) \notin conns[r]
      BY <1>1, <2>3 DEF Connect, Dials
    <3> QED
      BY <1>1, <2>1, <3>1, <3>2 DEF Connections, Dialing
  <2>4. CASE Dialed(r) /\ ~UNCHANGED <<conns, adopting>>
    <3> DEFINE t == Target(r)
    <3>1. t \in Rank /\ r < t /\ t \notin conns[r] /\ r \in Nat /\ t \in Nat
      BY <1>1, <2>4, RankFacts DEF Dialed, Dialing, Rank
    <3>2. conns' = [conns EXCEPT ![r] = @ \cup {t}] /\ adopting' = [adopting EXCEPT ![t] = @ \cup {r}]
          /\ pc'[r] = "barrier"
      BY <2>4 DEF Dialed, EnterBarrier, Goto, TypeOK
    <3>3. /\ conns'[r] = conns[r] \cup {t} /\ adopting'[t] = adopting[t] \cup {r}
          /\ \A p \in Rank \ {r} : conns'[p] = conns[p]
          /\ \A p \in Rank \ {t} : adopting'[p] = adopting[p]
      BY <3>1, <3>2 DEF TypeOK
    <3>4. r \notin conns[t]
      BY <1>1, <3>1 DEF Connections
    <3>5. t # r
      BY <3>1
    <3> HIDE DEF t
    <3>6. Connections'
      <4> SUFFICES ASSUME NEW a \in Rank, NEW p \in Rank
                   PROVE  /\ p \in adopting'[a] => p < a /\ a \in conns'[p] /\ p \notin conns'[a]
                          /\ p \in conns'[a] /\ p < a => a \in conns'[p]
        BY DEF Connections
      <4>1. /\ p \in adopting[a] => p < a /\ a \in conns[p] /\ p \notin conns[a]
            /\ p \in conns[a] /\ p < a => a \in conns[p]
        BY <1>1 DEF Connections
      <4>2. a \in Nat /\ p \in Nat
        BY DEF Rank
      <4>3. p \in adopting'[a] => p < a /\ a \in conns'[p] /\ p \notin conns'[a]
        <5>1. CASE p \in adopting[a]
          BY <3>1, <3>3, <4>1, <4>2, <5>1
        <5>2. CASE a = t /\ p = r
          BY <3>1, <3>3, <3>4, <3>5, <5>2
        <5> QED
          BY <3>3, <5>1, <5>2
      <4>4. p \in conns'[a] /\ p < a => a \in conns'[p]
        BY <3>1, <3>3, <4>1, <4>2
      <4> QED
        BY <4>3, <4>4
    <3>7. Dialing'
      BY <1>1, <2>1, <3>2, <3>3 DEF Dialing
    <3> QED
      BY <3>6, <3>7
  <2>5. \/ UNCHANGED <<conns, adopting>> /\ pc'[r] # "dial"
        \/ Connect(r)
        \/ Dialed(r) /\ ~UNCHANGED <<conns, adopting>>
    <3>1. CASE Start(r) \/ NoConnect(r) \/ PutsDone(r) \/ Return(r)
      BY <3>1 DEF Start, NoConnect, PutsDone, Return, EnterBarrier, Goto, TypeOK
    <3>2. CASE PassBarrier(r)
      BY <3>2 DEF PassBarrier, Goto, TypeOK
    <3>3. CASE Put(r) \/ SkipSelf(r)
      BY <3>3 DEF Put, NotConnected, SkipSelf, Goto, TypeOK
    <3>4. CASE RingGet(r) \/ RingPut(r) \/ RingTag(r)
      BY <3>4 DEF RingGet, NotConnected, RingPut, RingTag, Goto, TypeOK
    <3>5. CASE Dialed(r)
      BY <3>5 DEF Dialed, EnterBarrier, Goto, TypeOK
    <3> QED
      BY <1>1, <3>1, <3>2, <3>3, <3>4, <3>5 DEF Proceed
  <2> QED
    BY <2>2, <2>3, <2>4, <2>5
<1>2. ASSUME NEW r \in Rank, Adopt(r), algo = "direct" PROVE Connections' /\ Dialing'
  <2>1. PICK p \in adopting[r] :
           /\ conns'[r] = conns[r] \cup {p} /\ adopting'[r] = adopting[r] \ {p}
           /\ \A q \in Rank \ {r} : conns'[q] = conns[q] /\ adopting'[q] = adopting[q]
    BY <1>2, AdoptFrame
  <2>2. UNCHANGED <<algo, pc, step>> /\ \A q \in Rank : Target(q)' = Target(q)
    BY <1>2 DEF Adopt, Target, Right
  <2>3. p \in Rank /\ p < r /\ r \in conns[p] /\ p # r /\ p \in Nat /\ r \in Nat
    BY <1>2 DEF TypeOK, Connections, Rank
  <2>4. Connections'
    <3> SUFFICES ASSUME NEW a \in Rank, NEW q \in Rank
                 PROVE  /\ q \in adopting'[a] => q < a /\ a \in conns'[q] /\ q \notin conns'[a]
                        /\ q \in conns'[a] /\ q < a => a \in conns'[q]
      BY DEF Connections
    <3>1. /\ q \in adopting[a] => q < a /\ a \in conns[q] /\ q \notin conns[a]
          /\ q \in conns[a] /\ q < a => a \in conns[q]
      BY <1>2 DEF Connections
    <3>2. conns[q] \subseteq conns'[q]
      BY <2>1
    <3>3. CASE a = r
      BY <2>1, <2>3, <3>1, <3>2, <3>3
    <3>4. CASE a # r
      BY <2>1, <3>1, <3>2, <3>4
    <3> QED
      BY <3>3, <3>4
  <2>5. Dialing'
    <3> SUFFICES ASSUME NEW q \in Rank, pc[q] = "dial"
                 PROVE  q < Target(q) /\ Target(q) \notin conns'[q]
      BY <2>2 DEF Dialing
    <3>1. q < Target(q) /\ Target(q) \notin conns[q] /\ Target(q) \in Nat
      BY <1>2, RankFacts DEF Dialing, Rank
    <3> QED
      BY <2>1, <2>3, <3>1
  <2> QED
    BY <2>4, <2>5
<1>3. ASSUME NEW r \in Rank, Start(r) \/ Proceed(r) \/ Adopt(r), algo # "direct"
      PROVE  Connections' /\ Dialing'
  <2>1. algo' = algo
    BY <1>3, Frame, AdoptFrame
  <2> QED
    BY <1>3, <2>1 DEF Connections, Dialing
<1>4. CASE Land \/ UNCHANGED vars
  BY <1>4 DEF Land, vars, Connections, Dialing, Target, Right
<1> QED
  BY <1>1, <1>2, <1>3, <1>4 DEF Next

----------------------------------------------------------------------------
\* Two ranks in a connect call are in the same round of the same call.
LEMMA SameRound ==
    ASSUME TypeOK, Clock, Barriers, algo = "direct",
           NEW r \in Rank, NEW p \in Rank, pc[r] = "dial", pc[p] = "dial"
    PROVE  step[r] = step[p]
<1>1. arrived[r] = arrived[p] /\ Phase(r) = step[r] - 1 /\ Phase(p) = step[p] - 1
  <2>1. arrived[r] \in Nat /\ arrived[p] \in Nat /\ arrived[r] <= arrived[p] /\ arrived[p] <= arrived[r]
    BY DEF Barriers, TypeOK
  <2> QED
    BY <2>1 DEF Clock
<1>2. /\ call[r] \in Nat /\ Base(call[r]) \in Nat /\ step[r] \in 1 .. W - 1 /\ arrived[r] \in Nat
      /\ call[p] \in Nat /\ Base(call[p]) \in Nat /\ step[p] \in 1 .. W - 1
  BY PhaseType
<1>3. Base(call[r]) + step[r] = Base(call[p]) + step[p]
  BY <1>1, <1>2 DEF Phase
<1>4. /\ call[r] < call[p] => Base(call[r]) + W <= Base(call[p])
      /\ call[p] < call[r] => Base(call[p]) + W <= Base(call[r])
  BY <1>2, BaseFacts
<1>5. call[r] = call[p]
  BY <1>2, <1>3, <1>4
<1> QED
  BY <1>2, <1>3, <1>5

LEMMA Safe ==
    ASSUME TypeOK, Clock, Barriers, Connections
    PROVE  ConnectsSafely
<1>1. ASSUME NEW r \in Rank, NEW p \in Rank, pc[r] = "dial", pc[p] = "dial", Target(r) = Target(p)
      PROVE  r = p
  <2>1. r \in Nat /\ r < W /\ p \in Nat /\ p < W
    BY RankFacts
  <2>2. CASE algo = "direct"
    <3>1. step[r] = step[p] /\ step[r] \in 1 .. W - 1
      BY <1>1, <2>2, SameRound, PhaseType
    <3>2. /\ Target(r) = IF r + step[r] < W THEN r + step[r] ELSE (r + step[r]) - W
          /\ Target(p) = IF p + step[p] < W THEN p + step[p] ELSE (p + step[p]) - W
      BY <2>2, RankFacts
    <3> QED
      BY <1>1, <2>1, <3>1, <3>2, WrapInjective
  <2>3. CASE algo # "direct"
    <3>1. Right(r) = Right(p)
      BY <1>1, <2>3 DEF Target
    <3>2. /\ Right(r) = IF r + 1 < W THEN r + 1 ELSE (r + 1) - W
          /\ Right(p) = IF p + 1 < W THEN p + 1 ELSE (p + 1) - W
      BY RankFacts
    <3>3. 1 \in 1 .. W - 1
      OBVIOUS
    <3> QED
      BY <2>1, <3>1, <3>2, <3>3, WrapInjective
  <2> QED
    BY <2>2, <2>3
<1>2. ASSUME algo = "direct", NEW r \in Rank PROVE adopting[r] \cap conns[r] = {}
  BY <1>2 DEF Connections, TypeOK
<1> QED
  BY <1>1, <1>2 DEF ConnectsSafely

----------------------------------------------------------------------------
\* What one rank has put.
BlocksOf(b) ==
    \A q \in Rank : <<b, q>> \notin Ucx =>
        /\ pc[b] \in {"idle", "last"} /\ call[b] > 0 => recv[q][b] = Full(call[b], b, q)
        /\ Before(b) /\ call[b] > 1 => recv[q][b] = Full(call[b] - 1, b, q)
        /\ pc[b] = "put" =>
              /\ dst[b] = b => moved[b] = 0
              /\ q < dst[b] \/ q = b => recv[q][b] = Full(call[b], b, q)
              /\ q = dst[b] => \A i \in Chunk : i < moved[b] => recv[q][b][i] = <<call[b], b, q>>

\* A rank of the direct algorithm writes only its own blocks.
LEMMA OwnBlocks ==
    ASSUME TypeOK, Clock, algo = "direct", NEW r \in Rank, Start(r) \/ Proceed(r)
    PROVE  \A q \in Rank : \A b \in Rank \ {r} : recv'[q][b] = recv[q][b]
<1>1. recv \in [Rank -> [Rank -> [Chunk -> Contents \cup {None}]]]
  BY DEF TypeOK, Region
<1>2. CASE PassBarrier(r)
  <2>1. recv' = recv \/ recv' = [recv EXCEPT ![r][r] = [i \in Chunk |-> Block(r, r)]]
    BY <1>2 DEF PassBarrier
  <2>2. 0 \in Chunk
    BY ChunkFacts
  <2>3. ASSUME recv' # recv PROVE \A q, b \in Rank : b # r => recv'[q][b] = recv[q][b]
    <3>1. PICK v, g : v = [i \in Chunk |-> Block(r, r)] /\ g = recv'
      OBVIOUS
    <3>2. g = [recv EXCEPT ![r][r] = v]
      BY <2>1, <2>3, <3>1
    <3>3. \A q, b \in Rank : g[q][b] = IF q = r /\ b = r THEN v ELSE recv[q][b]
      BY <1>1, <3>2
    <3> QED
      BY <3>1, <3>3
  <2> QED
    BY <2>3
<1>3. CASE Put(r)
  <2>1. recv' = recv \/ recv' = [recv EXCEPT ![dst[r]][r][moved[r]] = Block(r, dst[r])]
    BY <1>3 DEF Put, NotConnected, Deliver
  <2>2. dst[r] \in Rank /\ moved[r] \in Chunk
    <3>1. dst[r] \in 0 .. W /\ dst[r] < W /\ moved[r] \in Chunk
      BY <1>3 DEF TypeOK, Put
    <3> QED
      BY <3>1 DEF Rank
  <2>3. ASSUME recv' # recv PROVE \A q, b \in Rank : b # r => recv'[q][b] = recv[q][b]
    <3>1. PICK v, g, d, j : v = Block(r, dst[r]) /\ g = recv' /\ d = dst[r] /\ j = moved[r]
      OBVIOUS
    <3>2. g = [recv EXCEPT ![d][r][j] = v] /\ d \in Rank /\ j \in Chunk
      BY <2>1, <2>2, <2>3, <3>1
    <3>3. \A q, b \in Rank : q # d \/ b # r => g[q][b] = recv[q][b]
      BY <3>2, RegionRead
    <3> QED
      BY <3>1, <3>3
  <2> QED
    BY <2>3
<1>4. CASE RingGet(r) \/ RingPut(r) \/ RingTag(r)
  BY <1>4 DEF RingGet, RingPut, RingTag, Clock
<1>5. CASE Start(r) \/ Connect(r) \/ Dialed(r) \/ NoConnect(r) \/ SkipSelf(r) \/ PutsDone(r) \/ Return(r)
  BY <1>5 DEF Start, Connect, Dialed, NoConnect, SkipSelf, PutsDone, Return
<1> QED
  BY <1>2, <1>3, <1>4, <1>5 DEF Proceed

LEMMA StepBlocksOf ==
    ASSUME TypeOK, Clock, Sent, algo = "direct", NEW r \in Rank, BlocksOf(r),
           Start(r) \/ Proceed(r)
    PROVE  BlocksOf(r)'
<1>1. /\ arrived[r] \in Nat /\ call[r] \in Nat /\ step[r] \in 1 .. W - 1 /\ Phase(r) \in Int
      /\ send[r] = call[r] /\ r \in Nat /\ r < W /\ algo' = algo /\ Chunk' = Chunk
  BY PhaseType, RankFacts, Frame DEF Sent, Chunk
<1>2. recv \in [Rank -> [Rank -> [Chunk -> Contents \cup {None}]]]
  BY DEF TypeOK, Region
<1>3. (\A c, q : Full(c, r, q)' = Full(c, r, q)) /\ <<r, r>> \notin Ucx
  BY <1>1, OwnIsCopied DEF Full
<1>4. CASE Start(r)
  <2>1. /\ pc'[r] = "connect" /\ pc[r] = "idle" /\ call'[r] = call[r] + 1 /\ UNCHANGED recv
    BY <1>4 DEF Start, Goto, TypeOK
  <2>2. (call[r] + 1) - 1 = call[r] /\ (call[r] + 1 > 1 => call[r] > 0)
    BY <1>1
  <2> QED
    BY <1>3, <2>1, <2>2 DEF BlocksOf
<1>5. CASE Connect(r) \/ Dialed(r) \/ NoConnect(r)
  <2>1. /\ pc[r] \in {"connect", "dial"} /\ UNCHANGED <<call, recv>>
    BY <1>5 DEF Connect, Dialed, NoConnect
  <2>2. pc'[r] \in {"dial", "barrier", "raised"}
    BY <1>5 DEF Connect, Dialed, NoConnect, EnterBarrier, Goto, TypeOK
  <2> QED
    BY <1>3, <2>1, <2>2 DEF BlocksOf, Before
<1>6. CASE PassBarrier(r)
  <2>1. pc[r] = "barrier" /\ UNCHANGED call
    BY <1>6 DEF PassBarrier
  <2>2. CASE MoreRounds(r)
    <3>1. pc'[r] = "connect" /\ UNCHANGED recv
      BY <1>6, <2>2 DEF PassBarrier, Goto, TypeOK
    <3> QED
      BY <1>3, <2>1, <3>1 DEF BlocksOf, Before
  <2>3. CASE ~MoreRounds(r)
    <3>1. pc'[r] = "put" /\ dst'[r] = 0 /\ moved'[r] = 0
      BY <1>6, <2>3 DEF PassBarrier, Goto, TypeOK
    <3>2. recv'[r][r] = Full(call[r], r, r)
      <4>1. recv' = [recv EXCEPT ![r][r] = [i \in Chunk |-> Block(r, r)]]
        BY <1>6, <2>3 DEF PassBarrier
      <4>2. recv'[r][r] = [i \in Chunk |-> Block(r, r)]
        BY <1>2, <4>1
      <4> QED
        BY <1>1, <4>2 DEF Full, Block
    <3>3. \A q \in Rank : q \in Nat
      BY DEF Rank
    <3>4. \A i \in Chunk : i \in Nat
      BY ChunkFacts
    <3> QED
      BY <1>1, <1>3, <2>1, <3>1, <3>2, <3>3, <3>4 DEF BlocksOf, Before
  <2> QED
    BY <2>2, <2>3
<1>7. CASE Put(r)
  <2>1. pc[r] = "put" /\ UNCHANGED call /\ dst[r] # r /\ dst[r] \in Rank /\ moved[r] \in Chunk
    <3>1. dst[r] \in 0 .. W /\ dst[r] < W /\ moved[r] \in Chunk
      BY <1>7 DEF TypeOK, Put
    <3> QED
      BY <1>7, <3>1 DEF Put, NotConnected, Rank
  <2>2. CASE NotConnected(r, dst[r])
    <3>1. pc'[r] = "raised" /\ UNCHANGED <<arrived, call>> /\ Phase(r)' = Phase(r) /\ Phase(r) = W - 1
      BY <2>1, <2>2 DEF NotConnected, Goto, TypeOK, Phase, Clock
    <3> QED
      BY <1>1, <3>1 DEF BlocksOf, Before
  <2>3. CASE ~NotConnected(r, dst[r])
    <3>1. PICK d, j, g : d = dst[r] /\ j = moved[r] /\ g = recv'
      OBVIOUS
    <3>2. Deliver(r, dst[r], r, Block(r, dst[r])) /\ UNCHANGED pc
      BY <1>7, <2>3 DEF Put
    <3>ucx. CASE <<r, d>> \in Ucx
      <4>1. recv' = recv /\ \A q \in Rank : q \in Nat
        BY <3>1, <3>2, <3>ucx DEF Deliver, Rank
      <4>2. \/ dst'[r] = d
            \/ dst'[r] = d + 1 /\ moved'[r] = 0
        BY <1>7, <2>3, <3>1 DEF Put, TypeOK
      <4>3. pc'[r] = "put" /\ (dst'[r] = r => moved'[r] = 0)
        BY <2>1, <3>1, <3>2, <4>2
      <4>4. ASSUME NEW q \in Rank, <<r, q>> \notin Ucx
            PROVE  /\ q # d
                   /\ q < dst'[r] \/ q = r => recv[q][r] = Full(call[r], r, q)
                   /\ q = dst'[r] => moved'[r] = 0
        <5>1. q # d /\ d \in Nat /\ q \in Nat
          BY <2>1, <3>1, <3>ucx, <4>1, <4>4
        <5>2. q < dst'[r] => q < d
          BY <4>2, <5>1
        <5> QED
          BY <2>1, <3>1, <4>2, <4>4, <5>1, <5>2 DEF BlocksOf
      <4>5. \A i \in Chunk : ~(i < 0)
        BY ChunkFacts
      <4> QED
        BY <1>1, <1>3, <2>1, <4>1, <4>3, <4>4, <4>5 DEF BlocksOf, Before
    <3> SUFFICES ASSUME <<r, d>> \notin Ucx PROVE BlocksOf(r)'
      BY <3>ucx
    <3>rdma. recv' = [recv EXCEPT ![dst[r]][r][moved[r]] = Block(r, dst[r])]
      BY <3>1, <3>2 DEF Deliver
    <3>3. PICK v : v = <<call[r], r, d>>
      OBVIOUS
    <3>4. g = [recv EXCEPT ![d][r][j] = v] /\ d \in Rank /\ j \in Chunk
      BY <1>1, <2>1, <3>1, <3>3, <3>rdma DEF Block
    <3>5. /\ \A q \in Rank \ {d} : g[q][r] = recv[q][r]
          /\ \A i \in Chunk : g[d][r][i] = IF i = j THEN v ELSE recv[d][r][i]
      <4>1. \A q \in Rank \ {d} : g[q][r] = recv[q][r]
        BY <1>2, <3>4
      <4>2. \A i \in Chunk : g[d][r][i] = IF i = j THEN v ELSE recv[d][r][i]
        BY <1>2, <3>4
      <4> QED
        BY <4>1, <4>2
    <3>6. \A i \in Chunk : i < j => recv[d][r][i] = v
      BY <2>1, <3>1, <3>3, <3>4 DEF BlocksOf
    <3>7. /\ \A i \in Chunk : i \in Nat /\ i < Chunks[algo]
          /\ \A q \in Rank : q \in Nat
          /\ Chunks[algo] \in Nat /\ j \in Nat /\ d \in Nat
      <4>1. Chunks[algo] \in Nat
        BY DEF TypeOK
      <4>2. \A q \in Rank : q \in Nat
        BY DEF Rank
      <4> QED
        BY <3>4, <4>1, <4>2, ChunkFacts
    <3>8. CASE j + 1 < Chunks[algo]
      <4>1. dst'[r] = d /\ moved'[r] = j + 1
        BY <1>7, <2>3, <3>1, <3>8 DEF Put, TypeOK
      <4>2. \A i \in Chunk : i < j + 1 => g[d][r][i] = v
        BY <3>5, <3>6, <3>7
      <4>3. \A q \in Rank : <<r, q>> \notin Ucx /\ (q < d \/ q = r) => g[q][r] = Full(call[r], r, q)
        <5>1. ASSUME NEW q \in Rank, <<r, q>> \notin Ucx, q < d \/ q = r PROVE g[q][r] = Full(call[r], r, q)
          <6>1. q # d /\ recv[q][r] = Full(call[r], r, q)
            BY <2>1, <3>1, <3>7, <5>1 DEF BlocksOf
          <6> QED
            BY <3>5, <6>1
        <5> QED
          BY <5>1
      <4> QED
        BY <1>1, <1>3, <2>1, <3>1, <3>2, <3>3, <4>1, <4>2, <4>3 DEF BlocksOf, Before
    <3>9. CASE ~(j + 1 < Chunks[algo])
      <4>1. dst'[r] = d + 1 /\ moved'[r] = 0
        BY <1>7, <2>3, <3>1, <3>9 DEF Put, TypeOK
      <4>2. g[d][r] = Full(call[r], r, d)
        <5>1. \A i \in Chunk : g[d][r][i] = v
          <6>1. \A i \in Chunk : i = j \/ i < j
            BY <3>7, <3>9
          <6> QED
            BY <3>5, <3>6, <6>1
        <5>2. g[d][r] \in [Chunk -> Contents \cup {None}]
          <6>1. Block(r, d) \in Contents
            BY <3>4, BlockType
          <6>2. v = Block(r, d)
            BY <1>1, <3>3 DEF Block
          <6> QED
            BY <1>2, <3>4, <6>1, <6>2
        <5>3. g[d][r] = [i \in Chunk |-> v]
          BY <5>1, <5>2
        <5> QED
          BY <3>3, <5>3 DEF Full
      <4>3. \A q \in Rank : <<r, q>> \notin Ucx /\ (q < d + 1 \/ q = r) => g[q][r] = Full(call[r], r, q)
        <5>1. ASSUME NEW q \in Rank, <<r, q>> \notin Ucx, q < d + 1 \/ q = r, q # d PROVE g[q][r] = Full(call[r], r, q)
          <6>1. recv[q][r] = Full(call[r], r, q)
            BY <2>1, <3>1, <3>7, <5>1 DEF BlocksOf
          <6> QED
            BY <3>5, <5>1, <6>1
        <5> QED
          BY <4>2, <5>1
      <4> QED
        BY <1>1, <1>3, <2>1, <3>1, <3>2, <3>7, <4>1, <4>3 DEF BlocksOf, Before
    <3> QED
      BY <3>8, <3>9
  <2> QED
    BY <2>2, <2>3
<1>8. CASE SkipSelf(r)
  <2>1. /\ pc[r] = "put" /\ dst[r] = r /\ dst'[r] = r + 1 /\ UNCHANGED <<pc, call, moved, recv>>
    BY <1>8 DEF SkipSelf, TypeOK
  <2>2. moved[r] = 0
    BY <1>3, <2>1 DEF BlocksOf
  <2>3. \A q \in Rank : q \in Nat /\ (q < r + 1 => q < r \/ q = r)
    BY <1>1 DEF Rank
  <2>4. \A i \in Chunk : i \in Nat
    BY ChunkFacts
  <2>5. \A q \in Rank : <<r, q>> \notin Ucx /\ (q < r + 1 \/ q = r) => recv[q][r] = Full(call[r], r, q)
    BY <1>3, <2>1, <2>3 DEF BlocksOf
  <2>6. pc'[r] = "put" /\ call'[r] = call[r] /\ moved'[r] = 0 /\ recv' = recv /\ r + 1 # r
    BY <1>1, <2>1, <2>2
  <2>7. \A i \in Chunk : ~(i < 0)
    BY <2>4
  <2>8. ~Before(r)' /\ pc'[r] = "put" /\ dst'[r] = r + 1
    BY <2>1, <2>6 DEF Before
  <2> QED
    BY <1>1, <1>3, <2>5, <2>6, <2>7, <2>8 DEF BlocksOf
<1>9. CASE PutsDone(r)
  <2>1. pc[r] = "put" /\ dst[r] = W /\ UNCHANGED <<call, recv>> /\ pc'[r] = "last"
    BY <1>9 DEF PutsDone, EnterBarrier, Goto, TypeOK
  <2>2. \A q \in Rank : q < W
    BY DEF Rank
  <2> QED
    BY <1>3, <2>1, <2>2 DEF BlocksOf, Before
<1>10. CASE Return(r)
  <2>1. pc[r] = "last" /\ UNCHANGED <<call, recv>> /\ pc'[r] = "idle"
    BY <1>10 DEF Return, Goto, TypeOK, Clock
  <2> QED
    BY <1>3, <2>1 DEF BlocksOf, Before
<1>11. CASE RingGet(r) \/ RingPut(r) \/ RingTag(r)
  BY <1>11 DEF RingGet, RingPut, RingTag, Clock
<1> QED
  BY <1>4, <1>5, <1>6, <1>7, <1>8, <1>9, <1>10, <1>11 DEF Proceed

LEMMA StepBlocks ==
    ASSUME TypeOK, Clock, Sent, Blocks, Flying, [Next]_vars
    PROVE  Blocks'
<1>1. Blocks <=> (algo = "direct" => \A b \in Rank : BlocksOf(b))
  BY DEF Blocks, BlocksOf
<1>2. Blocks' <=> (algo' = "direct" => \A b \in Rank : BlocksOf(b)')
  BY DEF Blocks, BlocksOf
<1>6. ASSUME UNCHANGED <<algo, pc, call, dst, moved, arrived, recv>> PROVE Blocks'
  <2>1. \A b \in Rank : Before(b)' <=> Before(b)
    BY <1>6 DEF Before, Phase
  <2>2. \A c, b, q : Full(c, b, q)' = Full(c, b, q)
    BY <1>6 DEF Full, Chunk
  <2>3. Chunk' = Chunk
    BY <1>6 DEF Chunk
  <2>4. ASSUME NEW b \in Rank, BlocksOf(b) PROVE BlocksOf(b)'
    BY <1>6, <2>1, <2>2, <2>3, <2>4 DEF BlocksOf
  <2> QED
    BY <1>1, <1>2, <1>6, <2>4
<1>3. ASSUME NEW r \in Rank, Start(r) \/ Proceed(r) PROVE Blocks'
  <2>1. algo' = algo /\ Chunk' = Chunk
    BY <1>3, Frame DEF Chunk
  <2>2. ASSUME algo = "direct", NEW b \in Rank \ {r} PROVE BlocksOf(b)'
    <3>1. /\ pc'[b] = pc[b] /\ call'[b] = call[b] /\ dst'[b] = dst[b] /\ moved'[b] = moved[b]
          /\ Phase(b)' = Phase(b)
      BY <1>3, Frame DEF Phase
    <3>2. \A q \in Rank : recv'[q][b] = recv[q][b]
      BY <1>3, <2>2, OwnBlocks
    <3>3. \A c, q : Full(c, b, q)' = Full(c, b, q)
      BY <2>1 DEF Full
    <3>4. Before(b)' <=> Before(b)
      BY <3>1 DEF Before
    <3> QED
      BY <1>1, <2>1, <2>2, <3>1, <3>2, <3>3, <3>4 DEF BlocksOf
  <2>3. algo = "direct" => BlocksOf(r)'
    BY <1>1, <1>3, StepBlocksOf
  <2> QED
    BY <1>2, <2>1, <2>2, <2>3
<1>4. ASSUME NEW r \in Rank, Adopt(r) PROVE Blocks'
  BY <1>4, <1>6 DEF Adopt
<1>5. CASE UNCHANGED vars
  BY <1>5, <1>6 DEF vars
<1>7. CASE Land
  <2>1. PICK x \in flying :
           /\ recv' = [recv EXCEPT ![x.to][x.block][x.chunk] = x.data]
           /\ UNCHANGED <<algo, pc, call, dst, moved, arrived>>
    BY <1>7 DEF Land
  <2>2. x.to \in Rank /\ x.block \in Rank /\ x.chunk \in Chunk
    BY DEF TypeOK, Flight
  <2>3. ASSUME algo = "direct", NEW q \in Rank, NEW b \in Rank, <<b, q>> \notin Ucx
        PROVE  recv'[q][b] = recv[q][b]
    <3>1. q # x.to \/ b # x.block
      BY <2>3 DEF Flying
    <3>2. PICK t, u, j, v, g : t = x.to /\ u = x.block /\ j = x.chunk /\ v = x.data /\ g = recv'
      OBVIOUS
    <3>3. g = [recv EXCEPT ![t][u][j] = v] /\ t \in Rank /\ u \in Rank /\ j \in Chunk
      BY <2>1, <2>2, <3>2
    <3>4. \A y, z \in Rank : y # t \/ z # u => g[y][z] = recv[y][z]
      BY <3>3, RegionRead
    <3> QED
      BY <3>1, <3>2, <3>4
  <2>4. Chunk' = Chunk /\ \A b \in Rank : Before(b)' <=> Before(b)
    BY <2>1 DEF Before, Phase, Chunk
  <2>5. \A c, b, q : Full(c, b, q)' = Full(c, b, q)
    BY <2>4 DEF Full
  <2>6. ASSUME algo = "direct", NEW b \in Rank, BlocksOf(b) PROVE BlocksOf(b)'
    <3>1. SUFFICES ASSUME NEW q \in Rank, <<b, q>> \notin Ucx
          PROVE  (/\ pc[b] \in {"idle", "last"} /\ call[b] > 0 => recv[q][b] = Full(call[b], b, q)
                  /\ Before(b) /\ call[b] > 1 => recv[q][b] = Full(call[b] - 1, b, q)
                  /\ pc[b] = "put" =>
                        /\ dst[b] = b => moved[b] = 0
                        /\ q < dst[b] \/ q = b => recv[q][b] = Full(call[b], b, q)
                        /\ q = dst[b] => \A i \in Chunk : i < moved[b] => recv[q][b][i] = <<call[b], b, q>>)'
      BY DEF BlocksOf
    <3>2. recv'[q][b] = recv[q][b]
      BY <2>3, <2>6, <3>1
    <3> QED
      BY ZenonT(30), <2>1, <2>4, <2>5, <2>6, <3>1, <3>2 DEF BlocksOf
  <2> QED
    BY <1>1, <1>2, <2>1, <2>6
<1> QED
  BY <1>3, <1>4, <1>5, <1>7 DEF Next

\* In the direct algorithm only UCX leaves chunks in flight.
LEMMA StepFlying ==
    ASSUME TypeOK, Clock, Flying, [Next]_vars
    PROVE  Flying'
<1>1. ASSUME NEW r \in Rank, Start(r) \/ Proceed(r), algo = "direct" PROVE Flying'
  <2>1. CASE flying' = flying
    BY <1>1, <2>1 DEF Flying
  <2>2. CASE Put(r)
    <3>1. CASE flying' # flying
      <4>1. <<r, dst[r]>> \in Ucx
        BY <2>2, <3>1 DEF Put, NotConnected, Deliver
      <4>2. flying' = flying \cup {[to |-> dst[r], block |-> r, chunk |-> moved[r], data |-> Block(r, dst[r])]}
        BY <2>2, <3>1 DEF Put, NotConnected, Deliver
      <4>3. ASSUME NEW x \in flying' PROVE <<x.block, x.to>> \in Ucx
        <5>1. CASE x \in flying
          BY <1>1, <5>1 DEF Flying
        <5>2. CASE x \notin flying
          <6>1. x.block = r /\ x.to = dst[r]
            BY <4>2, <4>3, <5>2
          <6> QED
            BY <4>1, <6>1
        <5> QED
          BY <5>1, <5>2
      <4> QED
        BY <4>3 DEF Flying
    <3> QED
      BY <2>1, <3>1
  <2>3. CASE RingPut(r)
    BY <1>1, <2>3 DEF RingPut, Clock
  <2>4. CASE \/ Start(r) \/ Connect(r) \/ Dialed(r) \/ NoConnect(r) \/ PassBarrier(r) \/ SkipSelf(r)
             \/ PutsDone(r) \/ Return(r) \/ RingGet(r) \/ RingTag(r)
    <3>1. flying' = flying
      BY <2>4 DEF Start, Connect, Dialed, NoConnect, PassBarrier, SkipSelf, PutsDone, Return, RingGet,
                  NotConnected, RingTag
    <3> QED
      BY <2>1, <3>1
  <2> QED
    BY <1>1, <2>2, <2>3, <2>4 DEF Proceed
<1>2. ASSUME NEW r \in Rank, Start(r) \/ Proceed(r), algo # "direct" PROVE Flying'
  BY <1>2, Frame DEF Flying
<1>3. ASSUME NEW r \in Rank, Adopt(r) PROVE Flying'
  BY <1>3 DEF Adopt, Flying
<1>4. CASE Land
  BY <1>4 DEF Land, Flying
<1>5. CASE UNCHANGED vars
  BY <1>5 DEF vars, Flying
<1> QED
  BY <1>1, <1>2, <1>3, <1>4, <1>5 DEF Next

----------------------------------------------------------------------------
\* When a rank leaves the last barrier of a call, the blocks of that call that
\* came over RDMA are in its region: no rank has begun to overwrite them.
LEMMA AllBlocksThere ==
    ASSUME TypeOK, Clock, Barriers, Sent, Blocks, algo = "direct",
           NEW r \in Rank, pc[r] = "last", AllArrived(r), NEW b \in Rank,
           <<b, r>> \notin Ucx
    PROVE  recv[r][b] = Full(call[r], b, r)
<1>1. /\ arrived[r] \in Nat /\ call[r] \in Nat /\ Base(call[r]) \in Nat
      /\ arrived[b] \in Nat /\ call[b] \in Nat /\ Base(call[b]) \in Nat /\ step[b] \in 1 .. W - 1
      /\ Base(call[r] + 1) = Base(call[r]) + W
  BY PhaseType
<1>2. arrived[r] = Base(call[r]) /\ call[r] > 0
  <2>1. Phase(r) = W
    BY DEF Clock
  <2> QED
    BY <1>1, <2>1 DEF Phase, Sent
<1>3. arrived[b] >= arrived[r] /\ arrived[b] <= arrived[r] + 1
      /\ (pc[b] \notin {"barrier", "last"} => arrived[b] = arrived[r])
  BY <1>1 DEF AllArrived, Barriers
<1>4. /\ call[b] < call[r] => Base(call[b]) + W <= Base(call[r])
      /\ call[r] < call[b] => Base(call[r]) + W <= Base(call[b])
      /\ call[r] + 1 < call[b] => Base(call[r] + 1) + W <= Base(call[b])
  BY SMTT(30), <1>1, BaseFacts
<1>5. ASSUME Phase(b) = W PROVE call[b] = call[r]
  <2>1. arrived[b] = Base(call[b])
    BY <1>1, <1>5 DEF Phase
  <2> QED
    BY <1>1, <1>2, <1>3, <1>4, <2>1
<1>6. ASSUME Phase(b) \in 0 .. W - 1, arrived[b] = arrived[r] \/ Phase(b) > 0
      PROVE  call[b] = call[r] + 1 /\ Phase(b) = arrived[b] - arrived[r]
  <2>1. Phase(b) = (arrived[b] + W) - Base(call[b])
    BY <1>1 DEF Phase
  <2>2. Base(call[b]) > Base(call[r]) /\ Base(call[b]) <= Base(call[r]) + W
    BY <1>1, <1>2, <1>3, <1>6, <2>1
  <2>3. call[b] = call[r] + 1
    BY <1>1, <1>4, <2>2
  <2> QED
    BY <1>1, <1>2, <2>1, <2>3
<1>7. CASE pc[b] \in {"idle", "last"}
  <2>1. call[b] = call[r]
    BY <1>5, <1>7 DEF Clock
  <2> QED
    BY <1>2, <1>7, <2>1 DEF Blocks
<1>8. CASE pc[b] \in {"connect", "dial", "barrier", "raised", "put"}
  <2>1. Phase(b) \in 0 .. W - 1 /\ (pc[b] = "barrier" => Phase(b) > 0)
    BY <1>1, <1>8 DEF Clock
  <2>2. call[b] = call[r] + 1 /\ Phase(b) = arrived[b] - arrived[r]
    BY <1>3, <1>6, <1>8, <2>1
  <2>3. pc[b] # "barrier" => Phase(b) = 0
    BY <1>1, <1>3, <1>8, <2>2
  <2>4. pc[b] # "put"
    BY <2>3 DEF Clock
  <2>5. Before(b)
    BY <1>8, <2>3, <2>4 DEF Before
  <2>6. call[b] > 1 /\ call[b] - 1 = call[r]
    BY <1>1, <1>2, <2>2
  <2> QED
    BY <2>5, <2>6 DEF Blocks
<1>9. pc[b] \in {"idle", "last", "connect", "dial", "barrier", "raised", "put"}
  BY DEF Clock, TypeOK
<1> QED
  BY <1>7, <1>8, <1>9

LEMMA StepExchanges ==
    ASSUME TypeOK, Clock, Barriers, Sent, Blocks, DirectExchanges, [Next]_vars
    PROVE  DirectExchanges'
<1>0. ASSUME NEW p \in Rank, Exchanged(p), algo' = algo,
             pc'[p] = pc[p], call'[p] = call[p], out'[p] = out[p]
      PROVE  Exchanged(p)'
  <2>1. Chunk' = Chunk
    BY <1>0 DEF Chunk
  <2>2. ASSUME NEW b PROVE [i \in Chunk |-> <<call[p], b, p>>] = [i \in Chunk' |-> <<call'[p], b, p>>]
    BY <1>0, <2>1
  <2>3. (call[p] > 0 /\ pc[p] = "idle") =>
           \A b \in Rank : <<b, p>> \notin Ucx => out[p][b] = [i \in Chunk |-> <<call[p], b, p>>]
    BY <1>0 DEF Exchanged
  <2> SUFFICES ASSUME call'[p] > 0, pc'[p] = "idle", NEW b \in Rank, <<b, p>> \notin Ucx
               PROVE  out'[p][b] = [i \in Chunk' |-> <<call'[p], b, p>>]
    BY DEF Exchanged
  <2>4. out[p][b] = [i \in Chunk |-> <<call[p], b, p>>]
    BY <1>0, <2>3
  <2> QED
    BY <1>0, <2>2, <2>4
<1>1. ASSUME NEW r \in Rank, Start(r) \/ Proceed(r), algo = "direct" PROVE DirectExchanges'
  <2>1. /\ algo' = algo /\ Chunk' = Chunk
        /\ \A p \in Rank \ {r} : pc'[p] = pc[p] /\ call'[p] = call[p] /\ out'[p] = out[p]
    BY <1>1, Frame DEF Chunk
  <2>2. \A p \in Rank \ {r} : Exchanged(p)'
    BY <1>0, <1>1, <2>1 DEF DirectExchanges
  <2>3. CASE Return(r)
    <3>1. /\ pc[r] = "last" /\ AllArrived(r) /\ out'[r] = recv[r] /\ call' = call
      BY <1>1, <2>3 DEF Return, Clock, TypeOK
    <3>2. \A b \in Rank : <<b, r>> \notin Ucx => recv[r][b] = Full(call[r], b, r)
      BY <1>1, <3>1, AllBlocksThere
    <3>3. Exchanged(r)'
      <4> SUFFICES ASSUME NEW b \in Rank, <<b, r>> \notin Ucx
                   PROVE  out'[r][b] = [i \in Chunk' |-> <<call'[r], b, r>>]
        BY DEF Exchanged
      <4>1. out'[r][b] = [i \in Chunk |-> <<call[r], b, r>>]
        BY <3>1, <3>2 DEF Full
      <4>2. [i \in Chunk |-> <<call[r], b, r>>] = [i \in Chunk' |-> <<call'[r], b, r>>]
        BY <2>1, <3>1
      <4> QED
        BY <4>1, <4>2
    <3> QED
      BY <2>2, <3>3 DEF DirectExchanges
  <2>4. CASE ~Return(r)
    <3>1. pc'[r] # "idle"
      <4>1. CASE Start(r) \/ Connect(r) \/ Dialed(r) \/ NoConnect(r) \/ PutsDone(r)
        BY <4>1 DEF Start, Connect, Dialed, NoConnect, PutsDone, EnterBarrier, Goto, TypeOK
      <4>2. CASE PassBarrier(r)
        BY <4>2 DEF PassBarrier, Goto, TypeOK
      <4>3. CASE Put(r) \/ SkipSelf(r)
        BY <4>3 DEF Put, NotConnected, SkipSelf, Goto, TypeOK
      <4>4. CASE RingGet(r) \/ RingPut(r) \/ RingTag(r)
        BY <1>1, <4>4 DEF RingGet, RingPut, RingTag, Clock
      <4> QED
        BY <1>1, <2>4, <4>1, <4>2, <4>3, <4>4 DEF Proceed
    <3> QED
      BY <2>2, <3>1 DEF DirectExchanges, Exchanged
  <2> QED
    BY <2>3, <2>4
<1>2. ASSUME NEW r \in Rank, Start(r) \/ Proceed(r), algo # "direct" PROVE DirectExchanges'
  BY <1>2, Frame DEF DirectExchanges
<1>3. ASSUME NEW r \in Rank, Adopt(r) PROVE DirectExchanges'
  BY <1>0, <1>3 DEF Adopt, DirectExchanges
<1>4. CASE Land \/ UNCHANGED vars
  BY <1>0, <1>4 DEF Land, vars, DirectExchanges
<1> QED
  BY <1>1, <1>2, <1>3, <1>4 DEF Next

----------------------------------------------------------------------------
LEMMA InitInv == Init => IInv
<1> SUFFICES ASSUME Init PROVE IInv
  OBVIOUS
<1>1. TypeOK
  BY InitTypeOK
<1>2. \A r \in Rank : /\ pc[r] = "idle" /\ call[r] = 0 /\ send[r] = 0 /\ arrived[r] = 0
                      /\ conns[r] = {} /\ adopting[r] = {} /\ flying = {}
  BY DEF Init
<1>3. \A r \in Rank : Phase(r) = W
  BY <1>2 DEF Phase, Base
<1>4. Clock /\ Barriers
  BY <1>2, <1>3 DEF Clock, Barriers
<1>5. Connections /\ Dialing /\ Sent
  BY <1>2 DEF Connections, Dialing, Sent
<1>6. Blocks /\ Flying /\ DirectExchanges
  BY <1>2 DEF Blocks, Flying, Init, Before, DirectExchanges, Exchanged
<1> QED
  BY <1>1, <1>4, <1>5, <1>6 DEF IInv

LEMMA StepInv == IInv /\ [Next]_vars => IInv'
<1> SUFFICES ASSUME IInv, [Next]_vars PROVE IInv'
  OBVIOUS
<1> QED
  BY StepTypeOK, StepBarriers, StepClock, StepSent, StepConnections, StepBlocks, StepFlying, StepExchanges
     DEF IInv

LEMMA Invariance == Spec => []IInv
  BY InitInv, StepInv, PTL DEF Spec

\* Every variable keeps its type, for every world size, every number of calls
\* and both algorithms.
THEOREM CollectiveTypeCorrect == Spec => []TypeOK
  BY TypeInvariance

\* The rounds of direct_alltoall, and the neighbours of the ring, never put two
\* clients into a connect call to the same server, and no listen thread of the
\* direct algorithm adds an endpoint over one its rank has.
THEOREM RoundsConnectSafely == Spec => []ConnectsSafely
<1>1. IInv => ConnectsSafely
  BY Safe DEF IInv
<1> QED
  BY <1>1, Invariance, PTL

\* The direct alltoall delivers what goes over RDMA: a rank that returned from
\* its n-th call holds its own block and what every rank whose puts to it are
\* RDMA writes sent it in its n-th call, whatever the others do over UCX.
THEOREM DirectAlltoallExchanges == Spec => []DirectExchanges
<1>1. IInv => DirectExchanges
  BY DEF IInv
<1> QED
  BY <1>1, Invariance, PTL
=============================================================================
