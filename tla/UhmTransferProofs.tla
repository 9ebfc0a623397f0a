------------------------- MODULE UhmTransferProofs -------------------------
(***************************************************************************)
(* The flow control of a UHM transfer, proved for every number of chunks,   *)
(* of queue pairs, every signalling setting and every output capacity.      *)
(*                                                                         *)
(* The argument follows the word of one half around its cycle: the sender   *)
(* holds it (CAN_WRITE), a flag is on its way, the receiver holds it        *)
(* (CAN_READ), a grant is on its way.  The invariant says that a flag or a  *)
(* grant on its way always belongs to the current turn of the cycle.        *)
(***************************************************************************)
EXTENDS UhmTransfer, FiniteSetTheorems, TLAPS

cs == chunk["Sender"]
cr == chunk["Receiver"]

\* The sender has posted the flag of chunk k; the receiver has granted it back.
FlagSent(k) == k < cs \/ (k = cs /\ pc["Sender"] = "next")
Granted(k) == k < cr

\* The chunks whose word the receiver relies on: in its chunk loop the current
\* one and the next, and chunk 0 as soon as word 0 is stored.
Watched(k) ==
    \/ pc["Receiver"] \in {"loop", "wait", "grant"} /\ k \in {cr, cr + 1}
    \/ pc["Receiver"] = "reset1" /\ k = 0

\* A call inside its chunk loop works on a chunk of the message; both calls
\* start at chunk 0.
Positions ==
    /\ pc["Sender"] \in {"flag", "next", "errorFlag"} => cs < NumChunks
    /\ pc["Receiver"] \in {"grant", "errorGrant"} => cr < NumChunks
    /\ pc["Sender"] \in {"idle", "first", "boot"} => cs = 0
    /\ pc["Receiver"] \in {"idle", "zero", "poll", "reset0", "reset1"} => cr = 0

\* While the bootstrap is outstanding the sender's words still allow writing.
BootFresh ==
    Boot \in sq["Sender"] =>
        /\ cs = 0
        /\ pc["Sender"] \in {"first", "boot", "error"}
        /\ \A i \in Half : state["Sender"][i] = CAN_WRITE

\* An outstanding flag was sent and its chunk is not granted back yet.
FlagsCurrent ==
    \A k \in Chunk : Flag(k) \in sq["Sender"] => FlagSent(k) /\ ~Granted(k)

\* An outstanding grant was granted and the chunk it makes room for not sent.
GrantsCurrent ==
    \A k \in Chunk : Flag(k) \in sq["Receiver"] => Granted(k) /\ ~FlagSent(k + 2)

\* An outstanding data write belongs to a posted chunk.
DataPosted == \A k \in Chunk : Data(k) \in sq["Sender"] => k < Posted

\* Only chunks whose flag was sent are granted.
GrantedSent == \A k \in Chunk : Granted(k) => FlagSent(k)

\* The sender is at most two chunks ahead of the grants.
Window ==
    /\ cs <= cr + 2
    /\ pc["Sender"] \in {"flag", "next", "errorFlag"} => cs < cr + 2

\* Between posting the data and the flag of a chunk no grant of its half is
\* outstanding.
NoGrantWhilePosting ==
    pc["Sender"] = "flag" =>
        \A k \in Chunk : k + 2 = cs => Flag(k) \notin sq["Receiver"]

\* What CAN_WRITE means to the sender.
SenderWord ==
    \A k \in Chunk :
        (state["Sender"][k % 2] = CAN_WRITE /\ FlagSent(k) /\ ~FlagSent(k + 2))
            => Granted(k) /\ Flag(k) \notin sq["Receiver"]

\* What CAN_READ means to the receiver.
ReceiverWord ==
    \A k \in Chunk :
        (Watched(k) /\ state["Receiver"][k % 2] = CAN_READ)
            => FlagSent(k) /\ Flag(k) \notin sq["Sender"]

\* The chunk being granted was sent and its flag delivered.
GrantingSent ==
    pc["Receiver"] = "grant" => FlagSent(cr) /\ Flag(cr) \notin sq["Sender"]

IInv ==
    /\ TypeOK
    /\ Positions
    /\ BootFresh
    /\ FlagsCurrent
    /\ GrantsCurrent
    /\ DataPosted
    /\ GrantedSent
    /\ Window
    /\ NoGrantWhilePosting
    /\ SenderWord
    /\ ReceiverWord
    /\ GrantingSent

----------------------------------------------------------------------------
USE NumChunksAssumption, NumQPsAssumption, SettingsAssumption, CapacitiesAssumption,
    NoneAssumption

\* Halves alternate: what the arithmetic of chunk_index relies on.
LEMMA Parity ==
    ASSUME NEW a \in Nat, NEW b \in Nat
    PROVE  /\ a % 2 \in Half
           /\ (a + 2) % 2 = a % 2
           /\ (a % 2 = b % 2 /\ a <= b /\ b <= a + 1) => a = b
           /\ (a + 1) % 2 # a % 2
  BY DEF Half

LEMMA InitInv == Init => IInv
  BY DEF Init, IInv, TypeOK, Positions, BootFresh, FlagsCurrent, GrantsCurrent, DataPosted,
     GrantedSent, Window, NoGrantWhilePosting, SenderWord, ReceiverWord, GrantingSent,
     cs, cr, FlagSent, Granted, Watched, Posted, Side, Half, Chunk, Payload, Labels,
     CAN_WRITE, CAN_READ


\* Work requests are told apart by their kind and their chunk.
LEMMA WrFacts ==
    ASSUME NEW j \in Chunk, NEW k \in Chunk
    PROVE  /\ Boot \in WR /\ Data(k) \in WR /\ Flag(k) \in WR
           /\ Data(k) # Boot /\ Flag(k) # Boot /\ Data(j) # Flag(k)
           /\ Data(j) = Data(k) => j = k
           /\ Flag(j) = Flag(k) => j = k
  BY DEF WR, Boot, Data, Flag, Chunk

\* The steps of uhm_send.
\* What TrackSignal keeps.
LEMMA TrackType ==
    ASSUME TypeOK, NEW s \in Side, chunk[s] \in Chunk, TrackSignal(s)
    PROVE  pending' \in [Side -> SUBSET Chunk] /\ since' \in [Side -> Nat]
<1>1. CASE Signaled(s)
  BY <1>1 DEF TypeOK, TrackSignal
<1>2. CASE ~Signaled(s)
  BY <1>2 DEF TypeOK, TrackSignal
<1> QED
  BY <1>1, <1>2

LEMMA SendDataInv == IInv /\ SendData => IInv'
<1> SUFFICES ASSUME IInv, SendData PROVE IInv'
  OBVIOUS
<1> USE DEF cs, cr
<1>1. /\ TypeOK /\ cs \in Nat /\ cr \in Nat /\ cs \in Chunk /\ pc["Sender"] = "loop"
      /\ state["Sender"][cs % 2] = CAN_WRITE
  BY SMTT(30) DEF IInv, TypeOK, SendData, MayWrite, Side, Chunk
<1>2. /\ UNCHANGED <<chunk, state, length, half, pending, since, setting, capacity, output>>
      /\ cs' = cs /\ cr' = cr
      /\ pc'["Receiver"] = pc["Receiver"]
      /\ sq'["Receiver"] = sq["Receiver"]
      /\ \/ sq'["Sender"] = sq["Sender"] \cup {Data(cs)} /\ pc'["Sender"] = "flag"
         \/ sq'["Sender"] = sq["Sender"] /\ pc'["Sender"] = "error"
  BY <1>1 DEF TypeOK, SendData, Post, Goto, Side
<1>3. TypeOK'
  BY <1>1, WrFacts DEF TypeOK, SendData, Post, Goto, Side, Labels
<1>4. Positions'
  BY <1>1, <1>2 DEF IInv, Positions, Chunk
<1>5. BootFresh'
  BY <1>1, <1>2, WrFacts DEF IInv, BootFresh
<1>6. FlagsCurrent'
  BY <1>1, <1>2, WrFacts DEF IInv, FlagsCurrent, FlagSent, Granted
<1>7. GrantsCurrent'
  BY <1>1, <1>2 DEF IInv, GrantsCurrent, FlagSent, Granted
<1>8. DataPosted'
  BY <1>1, <1>2, WrFacts DEF IInv, DataPosted, Posted, Chunk
<1>9. GrantedSent'
  BY <1>1, <1>2 DEF IInv, GrantedSent, FlagSent, Granted
<1>10. Window'
  <2>1. CASE cs < 2
    BY <1>1, <1>2, <2>1 DEF IInv, Window
  <2>2. CASE cs >= 2
    <3>1. /\ cs - 2 \in Chunk /\ (cs - 2) % 2 = cs % 2 /\ (cs - 2) + 2 = cs
          /\ FlagSent(cs - 2) /\ ~FlagSent((cs - 2) + 2)
      BY <1>1, <2>2 DEF Chunk, FlagSent
    <3>2. Granted(cs - 2)
      BY <1>1, <3>1 DEF IInv, SenderWord
    <3> QED
      BY <1>1, <1>2, <3>2 DEF IInv, Window, Granted
  <2> QED
    BY <1>1, <2>1, <2>2
<1>11. NoGrantWhilePosting'
  <2> SUFFICES ASSUME NEW k \in Chunk, k + 2 = cs PROVE Flag(k) \notin sq["Receiver"]
    BY <1>2 DEF NoGrantWhilePosting
  <2>1. k % 2 = cs % 2 /\ FlagSent(k) /\ ~FlagSent(k + 2)
    BY <1>1 DEF Chunk, FlagSent
  <2> QED
    BY <1>1, <2>1 DEF IInv, SenderWord
<1>12. SenderWord'
  BY <1>1, <1>2 DEF IInv, SenderWord, FlagSent, Granted
<1>13. ReceiverWord'
  BY <1>1, <1>2, WrFacts DEF IInv, ReceiverWord, Watched, FlagSent
<1>14. GrantingSent'
  BY <1>1, <1>2, WrFacts DEF IInv, GrantingSent, FlagSent, Positions, Chunk
<1> QED
  BY <1>3, <1>4, <1>5, <1>6, <1>7, <1>8, <1>9, <1>10, <1>11, <1>12, <1>13, <1>14 DEF IInv

LEMMA SendFlagInv == IInv /\ SendFlag => IInv'
<1> SUFFICES ASSUME IInv, SendFlag PROVE IInv'
  OBVIOUS
<1> USE DEF cs, cr
<1>1. /\ TypeOK /\ cs \in Nat /\ cr \in Nat /\ cs \in Chunk /\ pc["Sender"] = "flag"
      /\ cs % 2 \in Half
  BY SMTT(30) DEF IInv, TypeOK, SendFlag, Positions, Side, Chunk, Half
<1>2. /\ UNCHANGED <<chunk, length, half, setting, capacity, output>>
      /\ cs' = cs /\ cr' = cr
      /\ pc'["Receiver"] = pc["Receiver"]
      /\ sq'["Receiver"] = sq["Receiver"]
      /\ state'["Receiver"] = state["Receiver"]
      /\ state'["Sender"][cs % 2] = CAN_READ
      /\ \A i \in Half : i # cs % 2 => state'["Sender"][i] = state["Sender"][i]
      /\ \/ sq'["Sender"] = sq["Sender"] \cup {Flag(cs)} /\ pc'["Sender"] = "next"
         \/ sq'["Sender"] = sq["Sender"] /\ pc'["Sender"] = "errorFlag"
  BY <1>1 DEF TypeOK, SendFlag, Post, Goto, Side
<1>3. TypeOK'
  <2>1. state' \in [Side -> [Half -> {CAN_WRITE, CAN_READ}]]
    BY <1>1 DEF TypeOK, SendFlag
  <2>2. sq' \in [Side -> SUBSET WR] /\ pc' \in [Side -> Labels]
    BY <1>1, WrFacts DEF TypeOK, SendFlag, Post, Goto, Labels, Side
  <2>3. pending' \in [Side -> SUBSET Chunk] /\ since' \in [Side -> Nat]
    BY <1>1, TrackType DEF TypeOK, SendFlag, Side
  <2> QED
    BY <1>1, <1>2, <2>1, <2>2, <2>3 DEF TypeOK
<1>4. Positions'
  BY <1>1, <1>2 DEF IInv, Positions, Chunk
<1>5. BootFresh'
  BY <1>1, <1>2, WrFacts DEF IInv, BootFresh
<1>6. FlagsCurrent'
  <2>1. ~Granted(cs)
    BY <1>1 DEF IInv, GrantedSent, Granted, FlagSent
  <2> QED
    BY <1>1, <1>2, <2>1, WrFacts DEF IInv, FlagsCurrent, FlagSent, Granted, Chunk
<1>7. GrantsCurrent'
  BY <1>1, <1>2 DEF IInv, GrantsCurrent, NoGrantWhilePosting, FlagSent, Granted, Chunk
<1>8. DataPosted'
  BY <1>1, <1>2, WrFacts DEF IInv, DataPosted, Posted, Chunk
<1>9. GrantedSent'
  BY <1>1, <1>2 DEF IInv, GrantedSent, FlagSent, Granted, Chunk
<1>10. Window'
  BY <1>1, <1>2 DEF IInv, Window
<1>11. NoGrantWhilePosting'
  BY <1>1, <1>2 DEF IInv, NoGrantWhilePosting
<1>12. SenderWord'
  <2> SUFFICES ASSUME NEW k \in Chunk, state'["Sender"][k % 2] = CAN_WRITE,
                      FlagSent(k)', ~FlagSent(k + 2)'
               PROVE  Granted(k)' /\ Flag(k) \notin sq'["Receiver"]
    BY DEF SenderWord
  <2>1. k % 2 # cs % 2 /\ k % 2 \in Half
    BY <1>2 DEF CAN_WRITE, CAN_READ, Half, Chunk
  <2>2. k # cs /\ k \in Nat
    BY <2>1 DEF Chunk
  <2>3. state["Sender"][k % 2] = CAN_WRITE /\ FlagSent(k) /\ ~FlagSent(k + 2)
    BY <1>1, <1>2, <2>1, <2>2 DEF FlagSent
  <2> QED
    BY <1>2, <2>3 DEF IInv, SenderWord, Granted
<1>13. ReceiverWord'
  BY <1>1, <1>2, WrFacts DEF IInv, ReceiverWord, Watched, FlagSent, Chunk
<1>14. GrantingSent'
  <2>1. ASSUME pc["Receiver"] = "grant" PROVE cr \in Chunk /\ cr # cs
    BY <1>1, <2>1 DEF IInv, GrantingSent, Positions, FlagSent, Chunk
  <2> QED
    BY <1>1, <1>2, <2>1, WrFacts DEF IInv, GrantingSent, FlagSent, Chunk
<1> QED
  BY <1>3, <1>4, <1>5, <1>6, <1>7, <1>8, <1>9, <1>10, <1>11, <1>12, <1>13, <1>14 DEF IInv

LEMMA SendPrefillNextInv == IInv /\ SendPrefillNext => IInv'
<1> SUFFICES ASSUME IInv, SendPrefillNext PROVE IInv'
  OBVIOUS
<1> USE DEF cs, cr
<1>1. /\ TypeOK /\ cs \in Nat /\ cr \in Nat /\ cs \in Chunk /\ pc["Sender"] = "next"
      /\ (cs + 1) % 2 \in Half
  <2>1. TypeOK /\ cs \in Nat /\ cr \in Nat /\ pc["Sender"] = "next"
    BY DEF IInv, TypeOK, SendPrefillNext, Side
  <2>2. cs < NumChunks
    BY <2>1 DEF IInv, Positions
  <2> QED
    BY <2>1, <2>2 DEF Chunk, Half
<1>2. /\ UNCHANGED <<state, length, sq, pending, since, setting, capacity, output>>
      /\ cs' = cs + 1 /\ cr' = cr
      /\ pc'["Receiver"] = pc["Receiver"]
      /\ pc'["Sender"] \in {"wait", "loop"}
  BY <1>1 DEF TypeOK, SendPrefillNext, Goto, Side
<1>3. TypeOK'
  <2>1. half' \in [Side -> [Half -> Payload]]
    <3>1. CASE cs + 1 < NumChunks
      <4>1. cs + 1 \in Payload
        BY <1>1, <3>1 DEF Payload, Chunk
      <4> QED
        BY <1>1, <3>1, <4>1 DEF TypeOK, SendPrefillNext, PrefillNext
    <3>2. CASE ~(cs + 1 < NumChunks)
      BY <1>1, <3>2 DEF TypeOK, SendPrefillNext, PrefillNext
    <3> QED
      BY <3>1, <3>2
  <2>2. chunk' \in [Side -> 0 .. NumChunks]
    <3>1. cs + 1 \in 0 .. NumChunks
      BY <1>1 DEF Chunk
    <3> QED
      BY <1>1, <3>1 DEF TypeOK, SendPrefillNext
  <2>3. pc' \in [Side -> Labels]
    <3>1. \E l \in Labels : pc' = [pc EXCEPT !["Sender"] = l]
      BY DEF SendPrefillNext, Goto, Labels
    <3> QED
      BY <1>1, <3>1 DEF TypeOK
  <2> QED
    BY <1>1, <1>2, <2>1, <2>2, <2>3 DEF TypeOK
<1>4. \A k \in Nat : FlagSent(k)' <=> FlagSent(k)
  BY <1>1, <1>2 DEF FlagSent
<1>5. \A k \in Nat : Granted(k)' <=> Granted(k)
  BY <1>2 DEF Granted
<1>6. Positions' /\ BootFresh' /\ NoGrantWhilePosting'
  BY <1>1, <1>2 DEF IInv, Positions, BootFresh, NoGrantWhilePosting
<1>7. FlagsCurrent' /\ GrantsCurrent' /\ GrantedSent'
  BY <1>2, <1>4, <1>5 DEF IInv, FlagsCurrent, GrantsCurrent, GrantedSent, Chunk
<1>8. DataPosted' /\ Window'
  BY <1>1, <1>2 DEF IInv, DataPosted, Posted, Window, Chunk
<1>9. SenderWord'
  BY <1>2, <1>4, <1>5 DEF IInv, SenderWord, Chunk
<1>10. ReceiverWord'
  BY <1>2, <1>4 DEF IInv, ReceiverWord, Watched, Chunk
<1>11. GrantingSent'
  BY <1>1, <1>2, <1>4 DEF IInv, GrantingSent
<1> QED
  BY <1>3, <1>6, <1>7, <1>8, <1>9, <1>10, <1>11 DEF IInv

\* The steps of uhm_recv.
LEMMA RecvChunkInv == IInv /\ RecvChunk => IInv'
<1> SUFFICES ASSUME IInv, RecvChunk PROVE IInv'
  OBVIOUS
<1> USE DEF cs, cr
<1>1. /\ TypeOK /\ cs \in Nat /\ cr \in Nat /\ cr \in Chunk /\ pc["Receiver"] = "loop"
      /\ cr % 2 \in Half
      /\ state["Receiver"][cr % 2] = CAN_READ
  BY SMTT(30) DEF IInv, TypeOK, RecvChunk, MayRead, Side, Chunk, Half
<1>2. /\ UNCHANGED <<chunk, state, length, half, sq, pending, since, setting, capacity>>
      /\ cs' = cs /\ cr' = cr
      /\ pc'["Sender"] = pc["Sender"]
      /\ pc'["Receiver"] \in {"grant", "error"}
  BY <1>1 DEF TypeOK, RecvChunk, Goto, Side
<1>3. TypeOK'
  <2>1. output' \in [Chunk -> Payload] /\ pc' \in [Side -> Labels]
    BY <1>1 DEF TypeOK, RecvChunk, Goto, Labels, Side
  <2> QED
    BY <1>1, <1>2, <2>1 DEF TypeOK
<1>4. FlagSent(cr) /\ Flag(cr) \notin sq["Sender"]
  BY <1>1 DEF IInv, ReceiverWord, Watched
<1>5. Positions' /\ BootFresh' /\ FlagsCurrent' /\ GrantsCurrent' /\ DataPosted'
  BY <1>1, <1>2 DEF IInv, Positions, BootFresh, FlagsCurrent, GrantsCurrent, DataPosted, Posted,
     FlagSent, Granted, Chunk
<1>6. GrantedSent' /\ Window' /\ NoGrantWhilePosting'
  BY <1>1, <1>2 DEF IInv, GrantedSent, Window, NoGrantWhilePosting, FlagSent, Granted
<1>7. SenderWord'
  BY <1>2 DEF IInv, SenderWord, FlagSent, Granted
<1>8. ReceiverWord'
  BY <1>1, <1>2 DEF IInv, ReceiverWord, Watched, FlagSent
<1>9. GrantingSent'
  BY <1>2, <1>4 DEF GrantingSent, FlagSent
<1> QED
  BY <1>3, <1>5, <1>6, <1>7, <1>8, <1>9 DEF IInv

LEMMA RecvGrantInv == IInv /\ RecvGrant => IInv'
<1> SUFFICES ASSUME IInv, RecvGrant PROVE IInv'
  OBVIOUS
<1> USE DEF cs, cr
<1>1. /\ TypeOK /\ cs \in Nat /\ cr \in Nat /\ cr \in Chunk /\ pc["Receiver"] = "grant"
      /\ cr % 2 \in Half
      /\ FlagSent(cr) /\ Flag(cr) \notin sq["Sender"]
  BY SMTT(30) DEF IInv, TypeOK, RecvGrant, Positions, GrantingSent, Side, Chunk, Half
<1>2. /\ UNCHANGED <<length, half, setting, capacity, output>>
      /\ cs' = cs
      /\ pc'["Sender"] = pc["Sender"]
      /\ sq'["Sender"] = sq["Sender"]
      /\ state'["Sender"] = state["Sender"]
      /\ state'["Receiver"][cr % 2] = CAN_WRITE
      /\ \A i \in Half : i # cr % 2 => state'["Receiver"][i] = state["Receiver"][i]
  BY <1>1 DEF TypeOK, RecvGrant, ReleaseHalf, Post, Goto, Side
<1>3. \/ /\ cr' = cr + 1 /\ sq'["Receiver"] = sq["Receiver"] \cup {Flag(cr)}
         /\ pc'["Receiver"] \in {"wait", "loop"}
      \/ /\ cr' = cr /\ sq'["Receiver"] = sq["Receiver"] /\ pc'["Receiver"] = "errorGrant"
  BY <1>1 DEF TypeOK, RecvGrant, Post, Goto, Side
<1>4. TypeOK'
  <2>1. state' \in [Side -> [Half -> {CAN_WRITE, CAN_READ}]]
    BY <1>1 DEF TypeOK, RecvGrant, ReleaseHalf
  <2>2. sq' \in [Side -> SUBSET WR] /\ pc' \in [Side -> Labels]
    <3>1. sq' \in [Side -> SUBSET WR]
      BY <1>1, WrFacts DEF TypeOK, RecvGrant, Post, Side
    <3>2. \E l \in Labels : pc' = [pc EXCEPT !["Receiver"] = l]
      BY DEF RecvGrant, Goto, Labels
    <3> QED
      BY <1>1, <3>1, <3>2 DEF TypeOK
  <2>3. pending' \in [Side -> SUBSET Chunk] /\ since' \in [Side -> Nat]
    BY <1>1, TrackType DEF TypeOK, RecvGrant, Side
  <2>4. chunk' \in [Side -> 0 .. NumChunks]
    <3>1. cr + 1 \in 0 .. NumChunks
      BY <1>1 DEF Chunk
    <3> QED
      BY <1>1, <3>1 DEF TypeOK, RecvGrant
  <2> QED
    BY <1>1, <1>2, <2>1, <2>2, <2>3, <2>4 DEF TypeOK
<1>5. Positions' /\ BootFresh' /\ DataPosted'
  BY <1>1, <1>2, <1>3 DEF IInv, Positions, BootFresh, DataPosted, Posted, Chunk
<1>6. FlagsCurrent'
  <2> SUFFICES ASSUME NEW k \in Chunk, Flag(k) \in sq["Sender"]
               PROVE  FlagSent(k)' /\ ~Granted(k)'
    BY <1>2 DEF FlagsCurrent
  <2>1. k # cr /\ k \in Nat
    BY <1>1 DEF Chunk
  <2> QED
    BY <1>1, <1>2, <1>3, <2>1 DEF IInv, FlagsCurrent, FlagSent, Granted
<1>7. GrantsCurrent'
  <2>1. ~FlagSent(cr + 2)
    BY <1>1 DEF IInv, Window, FlagSent
  <2> QED
    BY <1>1, <1>2, <1>3, <2>1, WrFacts DEF IInv, GrantsCurrent, FlagSent, Granted, Chunk
<1>8. GrantedSent' /\ Window'
  BY <1>1, <1>2, <1>3 DEF IInv, GrantedSent, Window, FlagSent, Granted, Chunk
<1>9. NoGrantWhilePosting'
  <2>1. pc["Sender"] = "flag" => cs # cr + 2
    BY <1>1 DEF IInv, Window
  <2> QED
    BY <1>1, <1>2, <1>3, <2>1, WrFacts DEF IInv, NoGrantWhilePosting, Chunk
<1>10. SenderWord'
  <2> SUFFICES ASSUME NEW k \in Chunk, state["Sender"][k % 2] = CAN_WRITE,
                      FlagSent(k), ~FlagSent(k + 2)
               PROVE  Granted(k)' /\ Flag(k) \notin sq'["Receiver"]
    BY <1>2 DEF SenderWord, FlagSent
  <2>1. Granted(k) /\ Flag(k) \notin sq["Receiver"]
    BY DEF IInv, SenderWord
  <2>2. k # cr /\ k \in Nat
    BY <1>1, <2>1 DEF Granted, Chunk
  <2> QED
    BY <1>1, <1>3, <2>1, <2>2, WrFacts DEF Granted
<1>11. ReceiverWord'
  <2> SUFFICES ASSUME cr' = cr + 1, NEW k \in Chunk, k \in {cr + 1, cr + 2},
                      state'["Receiver"][k % 2] = CAN_READ
               PROVE  FlagSent(k) /\ Flag(k) \notin sq["Sender"]
    BY <1>1, <1>2, <1>3 DEF ReceiverWord, Watched, FlagSent
  <2>1. k % 2 # cr % 2 /\ k % 2 \in Half
    BY <1>2 DEF CAN_WRITE, CAN_READ, Half, Chunk
  <2>2. k = cr + 1
    BY <1>1, <2>1
  <2>3. state["Receiver"][k % 2] = CAN_READ
    BY <1>2, <2>1
  <2> QED
    BY <1>1, <2>2, <2>3 DEF IInv, ReceiverWord, Watched
<1>12. GrantingSent'
  BY <1>3 DEF GrantingSent
<1> QED
  BY <1>4, <1>5, <1>6, <1>7, <1>8, <1>9, <1>10, <1>11, <1>12 DEF IInv

\* The steps of the NIC.
LEMMA NicBootInv == IInv /\ NicBoot => IInv'
<1> SUFFICES ASSUME IInv, NicBoot PROVE IInv'
  OBVIOUS
<1> USE DEF cs, cr
<1>1. /\ TypeOK /\ cs \in Nat /\ cr \in Nat /\ Boot \in sq["Sender"]
  BY DEF IInv, TypeOK, NicBoot, Oldest, Side
<1>2. /\ UNCHANGED <<pc, chunk, half, pending, since, setting, capacity, output>>
      /\ cs' = cs /\ cr' = cr
      /\ sq'["Sender"] = sq["Sender"] \ {Boot} /\ sq'["Receiver"] = sq["Receiver"]
      /\ state'["Sender"] = state["Sender"]
      /\ \A i \in Half : state'["Receiver"][i] = CAN_WRITE
  BY <1>1 DEF IInv, TypeOK, BootFresh, NicBoot, Retire, Side
<1>3. TypeOK'
  BY <1>1 DEF TypeOK, NicBoot, Retire, Side
<1>4. Positions' /\ BootFresh' /\ FlagsCurrent' /\ GrantsCurrent' /\ DataPosted'
  BY <1>1, <1>2, WrFacts DEF IInv, Positions, BootFresh, FlagsCurrent, GrantsCurrent, DataPosted,
     Posted, FlagSent, Granted
<1>5. GrantedSent' /\ Window' /\ NoGrantWhilePosting' /\ SenderWord'
  BY <1>1, <1>2 DEF IInv, GrantedSent, Window, NoGrantWhilePosting, SenderWord, FlagSent, Granted
<1>6. ReceiverWord'
  <2>1. \A k \in Chunk : state'["Receiver"][k % 2] # CAN_READ
    BY <1>2 DEF Half, Chunk, CAN_WRITE, CAN_READ
  <2> QED
    BY <2>1 DEF ReceiverWord
<1>7. GrantingSent'
  BY <1>2 DEF IInv, GrantingSent, FlagSent
<1> QED
  BY <1>3, <1>4, <1>5, <1>6, <1>7 DEF IInv

LEMMA NicDataInv == IInv /\ (\E k \in Chunk : NicData(k)) => IInv'
<1> SUFFICES ASSUME IInv, NEW k \in Chunk, NicData(k) PROVE IInv'
  OBVIOUS
<1> USE DEF cs, cr
<1>1. /\ TypeOK /\ cs \in Nat /\ cr \in Nat /\ k % 2 \in Half
  BY SMTT(30) DEF IInv, TypeOK, Side, Chunk, Half
<1>2. /\ UNCHANGED <<pc, chunk, state, length, pending, since, setting, capacity, output>>
      /\ cs' = cs /\ cr' = cr
      /\ sq'["Sender"] = sq["Sender"] \ {Data(k)} /\ sq'["Receiver"] = sq["Receiver"]
  BY <1>1 DEF TypeOK, NicData, Retire, Side
<1>3. TypeOK'
  <2>1. half' \in [Side -> [Half -> Payload]]
    BY <1>1 DEF TypeOK, NicData, Side
  <2> QED
    BY <1>1, <1>2, <2>1 DEF TypeOK, NicData, Retire, Side
<1>4. Positions' /\ BootFresh' /\ FlagsCurrent' /\ GrantsCurrent' /\ DataPosted'
  BY <1>1, <1>2, WrFacts DEF IInv, Positions, BootFresh, FlagsCurrent, GrantsCurrent, DataPosted,
     Posted, FlagSent, Granted
<1>5. GrantedSent' /\ Window' /\ NoGrantWhilePosting' /\ SenderWord'
  BY <1>1, <1>2 DEF IInv, GrantedSent, Window, NoGrantWhilePosting, SenderWord, FlagSent, Granted
<1>6. ReceiverWord' /\ GrantingSent'
  BY <1>2 DEF IInv, ReceiverWord, Watched, GrantingSent, FlagSent
<1> QED
  BY <1>3, <1>4, <1>5, <1>6 DEF IInv

LEMMA NicSenderFlagInv == IInv /\ (\E k \in Chunk : NicFlag("Sender", k)) => IInv'
<1> SUFFICES ASSUME IInv, NEW k \in Chunk, NicFlag("Sender", k) PROVE IInv'
  OBVIOUS
<1> USE DEF cs, cr
<1>1. /\ TypeOK /\ cs \in Nat /\ cr \in Nat /\ k \in Nat /\ k % 2 \in Half
      /\ Flag(k) \in sq["Sender"]
  BY SMTT(30) DEF IInv, TypeOK, NicFlag, Oldest, Side, Chunk, Half
<1>2. /\ UNCHANGED <<pc, chunk, length, half, pending, since, setting, capacity, output>>
      /\ cs' = cs /\ cr' = cr
      /\ sq'["Sender"] = sq["Sender"] \ {Flag(k)} /\ sq'["Receiver"] = sq["Receiver"]
      /\ state'["Sender"] = state["Sender"]
      /\ \A i \in Half : i # k % 2 => state'["Receiver"][i] = state["Receiver"][i]
  BY <1>1 DEF TypeOK, NicFlag, Retire, Peer, Side
<1>3. TypeOK'
  <2>1. state' \in [Side -> [Half -> {CAN_WRITE, CAN_READ}]]
    BY <1>1 DEF TypeOK, NicFlag, Peer, Side
  <2> QED
    BY <1>1, <1>2, <2>1 DEF TypeOK, NicFlag, Retire, Side
<1>4. Positions' /\ BootFresh' /\ FlagsCurrent' /\ GrantsCurrent' /\ DataPosted'
  BY <1>1, <1>2, WrFacts DEF IInv, Positions, BootFresh, FlagsCurrent, GrantsCurrent, DataPosted,
     Posted, FlagSent, Granted
<1>5. GrantedSent' /\ Window' /\ NoGrantWhilePosting' /\ SenderWord'
  BY <1>1, <1>2 DEF IInv, GrantedSent, Window, NoGrantWhilePosting, SenderWord, FlagSent, Granted
<1>6. ReceiverWord'
  <2> SUFFICES ASSUME NEW j \in Chunk, Watched(j),
                      state'["Receiver"][j % 2] = CAN_READ
               PROVE  FlagSent(j) /\ Flag(j) \notin sq'["Sender"]
    BY <1>2 DEF ReceiverWord, Watched, FlagSent
  <2>1. FlagSent(k) /\ k \in {cr, cr + 1} /\ j \in {cr, cr + 1}
    BY <1>1 DEF IInv, FlagsCurrent, Window, FlagSent, Granted, Watched, Positions
  <2>2. CASE j % 2 = k % 2
    <3>1. j = k
      BY <1>1, <2>1, <2>2
    <3> QED
      BY <1>2, <2>1, <3>1
  <2>3. CASE j % 2 # k % 2
    <3>1. state["Receiver"][j % 2] = CAN_READ
      BY <1>1, <1>2, <2>3 DEF Half, Chunk
    <3> QED
      BY <1>2, <3>1 DEF IInv, ReceiverWord
  <2> QED
    BY <2>2, <2>3
<1>7. GrantingSent'
  BY <1>2 DEF IInv, GrantingSent, FlagSent
<1> QED
  BY <1>3, <1>4, <1>5, <1>6, <1>7 DEF IInv

LEMMA NicReceiverFlagInv == IInv /\ (\E k \in Chunk : NicFlag("Receiver", k)) => IInv'
<1> SUFFICES ASSUME IInv, NEW k \in Chunk, NicFlag("Receiver", k) PROVE IInv'
  OBVIOUS
<1> USE DEF cs, cr
<1>1. /\ TypeOK /\ cs \in Nat /\ cr \in Nat /\ k \in Nat /\ k % 2 \in Half
      /\ Flag(k) \in sq["Receiver"]
  BY SMTT(30) DEF IInv, TypeOK, NicFlag, Oldest, Side, Chunk, Half
<1>2. /\ UNCHANGED <<pc, chunk, length, half, pending, since, setting, capacity, output>>
      /\ cs' = cs /\ cr' = cr
      /\ sq'["Sender"] = sq["Sender"] /\ sq'["Receiver"] = sq["Receiver"] \ {Flag(k)}
      /\ state'["Receiver"] = state["Receiver"]
      /\ \A i \in Half : i # k % 2 => state'["Sender"][i] = state["Sender"][i]
  BY <1>1 DEF TypeOK, NicFlag, Retire, Peer, Side
<1>3. TypeOK'
  <2>1. state' \in [Side -> [Half -> {CAN_WRITE, CAN_READ}]]
    BY <1>1 DEF TypeOK, NicFlag, Peer, Side
  <2> QED
    BY <1>1, <1>2, <2>1 DEF TypeOK, NicFlag, Retire, Side
<1>4. Granted(k) /\ FlagSent(k) /\ ~FlagSent(k + 2)
  BY <1>1 DEF IInv, GrantsCurrent, GrantedSent
<1>5. BootFresh'
  BY <1>1, <1>2, <1>4 DEF IInv, BootFresh, Positions, FlagSent
<1>6. Positions' /\ FlagsCurrent' /\ GrantsCurrent' /\ DataPosted'
  BY <1>1, <1>2 DEF IInv, Positions, FlagsCurrent, GrantsCurrent, DataPosted, Posted, FlagSent,
     Granted
<1>7. GrantedSent' /\ Window' /\ NoGrantWhilePosting'
  BY <1>1, <1>2 DEF IInv, GrantedSent, Window, NoGrantWhilePosting, FlagSent, Granted
<1>8. SenderWord'
  <2> SUFFICES ASSUME NEW j \in Chunk, state'["Sender"][j % 2] = CAN_WRITE,
                      FlagSent(j), ~FlagSent(j + 2)
               PROVE  Granted(j) /\ Flag(j) \notin sq'["Receiver"]
    BY <1>2 DEF SenderWord, FlagSent, Granted
  <2>1. CASE j % 2 = k % 2
    <3>1. j = k
      BY <1>1, <1>4, <2>1 DEF FlagSent, Chunk
    <3> QED
      BY <1>2, <1>4, <3>1
  <2>2. CASE j % 2 # k % 2
    <3>1. state["Sender"][j % 2] = CAN_WRITE
      BY <1>1, <1>2, <2>2 DEF Half, Chunk
    <3> QED
      BY <1>2, <3>1 DEF IInv, SenderWord
  <2> QED
    BY <2>1, <2>2
<1>9. ReceiverWord' /\ GrantingSent'
  BY <1>2 DEF IInv, ReceiverWord, Watched, GrantingSent, FlagSent
<1> QED
  BY <1>3, <1>5, <1>6, <1>7, <1>8, <1>9 DEF IInv

\* Steps that leave the counters, the words and the queues alone.
LEMMA QuietInv ==
    ASSUME IInv, TypeOK', UNCHANGED <<chunk, state, sq>>,
           pc'["Sender"] = pc["Sender"]
             \/ (pc["Sender"] \in {"first", "boot", "loop", "wait"}
                   /\ pc'["Sender"] \in {"boot", "loop", "done", "error"}),
           pc["Sender"] = "first" => pc'["Sender"] \in {"first", "boot"},
           pc["Sender"] = "boot" => pc'["Sender"] \in {"boot", "error"} \/ Boot \notin sq["Sender"],
           pc'["Sender"] = "boot" => pc["Sender"] \in {"first", "boot"},
           pc'["Receiver"] = pc["Receiver"]
             \/ (pc["Receiver"] \in {"zero", "poll", "loop", "wait"}
                   /\ pc'["Receiver"] \in {"poll", "reset0", "loop", "done", "error"}),
           pc'["Receiver"] = "loop" => pc["Receiver"] \in {"loop", "wait"},
           pc'["Receiver"] \in {"poll", "reset0"} => pc["Receiver"] \in {"zero", "poll", "reset0"}
    PROVE  IInv'
<1> USE DEF cs, cr
<1>1. cs' = cs /\ cr' = cr
  OBVIOUS
<1>2. \A k \in Nat : (FlagSent(k)' <=> FlagSent(k)) /\ (Granted(k)' <=> Granted(k))
  BY <1>1 DEF FlagSent, Granted
<1>3. Positions' /\ BootFresh' /\ DataPosted' /\ Window' /\ NoGrantWhilePosting'
  BY <1>1 DEF IInv, Positions, BootFresh, DataPosted, Posted, Window, NoGrantWhilePosting
<1>4. FlagsCurrent' /\ GrantsCurrent' /\ GrantedSent' /\ SenderWord'
  BY <1>2 DEF IInv, FlagsCurrent, GrantsCurrent, GrantedSent, SenderWord, Chunk
<1>5. ReceiverWord' /\ GrantingSent'
  BY <1>1 DEF IInv, ReceiverWord, Watched, GrantingSent, FlagSent
<1> QED
  BY <1>3, <1>4, <1>5 DEF IInv

\* The bootstrap of both calls.
LEMMA StartInv == IInv /\ (SendStart \/ RecvStart \/ RecvReset0 \/ RecvReset1) => IInv'
<1> USE DEF cs, cr
<1>1. ASSUME IInv, SendStart PROVE IInv'
  <2>1. /\ TypeOK /\ cs = 0 /\ cr \in Nat /\ pc["Sender"] = "idle"
    BY <1>1 DEF IInv, TypeOK, Positions, SendStart, Side
  <2>2. /\ cs' = 0 /\ cr' = cr /\ UNCHANGED chunk
        /\ pc'["Receiver"] = pc["Receiver"] /\ sq'["Receiver"] = sq["Receiver"]
        /\ state'["Receiver"] = state["Receiver"]
        /\ \A i \in Half : state'["Sender"][i] = CAN_WRITE
        /\ \/ sq'["Sender"] = sq["Sender"] \cup {Boot} /\ pc'["Sender"] = "first"
           \/ sq'["Sender"] = sq["Sender"] /\ pc'["Sender"] = "error"
    BY <1>1, <2>1 DEF TypeOK, SendStart, Post, Goto, Side
  <2>3. TypeOK'
    <3>1. state' \in [Side -> [Half -> {CAN_WRITE, CAN_READ}]]
      BY <1>1, <2>1 DEF TypeOK, SendStart
    <3>2. length' \in [Side -> {0, NumChunks}]
      BY <1>1, <2>1 DEF TypeOK, SendStart
    <3>3. sq' \in [Side -> SUBSET WR] /\ pc' \in [Side -> Labels]
      <4>1. Boot \in WR
        BY DEF Boot, WR, Chunk
      <4> QED
        BY <1>1, <2>1, <4>1 DEF TypeOK, SendStart, Post, Goto, Labels, Side
    <3> QED
      BY <1>1, <2>1, <3>1, <3>2, <3>3 DEF TypeOK, SendStart
  <2>4. \A k \in Chunk : ~FlagSent(k) /\ ~FlagSent(k)'
    BY <2>1, <2>2 DEF FlagSent, Chunk
  <2>5. \A k \in Chunk : Flag(k) \notin sq'["Sender"] /\ Flag(k) \notin sq'["Receiver"]
    BY <1>1, <2>2, <2>4, WrFacts DEF IInv, FlagsCurrent, GrantsCurrent, GrantedSent
  <2>6. Positions' /\ BootFresh' /\ DataPosted' /\ Window'
    BY <1>1, <2>1, <2>2, WrFacts
       DEF IInv, Positions, BootFresh, DataPosted, Posted, Window, Chunk
  <2>7. FlagsCurrent' /\ GrantsCurrent' /\ GrantedSent' /\ NoGrantWhilePosting' /\ SenderWord'
    BY <1>1, <2>2, <2>4, <2>5
       DEF IInv, FlagsCurrent, GrantsCurrent, GrantedSent, NoGrantWhilePosting, SenderWord, Granted
  <2>8. ReceiverWord' /\ GrantingSent'
    BY <1>1, <2>1, <2>2, <2>4, <2>5
       DEF IInv, Positions, ReceiverWord, Watched, GrantingSent, FlagSent, Chunk
  <2> QED
    BY <2>3, <2>6, <2>7, <2>8 DEF IInv
<1>2. ASSUME IInv, RecvStart \/ RecvReset0 \/ RecvReset1 PROVE IInv'
  <2>1. /\ TypeOK /\ cs \in Nat /\ cr = 0
        /\ pc["Receiver"] \in {"idle", "reset0", "reset1"}
    BY <1>2 DEF IInv, TypeOK, Positions, RecvStart, RecvReset0, RecvReset1, ResetWord, Side
  <2>2. /\ UNCHANGED <<chunk, sq>> /\ cs' = cs /\ cr' = cr
        /\ pc'["Sender"] = pc["Sender"] /\ state'["Sender"] = state["Sender"]
        /\ pc'["Receiver"] \in {"zero", "reset1", "loop"}
        /\ pc'["Receiver"] = "reset1" => state'["Receiver"][0] = CAN_WRITE
        /\ pc'["Receiver"] = "loop" =>
               /\ pc["Receiver"] = "reset1"
               /\ state'["Receiver"][1] = CAN_WRITE
               /\ state'["Receiver"][0] = state["Receiver"][0]
    BY <1>2, <2>1 DEF TypeOK, RecvStart, RecvReset0, RecvReset1, ResetWord, Goto, Side, Half
  <2>3. TypeOK'
    <3>1. \E l \in Labels : pc' = [pc EXCEPT !["Receiver"] = l]
      BY <1>2 DEF RecvStart, RecvReset0, RecvReset1, ResetWord, Goto, Labels
    <3>2. pc' \in [Side -> Labels]
      BY <2>1, <3>1 DEF TypeOK
    <3>3. state' \in [Side -> [Half -> {CAN_WRITE, CAN_READ}]]
      <4>1. CASE RecvStart
        BY <2>1, <4>1 DEF TypeOK, RecvStart
      <4>2. ASSUME NEW i \in Half, state' = [state EXCEPT !["Receiver"][i] = CAN_WRITE]
            PROVE  state' \in [Side -> [Half -> {CAN_WRITE, CAN_READ}]]
        BY <2>1, <4>2 DEF TypeOK
      <4>3. CASE RecvReset0 \/ RecvReset1
        BY <4>2, <4>3 DEF RecvReset0, RecvReset1, ResetWord, Half
      <4> QED
        BY <1>2, <4>1, <4>3
    <3> QED
      BY <1>2, <2>1, <3>2, <3>3 DEF TypeOK, RecvStart, RecvReset0, RecvReset1, ResetWord
  <2>4. Positions' /\ BootFresh' /\ FlagsCurrent' /\ GrantsCurrent' /\ DataPosted'
    BY <1>2, <2>1, <2>2 DEF IInv, Positions, BootFresh, FlagsCurrent, GrantsCurrent, DataPosted,
       Posted, FlagSent, Granted
  <2>5. GrantedSent' /\ Window' /\ NoGrantWhilePosting' /\ SenderWord'
    BY <1>2, <2>2 DEF IInv, GrantedSent, Window, NoGrantWhilePosting, SenderWord, FlagSent, Granted
  <2>6. ReceiverWord'
    <3> SUFFICES ASSUME NEW k \in Chunk, Watched(k)', state'["Receiver"][k % 2] = CAN_READ
                 PROVE  FlagSent(k)' /\ Flag(k) \notin sq'["Sender"]
      BY DEF ReceiverWord
    <3>1. k \in {0, 1}
      BY <2>1, <2>2 DEF Watched
    <3>2. k = 0 /\ pc["Receiver"] = "reset1" /\ state["Receiver"][0] = CAN_READ
      BY <2>2, <3>1 DEF Watched, CAN_READ, CAN_WRITE
    <3> QED
      BY <1>2, <2>2, <3>2 DEF IInv, ReceiverWord, Watched, FlagSent
  <2>7. GrantingSent'
    BY <2>2 DEF GrantingSent
  <2> QED
    BY <2>3, <2>4, <2>5, <2>6, <2>7 DEF IInv
<1> QED
  BY <1>1, <1>2

\* The remaining steps only move a call's program counter, fill a buffer or
\* forget awaited completions.
LEMMA MoveInv ==
    IInv /\ (\/ SendPrefillFirst \/ SendBootWait \/ RecvZeroLength \/ RecvPoll
             \/ \E s \in Side : WaitPending(s) \/ Finish(s) \/ WaitFails(s)) => IInv'
<1>1. ASSUME IInv, SendPrefillFirst PROVE IInv'
  <2>1. TypeOK'
    BY SMTT(30), <1>1 DEF IInv, TypeOK, SendPrefillFirst, Goto, Side, Half, Labels, Payload, Chunk
  <2> QED
    BY <1>1, <2>1, QuietInv DEF IInv, TypeOK, SendPrefillFirst, Goto, Side
<1>2. ASSUME IInv, SendBootWait PROVE IInv'
  <2>1. TypeOK'
    BY <1>2 DEF IInv, TypeOK, SendBootWait, Goto, Side, Labels
  <2> QED
    BY <1>2, <2>1, QuietInv DEF IInv, TypeOK, SendBootWait, Goto, Side
<1>3. ASSUME IInv, RecvZeroLength PROVE IInv'
  <2>1. TypeOK'
    BY <1>3 DEF IInv, TypeOK, RecvZeroLength, Goto, Side, Labels
  <2> QED
    BY <1>3, <2>1, QuietInv DEF IInv, TypeOK, RecvZeroLength, Goto, Side
<1>4. ASSUME IInv, RecvPoll PROVE IInv'
  <2>1. \E l \in {"error", "reset0"} : pc' = [pc EXCEPT !["Receiver"] = l]
    BY <1>4 DEF RecvPoll, Goto
  <2>2. TypeOK'
    BY <1>4, <2>1 DEF IInv, TypeOK, RecvPoll, Side, Labels
  <2> QED
    BY <1>4, <2>1, <2>2, QuietInv DEF IInv, TypeOK, RecvPoll, Side
<1>5. ASSUME IInv, NEW s \in Side, WaitPending(s) PROVE IInv'
  <2>1. TypeOK'
    BY <1>5 DEF IInv, TypeOK, WaitPending, Goto, Side, Labels
  <2> QED
    BY <1>5, <2>1, QuietInv DEF IInv, TypeOK, WaitPending, Goto, Side
<1>6. ASSUME IInv, NEW s \in Side, Finish(s) \/ WaitFails(s) PROVE IInv'
  <2>1. \E l \in {"error", "done"} : pc' = [pc EXCEPT ![s] = l]
    BY <1>6 DEF Finish, WaitFails, Goto
  <2>2. pc[s] \in {"loop", "wait"}
        /\ UNCHANGED <<chunk, state, length, half, sq, pending, since, setting, capacity, output>>
    BY <1>6 DEF Finish, WaitFails
  <2>3. TypeOK'
    BY <1>6, <2>1, <2>2 DEF IInv, TypeOK, Side, Labels
  <2> QED
    BY <1>6, <2>1, <2>2, <2>3, QuietInv DEF IInv, TypeOK, Side
<1> QED
  BY <1>1, <1>2, <1>3, <1>4, <1>5, <1>6

\* Every step of the specification keeps the invariant.
LEMMA StepInv == IInv /\ [Next]_vars => IInv'
<1> SUFFICES ASSUME IInv, [Next]_vars PROVE IInv'
  OBVIOUS
<1>1. CASE SenderStep
  BY <1>1, StartInv, MoveInv, SendDataInv, SendFlagInv, SendPrefillNextInv DEF SenderStep, Side
<1>2. CASE ReceiverStep
  BY <1>2, StartInv, MoveInv, RecvChunkInv, RecvGrantInv DEF ReceiverStep, Side
<1>3. CASE \E s \in Side : WaitFails(s)
  BY <1>3, MoveInv
<1>4. CASE Nic
  BY <1>4, NicBootInv, NicDataInv, NicSenderFlagInv, NicReceiverFlagInv DEF Nic, Side
<1>5. CASE UNCHANGED vars
  <2>1. IInv' <=> IInv
    BY <1>5 DEF vars, IInv, TypeOK, Positions, BootFresh, FlagsCurrent, GrantsCurrent, DataPosted,
       GrantedSent, Window, NoGrantWhilePosting, SenderWord, ReceiverWord, GrantingSent,
       cs, cr, FlagSent, Granted, Watched, Posted
  <2> QED
    BY <2>1
<1> QED
  BY <1>1, <1>2, <1>3, <1>4, <1>5 DEF Next

\* The invariant holds in every reachable state.
LEMMA Invariance == Spec => []IInv
<1> QED
  BY InitInv, StepInv, PTL DEF Spec

----------------------------------------------------------------------------
\* Every variable of a transfer keeps its type; in particular no index into
\* the message, the halves or the output leaves its bounds.
THEOREM TypeCorrect == Spec => []TypeOK
<1>1. IInv => TypeOK
  BY DEF IInv
<1> QED
  BY <1>1, Invariance, PTL

\* uhm_send never has a data write outstanding for a half whose earlier chunk
\* uhm_recv has not copied out, for any number of chunks and queue pairs.
THEOREM FlowControlHolds == Spec => []FlowControl
<1>1. IInv => FlowControl
  <2> SUFFICES ASSUME IInv, NEW k \in Chunk, Data(k) \in sq["Sender"] PROVE k < Copied + 2
    BY DEF FlowControl
  <2>1. cs \in Nat /\ cr \in Nat /\ k \in Nat
    BY DEF IInv, TypeOK, Side, Chunk, cs, cr
  <2>2. k < Posted /\ Posted <= cr + 2
    BY <2>1 DEF IInv, DataPosted, Window, Posted, cs, cr
  <2> QED
    BY <2>1, <2>2 DEF Copied, Posted, cs, cr
<1> QED
  BY <1>1, Invariance, PTL

\* Every step of uhm_send, uhm_recv and the NIC is a step of the two-chunk
\* window of UhmChannel, or leaves its two counters alone.
THEOREM TransferImplementsChannel == Spec => ImplementsChannel
<1>1. Init => Channel!Init
  BY DEF Init, Channel!Init, Posted, Copied, Side
<1>2. ASSUME IInv, IInv', [Next]_vars PROVE [Channel!Next]_<<Posted, Copied>>
  <2>1. /\ cs \in Nat /\ cr \in Nat /\ cs' \in Nat /\ cr' \in Nat
        /\ pc \in [Side -> Labels] /\ chunk \in [Side -> 0 .. NumChunks]
    BY <1>2 DEF IInv, TypeOK, Side, cs, cr
  <2>2. CASE SendData
    <3>1. /\ cs' = cs /\ cr' = cr /\ cs < NumChunks
          /\ pc'["Receiver"] = pc["Receiver"] /\ pc["Sender"] = "loop"
          /\ pc'["Sender"] \in {"flag", "error"}
      BY <2>1, <2>2 DEF SendData, Goto, Side, cs, cr
    <3>2. pc'["Sender"] = "flag" => cs < cr + 2
      BY <1>2, <3>1 DEF IInv, Window
    <3> QED
      BY <2>1, <3>1, <3>2 DEF Channel!Next, Channel!Post, Posted, Copied, cs, cr
  <2>3. CASE RecvChunk
    <3>1. /\ cs' = cs /\ cr' = cr
          /\ pc'["Sender"] = pc["Sender"] /\ pc["Receiver"] = "loop"
          /\ pc'["Receiver"] \in {"grant", "error"}
      BY <2>1, <2>3 DEF RecvChunk, Goto, Side, cs, cr
    <3>2. pc'["Receiver"] = "grant" => cr < Posted
      BY <1>2, <2>1, <3>1 DEF IInv, GrantingSent, FlagSent, Posted, cs, cr
    <3> QED
      BY <2>1, <3>1, <3>2 DEF Channel!Next, Channel!CopyOut, Posted, Copied, cs, cr
  <2>4. CASE SendPrefillNext
    BY <2>1, <2>4 DEF SendPrefillNext, Goto, Side, Posted, Copied, cs, cr
  <2>5. CASE RecvGrant
    BY <2>1, <2>5 DEF RecvGrant, Goto, Side, Posted, Copied, cs, cr
  <2>6. CASE SendStart \/ SendPrefillFirst \/ SendBootWait \/ SendFlag
    BY <2>1, <2>6 DEF SendStart, SendPrefillFirst, SendBootWait, SendFlag, Goto, Side, Posted, Copied
  <2>7. CASE RecvStart \/ RecvZeroLength \/ RecvPoll \/ RecvReset0 \/ RecvReset1
    BY <2>1, <2>7 DEF RecvStart, RecvZeroLength, RecvPoll, RecvReset0, RecvReset1, ResetWord,
       Goto, Side, Posted, Copied
  <2>8. CASE \E s \in Side : WaitPending(s) \/ Finish(s) \/ WaitFails(s)
    BY <2>1, <2>8 DEF WaitPending, Finish, WaitFails, Goto, Side, Posted, Copied
  <2>9. CASE Nic \/ UNCHANGED vars
    BY <2>9 DEF Nic, NicBoot, NicData, NicFlag, vars, Posted, Copied
  <2> QED
    BY <1>2, <2>2, <2>3, <2>4, <2>5, <2>6, <2>7, <2>8, <2>9
       DEF Next, SenderStep, ReceiverStep, Side
<1> QED
  BY <1>1, <1>2, Invariance, PTL DEF Spec, ImplementsChannel, Channel!Spec

----------------------------------------------------------------------------
(***************************************************************************)
(* What arrives.  The sender's half is read when the NIC executes the data   *)
(* write, by when it may hold the next chunk of that half; the flag follows  *)
(* the data on the same queue pair, so the receiver never reads a half too   *)
(* early, and the flow control keeps later data away until it has.           *)
(***************************************************************************)
Serialized == setting["Sender"] = <<1, 1>>

\* What may be read in place of chunk k.
Readable(k) == IF Serialized THEN {k} ELSE {k, k + 2}

\* The flag of an outstanding data write is outstanding too, or not posted.
DataBeforeFlag ==
    \A k \in Chunk : Data(k) \in sq["Sender"] =>
        Flag(k) \in sq["Sender"] \/ (k = cs /\ pc["Sender"] \in {"flag", "errorFlag"})

\* The sender's halves hold the last chunks prefilled into them.
Latest(k) == k <= cs /\ (k + 2 <= cs => k + 2 \notin Chunk)
Prefilled ==
    \A k \in Chunk :
        Latest(k) /\ (cs > 0 \/ pc["Sender"] \notin {"idle", "first", "error"})
            => half["Sender"][k % 2] = k

\* A delivered chunk stays in the receiver's half until it is granted back.
Delivered ==
    \A k \in Chunk :
        k < Posted /\ ~Granted(k) /\ Data(k) \notin sq["Sender"]
            => half["Receiver"][k % 2] \in Readable(k)

\* With one pending signal of interval one, no data write is outstanding when
\* the next chunk of its half is prefilled.
OneByOne ==
    Serialized =>
        /\ pc["Sender"] \in {"idle", "first", "boot", "loop", "flag"} => pending["Sender"] = {}
        /\ pc["Sender"] = "next" => pending["Sender"] = {cs}
        /\ pc["Sender"] = "wait" => cs > 0 /\ pending["Sender"] = {cs - 1}
        /\ \A k \in Chunk : Data(k) \in sq["Sender"] =>
              k + 1 >= cs /\ (pc["Sender"] \in {"loop", "flag", "next"} => k >= cs)

OutputReadable == \A k \in Chunk : output[k] \in {None} \cup Readable(k)

DInv == DataBeforeFlag /\ Prefilled /\ Delivered /\ OneByOne /\ OutputReadable

LEMMA InitDInv == Init => DInv
  BY DEF Init, DInv, DataBeforeFlag, Prefilled, Delivered, OneByOne, OutputReadable, cs, cr,
         Side, Posted, Chunk, Serialized

\* Steps that leave the sender, the halves and the data writes alone.
LEMMA KeepsData ==
    ASSUME IInv, DInv,
           pc'["Sender"] = pc["Sender"], chunk'["Sender"] = chunk["Sender"],
           pending'["Sender"] = pending["Sender"], UNCHANGED <<half, setting>>,
           chunk'["Receiver"] \in Nat, chunk'["Receiver"] >= chunk["Receiver"],
           \A k \in Chunk : Data(k) \in sq'["Sender"] <=> Data(k) \in sq["Sender"],
           \A k \in Chunk : Flag(k) \in sq["Sender"] =>
               Flag(k) \in sq'["Sender"] \/ Data(k) \notin sq["Sender"],
           OutputReadable'
    PROVE  DInv'
<1>1. cs' = cs /\ cr' >= cr /\ cr' \in Nat /\ cr \in Nat /\ Posted' = Posted /\ Chunk \subseteq Nat
  BY DEF IInv, TypeOK, cs, cr, Posted, Side, Chunk
<1>2. DataBeforeFlag'
  BY <1>1 DEF DInv, DataBeforeFlag
<1>3. Prefilled'
  BY <1>1 DEF DInv, Prefilled, Latest
<1>4. Delivered'
  BY <1>1 DEF DInv, Delivered, Granted, Readable, Serialized
<1>5. OneByOne'
  BY <1>1 DEF DInv, OneByOne, Serialized
<1> QED
  BY <1>2, <1>3, <1>4, <1>5 DEF DInv

\* Steps of the sender that only move it on.
LEMMA MovesSender ==
    ASSUME IInv, DInv, UNCHANGED <<chunk, half, setting, output>>,
           \A k \in Chunk : /\ Data(k) \in sq'["Sender"] <=> Data(k) \in sq["Sender"]
                            /\ Flag(k) \in sq["Sender"] => Flag(k) \in sq'["Sender"],
           Posted' = Posted,
           \A k \in Chunk : k = cs /\ pc["Sender"] \in {"flag", "errorFlag"} =>
               pc'["Sender"] \in {"flag", "errorFlag"} \/ Flag(k) \in sq'["Sender"],
           pc'["Sender"] \notin {"idle", "first", "error"} =>
               pc["Sender"] \notin {"idle", "first", "error"},
           OneByOne'
    PROVE  DInv'
<1>1. cs' = cs /\ cr' = cr
  BY DEF cs, cr
<1>2. DataBeforeFlag'
  BY <1>1 DEF DInv, DataBeforeFlag
<1>3. Prefilled'
  BY <1>1 DEF DInv, Prefilled, Latest
<1>4. Delivered'
  BY <1>1 DEF DInv, Delivered, Granted, Readable, Serialized
<1>5. OutputReadable'
  BY DEF DInv, OutputReadable, Readable, Serialized
<1> QED
  BY <1>2, <1>3, <1>4, <1>5 DEF DInv

LEMMA SenderTypes ==
    ASSUME TypeOK
    PROVE  /\ cs \in Nat /\ cr \in Nat /\ cs <= NumChunks /\ cr <= NumChunks
           /\ Chunk \subseteq Nat /\ \A k \in Nat : k \in Chunk <=> k < NumChunks
           /\ pc \in [Side -> Labels] /\ "Sender" \in Side /\ "Receiver" \in Side
           /\ chunk \in [Side -> 0 .. NumChunks] /\ sq \in [Side -> SUBSET WR]
           /\ pending \in [Side -> SUBSET Chunk] /\ half \in [Side -> [Half -> Payload]]
  BY SMTT(30) DEF TypeOK, cs, cr, Chunk, Side

\* The first steps of uhm_send.
LEMMA SendBeginDInv ==
    ASSUME IInv, DInv, SendStart \/ SendPrefillFirst \/ SendBootWait
    PROVE  DInv'
<1>1. TypeOK /\ Positions /\ DataPosted
  BY DEF IInv
<1>2. cs = 0 /\ pc["Sender"] \in {"idle", "first", "boot"}
  BY <1>1 DEF Positions, SendStart, SendPrefillFirst, SendBootWait
<1>3. cs' = cs /\ cr' = cr /\ Posted' = Posted /\ Posted = 0
      /\ UNCHANGED <<pending, setting, output, chunk>>
  <2>1. UNCHANGED <<pending, setting, output, chunk>>
    BY DEF SendStart, SendPrefillFirst, SendBootWait
  <2>2. pc'["Sender"] \in {"first", "boot", "loop", "error"}
    BY <1>1, SenderTypes DEF SendStart, SendPrefillFirst, SendBootWait, Goto
  <2> QED
    BY <1>2, <2>1, <2>2 DEF cs, cr, Posted
<1>4. \A k \in Chunk : Data(k) \notin sq["Sender"] /\ Data(k) \notin sq'["Sender"]
  <2>1. \A k \in Chunk : Data(k) \notin sq["Sender"]
    BY <1>1, <1>3, SenderTypes DEF DataPosted
  <2>2. \A k \in Chunk : Data(k) # Boot
    BY WrFacts
  <2>3. sq'["Sender"] \subseteq sq["Sender"] \cup {Boot}
    BY <1>1, SenderTypes DEF SendStart, SendPrefillFirst, SendBootWait, Post
  <2> QED
    BY <2>1, <2>2, <2>3
<1>5. DataBeforeFlag' /\ Delivered'
  BY <1>1, <1>3, <1>4, SenderTypes DEF DataBeforeFlag, Delivered
<1>6. OutputReadable'
  BY <1>3 DEF DInv, OutputReadable, Readable, Serialized
<1>7. OneByOne'
  <2>1. pc'["Sender"] \in {"first", "boot", "loop", "error"}
    BY <1>1, SenderTypes DEF SendStart, SendPrefillFirst, SendBootWait, Goto
  <2> QED
    BY <1>2, <1>3, <1>4, <2>1 DEF DInv, OneByOne, Serialized
<1>8. Prefilled'
  <2>1. CASE SendStart
    <3>1. pc'["Sender"] \in {"first", "error"}
      BY <1>1, <2>1, SenderTypes DEF SendStart, Goto
    <3> QED
      BY <1>2, <1>3, <3>1 DEF Prefilled
  <2>2. CASE SendPrefillFirst
    <3>1. half'["Sender"][0] = 0
      BY <1>1, <2>2, SenderTypes DEF SendPrefillFirst, Half
    <3> QED
      BY <1>1, <1>2, <1>3, <3>1, SenderTypes DEF Prefilled, Latest
  <2>3. CASE SendBootWait
    <3>1. half' = half /\ pc["Sender"] = "boot"
      BY <2>3 DEF SendBootWait
    <3> QED
      BY <1>2, <1>3, <3>1 DEF DInv, Prefilled, Latest
  <2> QED
    BY <2>1, <2>2, <2>3
<1> QED
  BY <1>5, <1>6, <1>7, <1>8 DEF DInv

LEMMA SendDataDInv ==
    ASSUME IInv, DInv, SendData
    PROVE  DInv'
<1>1. TypeOK /\ DataPosted
  BY DEF IInv
<1>2. /\ pc["Sender"] = "loop" /\ cs \in Chunk /\ UNCHANGED <<chunk, half, pending, setting, output>>
      /\ cs' = cs /\ cr' = cr /\ Posted = cs
  BY <1>1, SenderTypes DEF SendData, cs, cr, Posted
<1>3. CASE Post("Sender", Data(cs)) /\ Goto("Sender", "flag")
  <2>1. pc'["Sender"] = "flag" /\ sq'["Sender"] = sq["Sender"] \cup {Data(cs)} /\ Posted' = cs + 1
    BY <1>1, <1>2, <1>3, SenderTypes DEF Post, Goto, Posted, cs
  <2>2. \A k \in Chunk : /\ Data(k) \in sq'["Sender"] <=> Data(k) \in sq["Sender"] \/ k = cs
                         /\ Flag(k) \in sq'["Sender"] <=> Flag(k) \in sq["Sender"]
    BY <1>2, <2>1, WrFacts
  <2>3. DataBeforeFlag'
    BY <1>2, <2>1, <2>2 DEF DInv, DataBeforeFlag
  <2>4. Prefilled'
    BY <1>2, <2>1 DEF DInv, Prefilled, Latest
  <2>5. Delivered'
    <3>1. SUFFICES ASSUME NEW k \in Chunk, k < cs + 1, ~Granted(k), Data(k) \notin sq'["Sender"]
                   PROVE  half["Receiver"][k % 2] \in Readable(k)
      BY <1>2, <2>1 DEF Delivered, Granted, Readable, Serialized
    <3>2. Data(k) \notin sq["Sender"] /\ k # cs
      BY <2>2, <3>1
    <3>3. k \in Nat /\ cs \in Nat
      BY <1>1, SenderTypes
    <3>4. k < cs
      BY <3>1, <3>2, <3>3
    <3> QED
      BY <1>2, <3>1, <3>2, <3>4 DEF DInv, Delivered
  <2>6. OneByOne'
    BY <1>1, <1>2, <2>1, <2>2, SenderTypes DEF DInv, OneByOne, Serialized
  <2>7. OutputReadable'
    BY <1>2 DEF DInv, OutputReadable, Readable, Serialized
  <2> QED
    BY <2>3, <2>4, <2>5, <2>6, <2>7 DEF DInv
<1>4. CASE Goto("Sender", "error") /\ UNCHANGED sq
  <2>1. pc'["Sender"] = "error"
    BY <1>1, <1>4, SenderTypes DEF Goto
  <2>2. OneByOne' /\ Posted' = Posted
    BY <1>2, <1>4, <2>1 DEF DInv, OneByOne, Serialized, Posted
  <2> QED
    BY <1>2, <1>4, <2>1, <2>2, MovesSender
<1> QED
  BY <1>3, <1>4 DEF SendData, cs

LEMMA SendFlagDInv ==
    ASSUME IInv, DInv, SendFlag
    PROVE  DInv'
<1>1. TypeOK /\ Positions
  BY DEF IInv
<1>2. /\ pc["Sender"] = "flag" /\ cs \in Chunk /\ UNCHANGED <<chunk, half, setting, output>>
      /\ cs' = cs
  BY <1>1, SenderTypes DEF SendFlag, Positions, cs
<1>3. CASE Post("Sender", Flag(cs)) /\ Goto("Sender", "next") /\ TrackSignal("Sender")
  <2>1. pc'["Sender"] = "next" /\ sq'["Sender"] = sq["Sender"] \cup {Flag(cs)} /\ Posted' = Posted
    BY <1>1, <1>2, <1>3, SenderTypes DEF Post, Goto, Posted, cs
  <2>2. \A k \in Chunk : /\ Data(k) \in sq'["Sender"] <=> Data(k) \in sq["Sender"]
                         /\ Flag(k) \in sq["Sender"] => Flag(k) \in sq'["Sender"]
    BY <1>2, <2>1, WrFacts
  <2>3. OneByOne'
    <3>1. ASSUME Serialized PROVE pending'["Sender"] = {cs}
      <4>1. pending["Sender"] = {} /\ Signaled("Sender")
        BY <1>2, <3>1 DEF DInv, OneByOne, Serialized, Signaled, Interval
      <4> QED
        BY <1>1, <1>3, <4>1, SenderTypes DEF TrackSignal, cs
    <3> QED
      BY <1>2, <2>1, <2>2, <3>1 DEF DInv, OneByOne, Serialized
  <2> QED
    BY <1>2, <2>1, <2>2, <2>3, MovesSender
<1>4. CASE Goto("Sender", "errorFlag") /\ UNCHANGED <<sq, pending, since>>
  <2>1. pc'["Sender"] = "errorFlag"
    BY <1>1, <1>4, SenderTypes DEF Goto
  <2>2. OneByOne' /\ Posted' = Posted
    BY <1>2, <1>4, <2>1 DEF DInv, OneByOne, Serialized, Posted
  <2> QED
    BY <1>2, <1>4, <2>1, <2>2, MovesSender
<1> QED
  BY <1>3, <1>4 DEF SendFlag, cs

LEMMA SendPrefillNextDInv ==
    ASSUME IInv, DInv, SendPrefillNext
    PROVE  DInv'
<1>1. TypeOK /\ Positions /\ DataPosted
  BY DEF IInv
<1>2. /\ pc["Sender"] = "next" /\ cs \in Chunk /\ UNCHANGED <<sq, pending, setting, output>>
      /\ cs' = cs + 1 /\ cr' = cr /\ Posted = cs + 1 /\ PrefillNext(cs)
      /\ pc'["Sender"] = IF WindowFull("Sender", pending["Sender"]) THEN "wait" ELSE "loop"
  BY <1>1, SenderTypes DEF SendPrefillNext, Positions, Posted, Goto, cs, cr
<1>3. Posted' = Posted
  <2>1. pc'["Sender"] \in {"wait", "loop"} /\ cs \in Nat
    BY <1>1, <1>2, SenderTypes
  <2> QED
    BY <1>2, <2>1 DEF Posted, cs
<1>4. /\ half'["Receiver"] = half["Receiver"]
      /\ cs + 1 \in Chunk => half'["Sender"][(cs + 1) % 2] = cs + 1
      /\ \A i \in Half : (i = (cs + 1) % 2 => cs + 1 \notin Chunk) =>
             half'["Sender"][i] = half["Sender"][i]
  <2>0. cs + 1 \in Nat
    BY <1>1, SenderTypes
  <2>1. (cs + 1) % 2 \in Half /\ (cs + 1 \in Chunk <=> cs + 1 < NumChunks)
    BY <1>1, <2>0, SenderTypes, Parity
  <2> QED
    BY <1>1, <1>2, <2>1, SenderTypes DEF PrefillNext
<1>5. DataBeforeFlag'
  BY <1>2 DEF DInv, DataBeforeFlag
<1>6. Prefilled'
  <2> SUFFICES ASSUME NEW k \in Chunk, k <= cs + 1, k + 2 <= cs + 1 => k + 2 \notin Chunk
               PROVE  half'["Sender"][k % 2] = k
    BY <1>2 DEF Prefilled, Latest
  <2>1. k \in Nat /\ cs \in Nat /\ k % 2 \in Half
    BY <1>1, SenderTypes, Parity
  <2>2. CASE k = cs + 1
    BY <1>4, <2>2
  <2>3. CASE k # cs + 1
    <3>1. k <= cs /\ (k + 2 <= cs => k + 2 \notin Chunk)
      BY <2>1, <2>3
    <3>2. half["Sender"][k % 2] = k
      BY <1>2, <3>1 DEF DInv, Prefilled, Latest
    <3>3. k % 2 = (cs + 1) % 2 => cs + 1 \notin Chunk
      <4>1. k = cs \/ k + 1 = cs \/ k + 2 <= cs
        BY <2>1, <3>1
      <4>2. k = cs => k % 2 # (cs + 1) % 2
        BY <2>1, Parity
      <4>3. k + 1 = cs => cs + 1 \notin Chunk
        BY <2>1
      <4>4. k + 2 <= cs => cs + 1 \notin Chunk
        BY <1>1, <2>1, <3>1, SenderTypes
      <4> QED
        BY <4>1, <4>2, <4>3, <4>4
    <3> QED
      BY <1>4, <2>1, <3>2, <3>3
  <2> QED
    BY <2>2, <2>3
<1>7. Delivered'
  BY <1>2, <1>3, <1>4 DEF DInv, Delivered, Granted, Readable, Serialized
<1>8. OneByOne'
  <2>1. ASSUME Serialized PROVE pc'["Sender"] = "wait"
    <3>1. pending["Sender"] = {cs} /\ MaxPending("Sender") = 1
      BY <1>2, <2>1 DEF DInv, OneByOne, Serialized, MaxPending
    <3> QED
      BY <1>2, <3>1, FS_Singleton DEF WindowFull
  <2>2. SUFFICES ASSUME Serialized
                 PROVE  /\ cs + 1 > 0 /\ pending["Sender"] = {(cs + 1) - 1}
                        /\ \A k \in Chunk : Data(k) \in sq["Sender"] => k + 1 >= cs + 1
    BY <1>2, <2>1 DEF OneByOne, Serialized
  <2>3. /\ pending["Sender"] = {cs} /\ cs \in Nat
        /\ \A k \in Chunk : Data(k) \in sq["Sender"] => k >= cs /\ k \in Nat
    BY <1>1, <1>2, <2>2, SenderTypes DEF DInv, OneByOne
  <2>4. (cs + 1) - 1 = cs
    BY <2>3
  <2> QED
    BY <2>3, <2>4
<1>9. OutputReadable'
  BY <1>2 DEF DInv, OutputReadable, Readable, Serialized
<1> QED
  BY <1>5, <1>6, <1>7, <1>8, <1>9 DEF DInv

\* The waits of uhm_send.
LEMMA SenderWaitDInv ==
    ASSUME IInv, DInv, WaitPending("Sender") \/ Finish("Sender") \/ WaitFails("Sender")
    PROVE  DInv'
<1>1. TypeOK /\ Positions
  BY DEF IInv
<1>2. UNCHANGED <<chunk, half, setting, output, sq>> /\ cs' = cs /\ cs \in Nat
      /\ pc["Sender"] \in {"wait", "loop"}
  BY <1>1, SenderTypes DEF WaitPending, Finish, WaitFails, cs
<1>3. pc'["Sender"] \in {"loop", "done", "error"}
  BY <1>1, SenderTypes DEF WaitPending, Finish, WaitFails, Goto
<1>4. Posted' = Posted
  BY <1>2, <1>3 DEF Posted
<1>5. OneByOne'
  <2>1. CASE WaitPending("Sender")
    <3> SUFFICES ASSUME Serialized
                 PROVE  /\ pending'["Sender"] = {}
                        /\ \A k \in Chunk : Data(k) \in sq["Sender"] => k >= cs
      BY <1>1, <1>2, <2>1, SenderTypes DEF OneByOne, Serialized, WaitPending, Goto
    <3>1. cs > 0 /\ pending["Sender"] = {cs - 1}
      BY <2>1 DEF WaitPending, DInv, OneByOne
    <3>2. Flag(cs - 1) \notin sq["Sender"]
      BY <2>1, <3>1 DEF WaitPending, AllCompleted
    <3>3. ASSUME NEW k \in Chunk, Data(k) \in sq["Sender"] PROVE k >= cs
      <4>1. Flag(k) \in sq["Sender"]
        BY <2>1, <3>3 DEF DInv, DataBeforeFlag, WaitPending
      <4>2. k # cs - 1 /\ k + 1 >= cs /\ k \in Nat
        BY <1>1, <3>2, <3>3, <4>1, SenderTypes DEF DInv, OneByOne
      <4> QED
        BY <1>2, <4>2
    <3> QED
      BY <1>1, <2>1, <3>3, SenderTypes DEF WaitPending
  <2>2. CASE Finish("Sender") \/ WaitFails("Sender")
    <3>1. pc'["Sender"] \in {"done", "error"}
      BY <1>1, <2>2, SenderTypes DEF Finish, WaitFails, Goto
    <3> QED
      BY <1>2, <3>1 DEF DInv, OneByOne, Serialized
  <2> QED
    BY <2>1, <2>2
<1> QED
  BY <1>2, <1>3, <1>4, <1>5, MovesSender

\* The steps of uhm_recv.
LEMMA ReceiverDInv ==
    ASSUME IInv, DInv, ReceiverStep \/ WaitFails("Receiver")
    PROVE  DInv'
<1>1. TypeOK /\ Positions /\ ReceiverWord /\ Window
  BY DEF IInv
<1>2. CASE RecvChunk
  <2>1. /\ pc'["Sender"] = pc["Sender"]
        /\ UNCHANGED <<chunk, half, setting, pending, sq>> /\ cr \in Chunk
        /\ pc["Receiver"] = "loop" /\ MayRead(cr)
    BY <1>1, <1>2, SenderTypes DEF RecvChunk, Goto, cr
  <2>2. half["Receiver"][cr % 2] \in Readable(cr)
    <3>1. FlagSent(cr) /\ Flag(cr) \notin sq["Sender"]
      BY <1>1, <2>1 DEF ReceiverWord, Watched, MayRead
    <3>2. cr < Posted
      BY <1>1, <3>1, SenderTypes DEF FlagSent, Posted, cs
    <3>3. Data(cr) \notin sq["Sender"]
      BY <1>1, <2>1, <3>1, SenderTypes DEF DInv, DataBeforeFlag, FlagSent
    <3> QED
      BY <1>1, <2>1, <3>2, <3>3, SenderTypes DEF DInv, Delivered, Granted
  <2>3. \A k \in Chunk : output'[k] = output[k] \/ (k = cr /\ output'[k] = half["Receiver"][cr % 2])
    BY <1>1, <1>2 DEF RecvChunk, TypeOK, cr
  <2>4. OutputReadable'
    BY <2>1, <2>2, <2>3 DEF DInv, OutputReadable, Readable, Serialized
  <2> QED
    BY <1>1, <2>1, <2>4, KeepsData, SenderTypes DEF cr
<1>3. CASE ~RecvChunk
  <2>1. UNCHANGED <<half, setting, output>>
    BY <1>3 DEF ReceiverStep, RecvStart, RecvZeroLength, RecvPoll, RecvReset0, RecvReset1, ResetWord,
                RecvGrant, WaitPending, Finish, WaitFails
  <2>2. pc'["Sender"] = pc["Sender"]
    BY <1>1, <1>3, SenderTypes DEF ReceiverStep, RecvStart, RecvZeroLength, RecvPoll, RecvReset0,
                RecvReset1, ResetWord, RecvGrant, WaitPending, Finish, WaitFails, Goto
  <2>3. sq'["Sender"] = sq["Sender"] /\ pending'["Sender"] = pending["Sender"]
    BY <1>1, <1>3, SenderTypes DEF ReceiverStep, RecvStart, RecvZeroLength, RecvPoll, RecvReset0,
                RecvReset1, ResetWord, RecvGrant, WaitPending, Finish, WaitFails, Post, TrackSignal
  <2>4. /\ chunk'["Sender"] = chunk["Sender"]
        /\ chunk'["Receiver"] \in Nat /\ chunk'["Receiver"] >= chunk["Receiver"]
    BY <1>1, <1>3, SenderTypes DEF ReceiverStep, RecvStart, RecvZeroLength, RecvPoll, RecvReset0,
                RecvReset1, ResetWord, RecvGrant, WaitPending, Finish, WaitFails
  <2>5. OutputReadable'
    BY <2>1 DEF DInv, OutputReadable, Readable, Serialized
  <2> QED
    BY <2>1, <2>2, <2>3, <2>4, <2>5, KeepsData
<1> QED
  BY <1>2, <1>3

\* The steps of the NIC.
LEMMA NicDInv ==
    ASSUME IInv, DInv, Nic
    PROVE  DInv'
<1>1. TypeOK /\ Positions /\ DataPosted /\ Window /\ FlagsCurrent /\ GrantedSent
  BY DEF IInv
<1>2. UNCHANGED <<pc, chunk, pending, setting, output>>
  BY DEF Nic, NicBoot, NicData, NicFlag
<1>3. OutputReadable' /\ cs' = cs /\ cr' = cr /\ Posted' = Posted
  BY <1>2 DEF DInv, OutputReadable, Readable, Serialized, cs, cr, Posted
<1>4. CASE NicBoot
  <2>1. half' = half /\ sq'["Sender"] = sq["Sender"] \ {Boot}
    BY <1>1, <1>4, SenderTypes DEF NicBoot, Retire
  <2>2. \A k \in Chunk : Data(k) # Boot /\ Flag(k) # Boot
    BY WrFacts
  <2> QED
    BY <1>1, <1>2, <1>3, <2>1, <2>2, KeepsData, SenderTypes DEF cr
<1>5. ASSUME NEW j \in Chunk, NicData(j) PROVE DInv'
  <2>1. /\ Data(j) \in sq["Sender"] /\ sq'["Sender"] = sq["Sender"] \ {Data(j)}
        /\ j \in Nat /\ j % 2 \in Half
        /\ half' = [half EXCEPT !["Receiver"][j % 2] = half["Sender"][j % 2]]
    BY <1>1, <1>5, SenderTypes, Parity DEF NicData, Oldest, Retire
  <2>2. /\ half'["Sender"] = half["Sender"]
        /\ half'["Receiver"][j % 2] = half["Sender"][j % 2]
        /\ \A i \in Half \ {j % 2} : half'["Receiver"][i] = half["Receiver"][i]
    BY <1>1, <2>1, SenderTypes
  <2>3. \A k \in Chunk : /\ Data(k) \in sq'["Sender"] <=> Data(k) \in sq["Sender"] /\ k # j
                         /\ Flag(k) \in sq'["Sender"] <=> Flag(k) \in sq["Sender"]
    BY <2>1, WrFacts
  <2>4. DataBeforeFlag'
    BY <1>2, <1>3, <2>3 DEF DInv, DataBeforeFlag
  <2>5. Prefilled'
    BY <1>2, <1>3, <2>2 DEF DInv, Prefilled, Latest
  <2>6. OneByOne'
    BY <1>2, <1>3, <2>3 DEF DInv, OneByOne, Serialized
  <2>7. ~Granted(j) /\ j < Posted
    <3>1. CASE Flag(j) \in sq["Sender"]
      BY <1>1, <2>1, <3>1 DEF FlagsCurrent, DataPosted
    <3>2. CASE Flag(j) \notin sq["Sender"]
      BY <1>1, <2>1, <3>2, SenderTypes DEF DInv, DataBeforeFlag, GrantedSent, FlagSent, DataPosted
    <3> QED
      BY <3>1, <3>2
  <2>8. half["Sender"][j % 2] \in Readable(j)
    <3>1. /\ j >= cr /\ cs <= cr + 2 /\ j <= cs /\ cs \in Nat /\ cr \in Nat
          /\ cs > 0 \/ pc["Sender"] \in {"flag", "next", "errorFlag"}
      <4>1. cs \in Nat /\ cr \in Nat /\ cs <= cr + 2 /\ j >= cr
        BY <1>1, <2>1, <2>7, SenderTypes DEF Granted, Window
      <4>2. Posted = IF pc["Sender"] \in {"flag", "next", "errorFlag"} THEN cs + 1 ELSE cs
        BY <4>1 DEF Posted, cs
      <4> QED
        BY <2>1, <2>7, <4>1, <4>2
    <3>2. CASE cs <= j + 1
      <4>1. Latest(j)
        BY <1>1, <2>1, <3>1, <3>2, SenderTypes DEF Latest
      <4> QED
        BY <3>1, <4>1 DEF DInv, Prefilled, Readable
    <3>3. CASE cs = j + 2
      <4>1. ~Serialized
        BY <1>1, <2>1, <3>3, SenderTypes DEF DInv, OneByOne
      <4>2. CASE j + 2 \in Chunk
        <5>1. Latest(j + 2) /\ (j + 2) % 2 = j % 2
          BY <1>1, <2>1, <3>3, SenderTypes, Parity DEF Latest
        <5> QED
          BY <2>1, <3>3, <4>1, <4>2, <5>1 DEF DInv, Prefilled, Readable
      <4>3. CASE j + 2 \notin Chunk
        <5>1. Latest(j)
          BY <2>1, <3>3, <4>3 DEF Latest
        <5> QED
          BY <2>1, <3>3, <4>1, <5>1 DEF DInv, Prefilled, Readable
      <4> QED
        BY <4>2, <4>3
    <3>4. cs <= j + 1 \/ cs = j + 2
      BY <2>1, <3>1
    <3> QED
      BY <3>2, <3>3, <3>4
  <2>9. Delivered'
    <3>1. SUFFICES ASSUME NEW k \in Chunk, k < Posted, ~Granted(k), k = j \/ Data(k) \notin sq["Sender"]
                   PROVE  half'["Receiver"][k % 2] \in Readable(k)
      BY <1>2, <1>3, <2>3 DEF Delivered, Granted, Readable, Serialized
    <3>2. CASE k % 2 = j % 2
      <4>1. Posted <= cr + 2 /\ cr <= j /\ cr <= k /\ k \in Nat /\ Posted \in Nat
        BY <1>1, <2>1, <2>7, <3>1, SenderTypes DEF Window, Posted, Granted, cs
      <4>2. k = j
        BY <1>1, <2>1, <2>7, <3>1, <3>2, <4>1, SenderTypes, Parity
      <4> QED
        BY <2>2, <2>8, <4>2
    <3>3. CASE k % 2 # j % 2
      <4>1. k % 2 \in Half \ {j % 2} /\ k # j
        BY <1>1, <3>3, SenderTypes, Parity
      <4> QED
        BY <2>2, <3>1, <4>1 DEF DInv, Delivered
    <3> QED
      BY <3>2, <3>3
  <2> QED
    BY <1>3, <2>4, <2>5, <2>6, <2>9 DEF DInv
<1>6. ASSUME NEW s \in Side, NEW j \in Chunk, NicFlag(s, j) PROVE DInv'
  <2>1. half' = half
    BY <1>6 DEF NicFlag
  <2>2. CASE s = "Receiver"
    <3>1. sq'["Sender"] = sq["Sender"]
      BY <1>1, <1>6, <2>2, SenderTypes DEF NicFlag, Retire
    <3> QED
      BY <1>1, <1>2, <1>3, <2>1, <3>1, KeepsData, SenderTypes DEF cr
  <2>3. CASE s = "Sender"
    <3>1. sq'["Sender"] = sq["Sender"] \ {Flag(j)} /\ Data(j) \notin sq["Sender"]
      BY <1>1, <1>6, <2>3, SenderTypes DEF NicFlag, Retire, Oldest, QpOf, PostedBefore, Data, Flag
    <3>2. \A k \in Chunk : Data(k) # Flag(j) /\ (Flag(k) = Flag(j) => k = j)
      BY WrFacts
    <3> QED
      BY <1>1, <1>2, <1>3, <2>1, <3>1, <3>2, KeepsData, SenderTypes DEF cr
  <2> QED
    BY <2>2, <2>3 DEF Side
<1> QED
  BY <1>4, <1>5, <1>6 DEF Nic

LEMMA StepDInv == IInv /\ DInv /\ [Next]_vars => DInv'
<1> SUFFICES ASSUME IInv, DInv, [Next]_vars PROVE DInv'
  OBVIOUS
<1>1. CASE SenderStep
  BY <1>1, SendBeginDInv, SendDataDInv, SendFlagDInv, SendPrefillNextDInv, SenderWaitDInv
     DEF SenderStep
<1>2. CASE ReceiverStep \/ (\E s \in Side : WaitFails(s)) \/ Nic
  BY <1>2, ReceiverDInv, SenderWaitDInv, NicDInv DEF Side
<1>3. CASE UNCHANGED vars
  BY <1>3 DEF vars, DInv, DataBeforeFlag, Prefilled, Latest, Delivered, OneByOne, OutputReadable,
              Readable, Serialized, Granted, Posted, cs, cr
<1> QED
  BY <1>1, <1>2, <1>3 DEF Next

LEMMA DataInvariance == Spec => []DInv
  BY InitDInv, StepDInv, Invariance, PTL DEF Spec

\* uhm_recv never copies out an older chunk than the one it is due: it gets the
\* right one or, when the sender's prefill overtook the data write, the next
\* chunk of the same half, for every number of chunks and queue pairs and every
\* signalling setting.
THEOREM NeverAnOlderChunk == Spec => []RightOrOvertaken
<1>1. DInv => RightOrOvertaken
  BY DEF DInv, OutputReadable, Readable, RightOrOvertaken
<1> QED
  BY <1>1, DataInvariance, PTL

\* HMC_UHM_SIGNAL_INTERVAL = 1 with HMC_UHM_PENDING_SIGNAL = 1 keeps every chunk
\* intact, whatever the receiver's settings.
THEOREM SerializedIsIntact == Spec => []IntactWhenSerialized
<1>1. DInv => IntactWhenSerialized
  BY DEF DInv, OutputReadable, Readable, Serialized, IntactWhenSerialized
<1> QED
  BY <1>1, DataInvariance, PTL
=============================================================================
