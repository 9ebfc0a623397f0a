-------------------------- MODULE CtrlSocketProofs --------------------------
(***************************************************************************)
(* What the control plane guarantees for every set of ranks, every choice  *)
(* of who dials whom, and every number of connections and messages.        *)
(*                                                                         *)
(* Held says who has which end of a connection: the kernel and id_to_conn_ *)
(* agree about every open end, and descriptors tell the open ends of a rank *)
(* apart.  It holds for any application; every step that touches an end     *)
(* either settles one that was pending or closes some (Settles, Closes).    *)
(* On it rest First, Writers and Channels, for applications that do not     *)
(* overlap two calls for one peer; that the ranks of a pair keep the same   *)
(* connection also takes that only one of them dials.                      *)
(***************************************************************************)
EXTENDS CtrlSocket, FiniteSetTheorems, SequenceTheorems, TLAPS

\* <<c, r>> is an end of a connection that was dialed.
IsEnd(c, r) == c \in 1 .. Len(pair) /\ r \in {pair[c][1], pair[c][2]}

\* The connect call or the accept thread of r has still to decide about it.
Pending(c, r) == IF pair[c][1] = r THEN c \in dialing ELSE c \in Queued(r)

\* Connections are numbered in the order of the connect calls, and queued in it.
Dialed ==
    /\ \A c \in 1 .. Len(pair) : pair[c] \in Dials
    /\ \A c \in dialing : c <= Len(pair)
    /\ \A r \in Rank : \A i \in 1 .. Len(backlog[r]) :
          backlog[r][i] <= Len(pair) /\ pair[backlog[r][i]][2] = r
    /\ \A r \in Rank : \A i, j \in 1 .. Len(backlog[r]) : i < j => backlog[r][i] < backlog[r][j]

\* An open end is pending or registered, and what is registered is open.
Ends ==
    /\ \A c \in Conn, r \in Rank : <<c, r>> \in open =>
          IsEnd(c, r) /\ (Pending(c, r) \/ conn[r][Other(c, r)] = c)
    /\ \A c \in Conn, r \in Rank : IsEnd(c, r) /\ Pending(c, r) =>
          <<c, r>> \in open /\ conn[r][Other(c, r)] # c
    /\ \A r, p \in Rank : conn[r][p] # None =>
          <<conn[r][p], r>> \in open /\ Other(conn[r][p], r) = p

\* The dialing end has a descriptor from the start, the accepted one when it is
\* accepted; the open ends of a rank have different ones.
Descriptors ==
    /\ \A c \in Conn, r \in Rank :
          fd[<<c, r>>] # 0 <=> <<c, r>> \in open /\ (pair[c][1] = r \/ ~Pending(c, r))
    /\ \A c, d \in Conn, r \in Rank : fd[<<c, r>>] = fd[<<d, r>>] /\ fd[<<c, r>>] # 0 => c = d

\* Ways in which a step changes who has which end: r decides about its pending
\* end of c, whose descriptor is n, or closes its ends of cs.
Settles(r, p, c, n) ==
    /\ pair' = pair
    /\ IsEnd(c, r) /\ p = Other(c, r) /\ Pending(c, r)
    /\ n \in 1 .. MaxConns
    /\ \A d \in Conn : fd[<<d, r>>] = n => d = c
    /\ \A d \in Conn, s \in Rank : IsEnd(d, s) =>
          (Pending(d, s)' <=> Pending(d, s) /\ ~(d = c /\ s = r))
    /\ Register(r, p, c, n)

Closes(r, cs) ==
    /\ pair' = pair
    /\ \A d \in Conn, s \in Rank : IsEnd(d, s) =>
          (Pending(d, s)' <=> Pending(d, s) /\ ~(d \in cs /\ s = r))
    /\ CloseEnds(r, cs)
    /\ \A s, p \in Rank : conn'[s][p] = IF s = r /\ conn[s][p] \in cs THEN None ELSE conn[s][p]

\* Who has which end, for any application.
Held == TypeOK /\ Dialed /\ Ends /\ Descriptors

\* Headers and payloads alternate, each payload that of the header before it.
Framed(q) ==
    /\ Len(q) > 0 => q[1].part = "header"
    /\ \A i \in 1 .. Len(q) - 1 :
          IF q[i].part = "header" THEN q[i + 1] = [part |-> "payload", msg |-> q[i].msg]
                                  ELSE q[i + 1].part = "header"

\* The payload of the last header is due.
HalfSent(q) == Len(q) > 0 /\ q[Len(q)].part = "header"

\* A payload is due to the entry its header was sent to, under the descriptor
\* it was looked up with, and to no peer from two writers.
Writers ==
    /\ \A r \in Rank, w \in Writer : writing[r][w] # <<>> =>
          LET c == conn[r][writing[r][w][1]] IN c # None /\ fd[<<c, r>>] = writing[r][w][2]
    /\ \A r \in Rank, v, w \in Writer :
          writing[r][v] # <<>> /\ writing[r][w] # <<>> /\ writing[r][v][1] = writing[r][w][1] => v = w

\* What r sends on c reaches p.
Live(c, r, p) == IsEnd(c, r) /\ p = Other(c, r) /\ <<c, r>> \in open /\ <<c, p>> \in open

\* What is in flight is framed, but for the payloads that are due.
Channels ==
    /\ \A e \in End : Framed(chan[e])
    /\ \A c \in Conn, r \in Rank : c > Len(pair) => chan[<<c, r>>] = <<>>
    /\ \A c \in Conn, r, p \in Rank : Live(c, r, p) /\ HalfSent(chan[<<c, p>>]) =>
          conn[r][p] = c /\ Sending(r, p)
    /\ \A c \in Conn, r, p \in Rank, w \in Writer :
          Live(c, r, p) /\ conn[r][p] = c /\ writing[r][w] # <<>> /\ writing[r][w][1] = p =>
             /\ HalfSent(chan[<<c, p>>])
             /\ chan[<<c, p>>][Len(chan[<<c, p>>])].msg = writing[r][w][3]

\* While neither has closed its entry, ranks keep their first connection, when
\* the connect calls of a rank for one peer do not overlap.
First ==
    /\ \A c, d \in dialing : pair[c] = pair[d] => c = d
    /\ \A c \in Conn, r \in Rank : IsEnd(c, r) /\ {r, Other(c, r)} \notin hungUp =>
          /\ conn[r][Other(c, r)] = None => Pending(c, r)
          /\ conn[r][Other(c, r)] = c => \A d \in 1 .. Len(pair) : pair[d] = pair[c] => c <= d

\* One rank of a pair calls connect, the other only accepts.
OneDialer == \A r, p \in Rank : <<r, p>> \in Dials => <<p, r>> \notin Dials

----------------------------------------------------------------------------
\* A set of numbers up to k has a least one.
LEMMA Least ==
    ASSUME NEW k \in Nat, NEW S \in SUBSET (1 .. k), S # {}
    PROVE  \E n \in S : \A m \in S : n <= m
<1> DEFINE B == 1 .. k
           Below(x) == {m \in S : m < x}
           T == {Below(x) : x \in S}
<1>1. IsFiniteSet(B)
  BY FS_Interval
<1>2. FiniteSubsetsOf(B) = SUBSET B
  BY <1>1, FS_FiniteSubsetsOfFinite
<1>3. IsWellFoundedOn(StrictSubsetOrdering(B), SUBSET B)
  BY <1>2, FS_StrictSubsetOrderingWellFounded
<1>4. T \subseteq SUBSET B /\ T # {}
  OBVIOUS
<1> HIDE DEF T, B
<1>5. PICK t \in T : \A s \in T : ~(<<s, t>> \in StrictSubsetOrdering(B))
  BY <1>3, <1>4, WFMin
<1>6. PICK n \in S : t = Below(n)
  BY DEF T
<1>7. ASSUME NEW m \in S, m < n PROVE FALSE
  <2>1. Below(m) \in T
    BY DEF T
  <2>2. Below(m) \subseteq t /\ Below(m) # t
    <3>1. \A i \in Below(m) : i \in Below(n)
      BY <1>7
    <3>2. m \in Below(n) /\ m \notin Below(m)
      BY <1>7
    <3> QED
      BY <1>6, <3>1, <3>2
  <2>3. Below(m) \in SUBSET B /\ t \in SUBSET B
    BY <1>4, <2>1
  <2> QED
    BY <1>5, <2>1, <2>2, <2>3 DEF StrictSubsetOrdering
<1> QED
  BY <1>7

\* Pigeonhole: k connections one of which has no descriptor leave one of k free.
LEMMA FreeExists ==
    ASSUME NEW k \in Nat, NEW f \in [1 .. k -> 0 .. k], NEW c \in 1 .. k, f[c] = 0
    PROVE  ~ (1 .. k) \subseteq {f[d] : d \in 1 .. k}
<1> SUFFICES ASSUME (1 .. k) \subseteq {f[d] : d \in 1 .. k} PROVE FALSE
  OBVIOUS
<1> DEFINE K == 1 .. k
           D == K \ {c}
           g == [d \in D |-> IF f[d] = 0 THEN 1 ELSE f[d]]
<1>1. IsFiniteSet(K) /\ Cardinality(K) = k
  BY FS_Interval
<1>2. IsFiniteSet(D) /\ Cardinality(D) = k - 1
  BY <1>1, FS_RemoveElement
<1>3. \A d \in D : f[d] \in 0 .. k /\ (IF f[d] = 0 THEN 1 ELSE f[d]) \in K
  <2> SUFFICES ASSUME NEW d \in D PROVE f[d] \in 0 .. k /\ (IF f[d] = 0 THEN 1 ELSE f[d]) \in K
    OBVIOUS
  <2>1. d \in 1 .. k /\ f[d] \in 0 .. k
    OBVIOUS
  <2> QED
    BY SMTT(30), <2>1
<1>4. ASSUME NEW n \in K PROVE \E d \in D : g[d] = n
  <2>1. PICK d \in K : f[d] = n
    OBVIOUS
  <2>2. n # 0
    OBVIOUS
  <2>4. d # c
    BY <2>1, <2>2
  <2>3. d \in D /\ g[d] = n
    BY <2>1, <2>2, <2>4
  <2> QED
    BY <2>3
<1>5. g \in Surjection(D, K)
  BY <1>3, <1>4 DEF Surjection
<1> HIDE DEF g, D, K
<1>6. Cardinality(K) <= Cardinality(D)
  BY <1>2, <1>5, FS_Surjection
<1> QED
  BY <1>1, <1>2, <1>6

\* A header may follow when no payload is due, and then its payload is.
LEMMA AppendHeader ==
    ASSUME NEW q \in Seq(Token), NEW m \in Msg, Framed(q), ~HalfSent(q)
    PROVE  LET h == Append(q, [part |-> "header", msg |-> m])
           IN  Framed(h) /\ HalfSent(h) /\ h[Len(h)].msg = m
<1> DEFINE t == [part |-> "header", msg |-> m]
           h == Append(q, t)
<1>1. t \in Token /\ Len(q) \in Nat
  BY DEF Token
<1>2. Len(h) = Len(q) + 1 /\ h[Len(q) + 1] = t /\ \A i \in 1 .. Len(q) : h[i] = q[i]
  <2> HIDE DEF t
  <2> QED
    BY <1>1
<1> HIDE DEF h
<1>3. h[1].part = "header"
  BY <1>1, <1>2 DEF Framed
<1>4. ASSUME NEW i \in 1 .. Len(h) - 1
      PROVE  IF h[i].part = "header" THEN h[i + 1] = [part |-> "payload", msg |-> h[i].msg]
                                     ELSE h[i + 1].part = "header"
  <2>1. i \in 1 .. Len(q) /\ h[i] = q[i]
    BY <1>1, <1>2
  <2>2. CASE i = Len(q)
    BY <1>2, <2>1, <2>2 DEF HalfSent
  <2>3. CASE i # Len(q)
    <3>1. i \in 1 .. Len(q) - 1 /\ h[i + 1] = q[i + 1]
      BY <1>1, <1>2, <2>1, <2>3
    <3> QED
      BY <2>1, <3>1 DEF Framed
  <2> QED
    BY <2>2, <2>3
<1> QED
  BY <1>1, <1>2, <1>3, <1>4 DEF Framed, HalfSent, h

\* The payload that is due may follow.
LEMMA AppendPayload ==
    ASSUME NEW q \in Seq(Token), NEW m \in Msg, Framed(q), HalfSent(q), q[Len(q)].msg = m
    PROVE  LET h == Append(q, [part |-> "payload", msg |-> m])
           IN  Framed(h) /\ ~HalfSent(h)
<1> DEFINE t == [part |-> "payload", msg |-> m]
           h == Append(q, t)
<1>1. t \in Token /\ Len(q) \in Nat /\ Len(q) > 0
  BY DEF Token, HalfSent
<1>2. Len(h) = Len(q) + 1 /\ h[Len(q) + 1] = t /\ \A i \in 1 .. Len(q) : h[i] = q[i]
  <2> HIDE DEF t
  <2> QED
    BY <1>1
<1> HIDE DEF h
<1>3. h[1].part = "header"
  BY <1>1, <1>2 DEF Framed
<1>4. ASSUME NEW i \in 1 .. Len(h) - 1
      PROVE  IF h[i].part = "header" THEN h[i + 1] = [part |-> "payload", msg |-> h[i].msg]
                                     ELSE h[i + 1].part = "header"
  <2>1. i \in 1 .. Len(q) /\ h[i] = q[i]
    BY <1>1, <1>2
  <2>2. CASE i = Len(q)
    BY <1>2, <2>1, <2>2 DEF HalfSent
  <2>3. CASE i # Len(q)
    <3>1. i \in 1 .. Len(q) - 1 /\ h[i + 1] = q[i + 1]
      BY <1>1, <1>2, <2>1, <2>3
    <3> QED
      BY <2>1, <3>1 DEF Framed
  <2> QED
    BY <2>2, <2>3
<1> QED
  BY <1>1, <1>2, <1>3, <1>4 DEF Framed, HalfSent, h

\* What recv takes is one message, and the rest is framed as before.
LEMMA TakeTwo ==
    ASSUME NEW q \in Seq(Token), Framed(q), Len(q) >= 2
    PROVE  LET f == SubSeq(q, 1, 2)
               s == SubSeq(q, 3, Len(q))
           IN  /\ f[1].part = "header" /\ f[2].part = "payload" /\ f[1].msg = f[2].msg
               /\ Framed(s) /\ (HalfSent(s) <=> HalfSent(q))
               /\ HalfSent(q) => s[Len(s)] = q[Len(q)]
<1> DEFINE f == SubSeq(q, 1, 2)
           s == SubSeq(q, 3, Len(q))
<1>1. Len(q) \in Nat
  OBVIOUS
<1>2. f[1] = q[1] /\ f[2] = q[2]
  BY <1>1
<1>3. Len(s) = Len(q) - 2 /\ \A i \in 1 .. Len(q) - 2 : s[i] = q[i + 2]
  <2>1. \A i \in 3 .. Len(q) : q[i] \in Token
    BY <1>1
  <2>2. Len(s) = (IF 3 <= Len(q) THEN Len(q) - 3 + 1 ELSE 0)
        /\ \A i \in 1 .. Len(q) - 3 + 1 : s[i] = q[3 + i - 1]
    BY <1>1, <2>1, SubSeqProperties
  <2> HIDE DEF s
  <2>3. Len(s) = Len(q) - 2
    <3>1. PICK n \in Nat : n = Len(q)
      BY <1>1
    <3>2. n >= 2
      BY <3>1
    <3>3. Len(s) = IF 3 <= n THEN n - 3 + 1 ELSE 0
      BY <2>2, <3>1
    <3>4. (IF 3 <= n THEN n - 3 + 1 ELSE 0) = n - 2
      BY <3>2
    <3> QED
      BY <3>1, <3>3, <3>4
  <2>4. ASSUME NEW i \in 1 .. Len(q) - 2 PROVE s[i] = q[i + 2]
    <3>1. i \in 1 .. Len(q) - 3 + 1 /\ 3 + i - 1 = i + 2
      BY <1>1
    <3>2. s[i] = q[3 + i - 1]
      BY <2>2, <3>1
    <3> QED
      BY <3>1, <3>2
  <2> QED
    BY <2>3, <2>4
<1> HIDE DEF f, s
<1>4. q[1].part = "header" /\ q[2] = [part |-> "payload", msg |-> q[1].msg]
  <2>1. 1 \in 1 .. Len(q) - 1
    BY <1>1
  <2> QED
    BY <2>1 DEF Framed
<1>5. Len(q) >= 3 => q[3].part = "header"
  <2> SUFFICES ASSUME Len(q) >= 3 PROVE q[3].part = "header"
    OBVIOUS
  <2>1. 2 \in 1 .. Len(q) - 1 /\ q[2].part # "header"
    BY <1>1, <1>4
  <2>2. q[2 + 1].part = "header"
    BY <2>1 DEF Framed
  <2> QED
    BY <2>2
<1>6. Framed(s)
  <2>1. Len(s) > 0 => s[1].part = "header"
    BY <1>1, <1>3, <1>5
  <2>2. ASSUME NEW i \in 1 .. Len(s) - 1
        PROVE  IF s[i].part = "header" THEN s[i + 1] = [part |-> "payload", msg |-> s[i].msg]
                                       ELSE s[i + 1].part = "header"
    <3>1. i + 2 \in 1 .. Len(q) - 1 /\ s[i] = q[i + 2] /\ s[i + 1] = q[(i + 2) + 1]
      <4>1. i \in 1 .. Len(q) - 2 /\ i + 1 \in 1 .. Len(q) - 2 /\ i + 2 \in 1 .. Len(q) - 1
            /\ (i + 1) + 2 = (i + 2) + 1
        BY <1>1, <1>3
      <4> QED
        BY SMTT(30), <1>3, <4>1
    <3> QED
      BY <3>1 DEF Framed
  <2> QED
    BY <2>1, <2>2 DEF Framed
<1>7. HalfSent(q) => Len(q) >= 3
  BY <1>1, <1>4 DEF HalfSent
<1>8. Len(q) >= 3 => Len(s) > 0 /\ s[Len(s)] = q[Len(q)]
  BY <1>1, <1>3
<1>9. HalfSent(s) <=> HalfSent(q)
  BY <1>1, <1>3, <1>7, <1>8 DEF HalfSent
<1> QED
  BY <1>2, <1>4, <1>6, <1>7, <1>8, <1>9 DEF f, s

\* A step that neither sends nor receives keeps every frame whole, when it
\* leaves the entries that are being written to alone and forgets no open end.
LEMMA KeepsFraming ==
    ASSUME Writers, Channels, pair' = pair, UNCHANGED <<chan, writing>>, open' \subseteq open,
           \A r \in Rank, w \in Writer : writing[r][w] # <<>> =>
               LET p == writing[r][w][1]
               IN  conn'[r][p] = conn[r][p] /\ fd'[<<conn[r][p], r>>] = fd[<<conn[r][p], r>>],
           \A c \in Conn, r, p \in Rank : <<c, r>> \in open' /\ conn[r][p] = c => conn'[r][p] = c
    PROVE  Writers' /\ Channels'
<1>1. \A c, r, p : Live(c, r, p)' => Live(c, r, p) /\ <<c, r>> \in open'
  BY DEF Live, IsEnd, Other
<1>2. \A r, p : Sending(r, p)' <=> Sending(r, p)
  BY DEF Sending
<1>3. Writers'
  <2>1. ASSUME NEW r \in Rank, NEW w \in Writer, writing[r][w] # <<>>
        PROVE  /\ conn'[r][writing[r][w][1]] # None
               /\ fd'[<<conn'[r][writing[r][w][1]], r>>] = writing[r][w][2]
    <3> DEFINE p == writing[r][w][1]
    <3>1. conn'[r][p] = conn[r][p] /\ fd'[<<conn[r][p], r>>] = fd[<<conn[r][p], r>>]
      BY <2>1
    <3>2. conn[r][p] # None /\ fd[<<conn[r][p], r>>] = writing[r][w][2]
      BY <2>1 DEF Writers
    <3> QED
      BY <3>1, <3>2
  <2> QED
    BY <2>1 DEF Writers
<1>4. \A e \in End : Framed(chan'[e])
  BY DEF Channels
<1>5. \A c \in Conn, r \in Rank : c > Len(pair') => chan'[<<c, r>>] = <<>>
  BY DEF Channels
<1>6. ASSUME NEW c \in Conn, NEW r \in Rank, NEW p \in Rank, Live(c, r, p)', HalfSent(chan'[<<c, p>>])
      PROVE  conn'[r][p] = c /\ Sending(r, p)'
  <2>1. conn[r][p] = c /\ Sending(r, p)
    BY <1>1, <1>6 DEF Channels
  <2>2. <<c, r>> \in open'
    BY <1>1, <1>6
  <2>3. conn'[r][p] = c
    BY <2>1, <2>2
  <2> QED
    BY <1>2, <2>1, <2>3
<1>7. ASSUME NEW c \in Conn, NEW r \in Rank, NEW p \in Rank, NEW w \in Writer,
             Live(c, r, p)', conn'[r][p] = c, writing'[r][w] # <<>>, writing'[r][w][1] = p
      PROVE  HalfSent(chan'[<<c, p>>]) /\ chan'[<<c, p>>][Len(chan'[<<c, p>>])].msg = writing'[r][w][3]
  <2>1. conn[r][p] = c /\ Live(c, r, p) /\ writing[r][w] # <<>> /\ writing[r][w][1] = p
    BY ZenonT(30), <1>1, <1>7
  <2> QED
    BY <2>1 DEF Channels
<1>8. Channels'
  BY <1>4, <1>5, <1>6, <1>7 DEF Channels, HalfSent
<1> QED
  BY <1>3, <1>8

\* What a step that only sends or receives has to keep.
LEMMA FramingNext ==
    ASSUME UNCHANGED <<pair, conn, open, fd>>,
           \A e \in End : Framed(chan'[e]),
           \A c \in Conn, r \in Rank : c > Len(pair) => chan'[<<c, r>>] = <<>>,
           \A c \in Conn, r, p \in Rank : Live(c, r, p) /\ HalfSent(chan'[<<c, p>>]) =>
               conn[r][p] = c /\ Sending(r, p)',
           \A c \in Conn, r, p \in Rank, w \in Writer :
               Live(c, r, p) /\ conn[r][p] = c /\ writing'[r][w] # <<>> /\ writing'[r][w][1] = p =>
                  /\ HalfSent(chan'[<<c, p>>])
                  /\ chan'[<<c, p>>][Len(chan'[<<c, p>>])].msg = writing'[r][w][3],
           \A r \in Rank, w \in Writer : writing'[r][w] # <<>> =>
               /\ conn[r][writing'[r][w][1]] # None
               /\ fd[<<conn[r][writing'[r][w][1]], r>>] = writing'[r][w][2],
           \A r \in Rank, v, w \in Writer :
               writing'[r][v] # <<>> /\ writing'[r][w] # <<>> /\ writing'[r][v][1] = writing'[r][w][1] => v = w
    PROVE  Writers' /\ Channels'
<1>1. conn' = conn /\ fd' = fd /\ pair' = pair
  OBVIOUS
<1>2. \A c, r, p : Live(c, r, p)' <=> Live(c, r, p)
  BY DEF Live, IsEnd, Other
<1>3. Writers'
  BY <1>1 DEF Writers
<1>4. \A c \in Conn, r \in Rank : c > Len(pair') => chan'[<<c, r>>] = <<>>
  BY <1>1
<1>5. ASSUME NEW c \in Conn, NEW r \in Rank, NEW p \in Rank, Live(c, r, p)', HalfSent(chan[<<c, p>>])'
      PROVE  conn'[r][p] = c /\ Sending(r, p)'
  <2>1. HalfSent(chan'[<<c, p>>]) /\ Live(c, r, p)
    BY <1>2, <1>5 DEF HalfSent
  <2> QED
    BY <1>1, <2>1
<1>6. ASSUME NEW c \in Conn, NEW r \in Rank, NEW p \in Rank, NEW w \in Writer,
             Live(c, r, p)', conn'[r][p] = c, writing'[r][w] # <<>>, writing'[r][w][1] = p
      PROVE  /\ HalfSent(chan[<<c, p>>])'
             /\ chan'[<<c, p>>][Len(chan'[<<c, p>>])].msg = writing'[r][w][3]
  <2>1. Live(c, r, p) /\ conn[r][p] = c
    BY <1>1, <1>2, <1>6
  <2>2. /\ HalfSent(chan'[<<c, p>>])
        /\ chan'[<<c, p>>][Len(chan'[<<c, p>>])].msg = writing'[r][w][3]
    BY <1>6, <2>1
  <2> QED
    BY <2>2 DEF HalfSent
<1>7. \A e \in End : Framed(chan[e])'
  BY DEF Framed
<1>8. Channels'
  BY <1>4, <1>5, <1>6, <1>7 DEF Channels
<1> QED
  BY <1>3, <1>8

USE MaxConnsAssumption, MaxMsgsAssumption, CtrlNoneAssumption

\* FreeFd returns a descriptor that no end of r has.
LEMMA FreeFdFacts ==
    ASSUME TypeOK, NEW r \in Rank, NEW c \in Conn, fd[<<c, r>>] = 0
    PROVE  FreeFd(r) \in 1 .. MaxConns /\ \A d \in Conn : fd[<<d, r>>] # FreeFd(r)
<1> DEFINE f == [d \in 1 .. MaxConns |-> fd[<<d, r>>]]
           used == {fd[<<d, r>>] : d \in Conn}
           free == {n \in 1 .. MaxConns : n \notin used}
           P(n) == n \notin used /\ \A m \in 1 .. MaxConns : m \notin used => n <= m
<1>1. f \in [1 .. MaxConns -> 0 .. MaxConns]
  BY DEF TypeOK, End, Conn
<1>2. c \in 1 .. MaxConns /\ f[c] = 0
  BY DEF Conn
<1>3. \E n \in 1 .. MaxConns : \A d \in 1 .. MaxConns : f[d] # n
  <2> HIDE DEF f
  <2>1. ~ (1 .. MaxConns) \subseteq {f[d] : d \in 1 .. MaxConns}
    BY <1>1, <1>2, FreeExists
  <2> QED
    BY <2>1
<1>4. free # {}
  BY ZenonT(30), <1>3 DEF Conn
<1>5. \E n \in free : \A m \in free : n <= m
  <2> HIDE DEF free
  <2>1. free \in SUBSET (1 .. MaxConns)
    BY DEF free
  <2> QED
    BY <1>4, <2>1, Least
<1>6. \E n \in 1 .. MaxConns : P(n)
  BY <1>5
<1>7. FreeFd(r) = CHOOSE n \in 1 .. MaxConns : P(n)
  BY DEF FreeFd
<1> HIDE DEF P
<1>8. FreeFd(r) \in 1 .. MaxConns /\ P(FreeFd(r))
  BY <1>6, <1>7, Zenon
<1> QED
  BY <1>8 DEF P

----------------------------------------------------------------------------
\* A dialed connection has two ends, at different ranks.
LEMMA EndFacts ==
    ASSUME TypeOK, Dialed, NEW c \in Conn, NEW r \in Rank, IsEnd(c, r)
    PROVE  /\ Other(c, r) \in Rank /\ Other(c, r) # r /\ IsEnd(c, Other(c, r))
           /\ Other(c, Other(c, r)) = r
           /\ pair[c] \in Dials /\ pair[c][1] \in Rank /\ pair[c][2] \in Rank /\ pair[c][1] # pair[c][2]
<1>1. pair[c] \in Dials
  BY DEF IsEnd, Dialed
<1>2. pair[c][1] \in Rank /\ pair[c][2] \in Rank /\ pair[c][1] # pair[c][2]
  BY <1>1, DialsAssumption
<1> QED
  BY <1>1, <1>2 DEF IsEnd, Other

\* Deciding about a pending end keeps every open end with one owner.
LEMMA SettlesEnds ==
    ASSUME TypeOK, Dialed, Ends, NEW r \in Rank, NEW p \in Rank, NEW c \in Conn, NEW n,
           Settles(r, p, c, n)
    PROVE  Ends'
<1>1. /\ pair' = pair /\ IsEnd(c, r) /\ p = Other(c, r) /\ Pending(c, r) /\ Register(r, p, c, n)
      /\ \A d \in Conn, s \in Rank : IsEnd(d, s) =>
             (Pending(d, s)' <=> Pending(d, s) /\ ~(d = c /\ s = r))
  BY DEF Settles
<1>2. \A d, s : (IsEnd(d, s)' <=> IsEnd(d, s)) /\ Other(d, s)' = Other(d, s)
  BY <1>1 DEF IsEnd, Other
<1>3. <<c, r>> \in open /\ conn[r][p] # c /\ c # None
  BY <1>1 DEF Ends, Conn
<1>4. \A d \in Conn, s \in Rank : IsEnd(d, s) => Other(d, s) \in Rank
  BY EndFacts
<1>5. conn \in [Rank -> [Rank -> Conn \cup {None}]] /\ open \subseteq End
  BY DEF TypeOK
<1>6. CASE conn[r][p] = None
  <2>1. open' = open /\ conn' = [conn EXCEPT ![r][p] = c]
    BY <1>1, <1>6 DEF Register
  <2>2. \A s, q \in Rank : conn'[s][q] = IF s = r /\ q = p THEN c ELSE conn[s][q]
    BY <1>5, <2>1
  <2>3. ASSUME NEW d \in Conn, NEW s \in Rank, <<d, s>> \in open'
        PROVE  IsEnd(d, s)' /\ (Pending(d, s)' \/ conn'[s][Other(d, s)'] = d)
    <3>1. IsEnd(d, s) /\ (Pending(d, s) \/ conn[s][Other(d, s)] = d) /\ Other(d, s) \in Rank
      BY <1>4, <2>1, <2>3 DEF Ends
    <3>2. conn[s][Other(d, s)] = d => conn'[s][Other(d, s)] = d
      BY <1>6, <2>2, <3>1 DEF Conn
    <3>3. d = c /\ s = r => conn'[s][Other(d, s)] = d
      BY <1>1, <2>2
    <3> QED
      BY <1>1, <1>2, <3>1, <3>2, <3>3
  <2>4. ASSUME NEW d \in Conn, NEW s \in Rank, IsEnd(d, s)', Pending(d, s)'
        PROVE  <<d, s>> \in open' /\ conn'[s][Other(d, s)'] # d
    <3>1. IsEnd(d, s) /\ Pending(d, s) /\ ~(d = c /\ s = r) /\ Other(d, s) \in Rank
      BY <1>1, <1>2, <1>4, <2>4
    <3>2. <<d, s>> \in open /\ conn[s][Other(d, s)] # d
      BY <3>1 DEF Ends
    <3> QED
      BY <1>2, <2>1, <2>2, <3>1, <3>2
  <2>5. ASSUME NEW s \in Rank, NEW q \in Rank, conn'[s][q] # None
        PROVE  (<<conn[s][q], s>> \in open /\ Other(conn[s][q], s) = q)'
    <3>1. CASE s = r /\ q = p
      <4>1. conn'[s][q] = c
        BY <2>2, <3>1
      <4>2. <<c, r>> \in open' /\ Other(c, r)' = p
        BY <1>1, <1>2, <1>3, <2>1
      <4> QED
        BY <3>1, <4>1, <4>2 DEF Other
    <3>2. CASE ~(s = r /\ q = p)
      BY SMTT(30), <1>1, <2>1, <2>2, <2>5, <3>2 DEF Ends, Other
    <3> QED
      BY <3>1, <3>2
  <2> QED
    BY <2>3, <2>4, <2>5 DEF Ends
<1>7. CASE conn[r][p] # None
  <2>1. open' = open \ {<<c, r>>} /\ conn' = conn
    BY <1>1, <1>7 DEF Register, CloseEnds
  <2>2. ASSUME NEW d \in Conn, NEW s \in Rank, <<d, s>> \in open'
        PROVE  IsEnd(d, s)' /\ (Pending(d, s)' \/ conn'[s][Other(d, s)'] = d)
    BY <1>1, <1>2, <2>1, <2>2 DEF Ends
  <2>3. ASSUME NEW d \in Conn, NEW s \in Rank, IsEnd(d, s)', Pending(d, s)'
        PROVE  <<d, s>> \in open' /\ conn'[s][Other(d, s)'] # d
    BY <1>1, <1>2, <2>1, <2>3 DEF Ends
  <2>4. ASSUME NEW s \in Rank, NEW q \in Rank, conn'[s][q] # None
        PROVE  (<<conn[s][q], s>> \in open /\ Other(conn[s][q], s) = q)'
    <3>1. <<conn[s][q], s>> \in open /\ Other(conn[s][q], s) = q
      BY <2>1, <2>4 DEF Ends
    <3>2. ~(conn[s][q] = c /\ s = r)
      BY <1>1, <1>3, <3>1
    <3> QED
      BY <1>1, <2>1, <3>1, <3>2 DEF Other
  <2> QED
    BY <2>2, <2>3, <2>4 DEF Ends
<1> QED
  BY <1>6, <1>7

\* So does closing ends together with the entries that hold them.
LEMMA ClosesEnds ==
    ASSUME TypeOK, Dialed, Ends, NEW r \in Rank, NEW cs \in SUBSET Conn, Closes(r, cs)
    PROVE  Ends'
<1>1. /\ pair' = pair
      /\ \A d \in Conn, s \in Rank : IsEnd(d, s) =>
             (Pending(d, s)' <=> Pending(d, s) /\ ~(d \in cs /\ s = r))
      /\ \A s, p \in Rank : conn'[s][p] = IF s = r /\ conn[s][p] \in cs THEN None ELSE conn[s][p]
  BY DEF Closes
<1>2. \A d, s : (IsEnd(d, s)' <=> IsEnd(d, s)) /\ Other(d, s)' = Other(d, s)
  BY <1>1 DEF IsEnd, Other
<1>3. \A d, s : <<d, s>> \in open' <=> <<d, s>> \in open /\ ~(d \in cs /\ s = r)
  BY DEF Closes, CloseEnds
<1>4. \A d \in Conn, s \in Rank : IsEnd(d, s) => Other(d, s) \in Rank
  BY EndFacts
<1>5. \A d \in Conn : d # None
  BY DEF Conn
<1>6. ASSUME NEW d \in Conn, NEW s \in Rank, <<d, s>> \in open'
      PROVE  IsEnd(d, s)' /\ (Pending(d, s)' \/ conn'[s][Other(d, s)'] = d)
  <2>1. IsEnd(d, s) /\ (Pending(d, s) \/ conn[s][Other(d, s)] = d) /\ ~(d \in cs /\ s = r)
    BY <1>3, <1>6 DEF Ends
  <2>2. Other(d, s) \in Rank
    BY <1>4, <2>1
  <2> QED
    BY <1>1, <1>2, <2>1, <2>2
<1>7. ASSUME NEW d \in Conn, NEW s \in Rank, IsEnd(d, s)', Pending(d, s)'
      PROVE  <<d, s>> \in open' /\ conn'[s][Other(d, s)'] # d
  <2>1. IsEnd(d, s) /\ Pending(d, s) /\ ~(d \in cs /\ s = r) /\ Other(d, s) \in Rank
    BY <1>1, <1>2, <1>4, <1>7
  <2>2. <<d, s>> \in open /\ conn[s][Other(d, s)] # d
    BY <2>1 DEF Ends
  <2> QED
    BY <1>1, <1>2, <1>3, <1>5, <2>1, <2>2
<1>8. ASSUME NEW s \in Rank, NEW q \in Rank, conn'[s][q] # None
      PROVE  (<<conn[s][q], s>> \in open /\ Other(conn[s][q], s) = q)'
  <2>1. conn'[s][q] = conn[s][q] /\ ~(s = r /\ conn[s][q] \in cs)
    BY <1>1, <1>8
  <2>2. <<conn[s][q], s>> \in open /\ Other(conn[s][q], s) = q
    BY <1>8, <2>1 DEF Ends
  <2> QED
    BY <1>1, <1>3, <2>1, <2>2 DEF Other
<1> QED
  BY <1>6, <1>7, <1>8 DEF Ends

LEMMA SettlesDescriptors ==
    ASSUME TypeOK, Dialed, Ends, Descriptors, NEW r \in Rank, NEW p \in Rank, NEW c \in Conn, NEW n,
           Settles(r, p, c, n)
    PROVE  Descriptors'
<1>1. /\ pair' = pair /\ IsEnd(c, r) /\ Pending(c, r) /\ Register(r, p, c, n)
      /\ n \in 1 .. MaxConns
      /\ \A d \in Conn : fd[<<d, r>>] = n => d = c
      /\ \A d \in Conn, s \in Rank : IsEnd(d, s) =>
             (Pending(d, s)' <=> Pending(d, s) /\ ~(d = c /\ s = r))
  BY DEF Settles
<1>2. <<c, r>> \in open
  BY <1>1 DEF Ends
<1>3. fd \in [End -> 0 .. MaxConns] /\ <<c, r>> \in End
  BY DEF TypeOK, End
<1> DEFINE kept == conn[r][p] = None
<1>4. \A d \in Conn, s \in Rank :
        fd'[<<d, s>>] = IF d = c /\ s = r THEN (IF kept THEN n ELSE 0) ELSE fd[<<d, s>>]
  BY <1>1, <1>3 DEF Register, CloseEnds, End
<1>5. \A d \in Conn, s \in Rank :
        <<d, s>> \in open' <=> <<d, s>> \in open /\ (kept \/ ~(d = c /\ s = r))
  BY <1>1 DEF Register, CloseEnds
<1> HIDE DEF kept
<1>6. \A d \in Conn, s \in Rank : fd[<<d, s>>] \in 0 .. MaxConns
  BY <1>3 DEF End
<1>7. ASSUME NEW d \in Conn, NEW s \in Rank
      PROVE  fd'[<<d, s>>] # 0 <=> <<d, s>> \in open' /\ (pair[d][1] = s \/ ~Pending(d, s)')
  <2>1. CASE d = c /\ s = r
    <3>1. ~Pending(d, s)'
      BY <1>1, <2>1
    <3>2. fd'[<<d, s>>] # 0 <=> kept
      BY <1>1, <1>4, <2>1
    <3>3. <<d, s>> \in open' <=> kept
      BY <1>2, <1>5, <2>1
    <3> QED
      BY <3>1, <3>2, <3>3
  <2>2. CASE ~(d = c /\ s = r)
    <3>1. <<d, s>> \in open => (Pending(d, s)' <=> Pending(d, s))
      BY <1>1, <2>2 DEF Ends
    <3>2. fd'[<<d, s>>] = fd[<<d, s>>] /\ (<<d, s>> \in open' <=> <<d, s>> \in open)
      BY <1>4, <1>5, <2>2
    <3>3. fd[<<d, s>>] # 0 <=> <<d, s>> \in open /\ (pair[d][1] = s \/ ~Pending(d, s))
      BY DEF Descriptors
    <3> QED
      BY <3>1, <3>2, <3>3
  <2> QED
    BY <2>1, <2>2
<1>8. ASSUME NEW d \in Conn, NEW b \in Conn, NEW s \in Rank, fd'[<<d, s>>] = fd'[<<b, s>>], fd'[<<d, s>>] # 0
      PROVE  d = b
  BY <1>1, <1>4, <1>6, <1>8 DEF Descriptors
<1> QED
  BY <1>1, <1>7, <1>8 DEF Descriptors

LEMMA ClosesDescriptors ==
    ASSUME TypeOK, Dialed, Ends, Descriptors, NEW r \in Rank, NEW cs \in SUBSET Conn, Closes(r, cs)
    PROVE  Descriptors'
<1>1. /\ pair' = pair
      /\ \A d \in Conn, s \in Rank : IsEnd(d, s) =>
             (Pending(d, s)' <=> Pending(d, s) /\ ~(d \in cs /\ s = r))
  BY DEF Closes
<1>2. \A d \in Conn, s \in Rank : fd'[<<d, s>>] = IF s = r /\ d \in cs THEN 0 ELSE fd[<<d, s>>]
  BY DEF Closes, CloseEnds, End
<1>3. \A d \in Conn, s \in Rank : <<d, s>> \in open' <=> <<d, s>> \in open /\ ~(d \in cs /\ s = r)
  BY DEF Closes, CloseEnds
<1>4. \A d \in Conn, s \in Rank : <<d, s>> \in open => IsEnd(d, s)
  BY DEF Ends
<1>5. ASSUME NEW d \in Conn, NEW s \in Rank
      PROVE  fd'[<<d, s>>] # 0 <=> <<d, s>> \in open' /\ (pair[d][1] = s \/ ~Pending(d, s)')
  BY <1>1, <1>2, <1>3, <1>4 DEF Descriptors
<1>6. ASSUME NEW d \in Conn, NEW b \in Conn, NEW s \in Rank, fd'[<<d, s>>] = fd'[<<b, s>>], fd'[<<d, s>>] # 0
      PROVE  d = b
  BY <1>2, <1>6 DEF Descriptors
<1> QED
  BY <1>1, <1>5, <1>6 DEF Descriptors

----------------------------------------------------------------------------
(***************************************************************************)
(* What the actions do to the queues and who is pending                    *)
(***************************************************************************)
LEMMA QueuedFacts ==
    ASSUME TypeOK, Dialed, NEW r \in Rank, NEW c \in Queued(r)
    PROVE  c \in Conn /\ c <= Len(pair) /\ pair[c][2] = r /\ IsEnd(c, r) /\ pair[c][1] # r
<1>1. PICK i \in 1 .. Len(backlog[r]) : c = backlog[r][i]
  BY DEF Queued, TypeOK
<1>2. c \in Conn /\ c <= Len(pair) /\ pair[c][2] = r
  BY <1>1 DEF Dialed, TypeOK
<1>3. c \in 1 .. Len(pair)
  BY <1>2 DEF Conn, TypeOK
<1>4. IsEnd(c, r)
  BY <1>2, <1>3 DEF IsEnd
<1> QED
  BY <1>2, <1>4, EndFacts

LEMMA DialFacts ==
    ASSUME TypeOK, Dialed, NEW r \in Rank, NEW p \in Rank, Dial(r, p)
    PROVE  LET c == Len(pair) + 1
           IN  /\ c \in Conn /\ r # p /\ <<r, p>> \in Dials
               /\ pair' \in Seq(Rank \X Rank) /\ Len(pair') = c
               /\ pair'[c] = <<r, p>> /\ \A d \in 1 .. Len(pair) : pair'[d] = pair[d]
               /\ \A s \in Rank : Queued(s)' = IF s = p THEN Queued(s) \cup {c} ELSE Queued(s)
<1> DEFINE c == Len(pair) + 1
<1>1. <<r, p>> \in Dials /\ c <= MaxConns /\ pair' = Append(pair, <<r, p>>)
      /\ backlog' = [backlog EXCEPT ![p] = Append(@, c)]
  BY DEF Dial
<1>2. c \in Conn /\ r # p
  <2>1. c \in Conn
    BY <1>1 DEF Conn, TypeOK
  <2>2. r # p
    BY <1>1, DialsAssumption
  <2> QED
    BY <2>1, <2>2
<1>3. /\ pair' \in Seq(Rank \X Rank) /\ Len(pair') = c
      /\ pair'[c] = <<r, p>> /\ \A d \in 1 .. Len(pair) : pair'[d] = pair[d]
  BY <1>1 DEF TypeOK
<1>4. ASSUME NEW s \in Rank PROVE Queued(s)' = IF s = p THEN Queued(s) \cup {c} ELSE Queued(s)
  <2>1. CASE s # p
    BY <1>1, <2>1 DEF Queued, TypeOK
  <2>2. CASE s = p
    <3>1. backlog'[s] = Append(backlog[s], c) /\ backlog[s] \in Seq(Conn)
      BY <1>1, <2>2 DEF TypeOK
    <3> DEFINE q == backlog[s]
    <3>2. DOMAIN Append(q, c) = 1 .. Len(q) + 1 /\ DOMAIN q = 1 .. Len(q) /\ Len(q) \in Nat
      BY <1>2, <3>1
    <3>3. \A i \in 1 .. Len(q) : Append(q, c)[i] = q[i]
      BY <1>2, <3>1
    <3>4. Append(q, c)[Len(q) + 1] = c
      BY <1>2, <3>1
    <3>5. {Append(q, c)[i] : i \in DOMAIN Append(q, c)} = {q[i] : i \in DOMAIN q} \cup {c}
      <4> HIDE DEF c, q
      <4> QED
        BY <3>2, <3>3, <3>4
    <3> QED
      BY <2>2, <3>1, <3>5 DEF Queued
  <2> QED
    BY <2>1, <2>2
<1> QED
  BY <1>1, <1>2, <1>3, <1>4

LEMMA HeadFacts ==
    ASSUME TypeOK, Dialed, NEW r \in Rank, backlog[r] # <<>>
    PROVE  /\ Head(backlog[r]) \in Queued(r)
           /\ \A c \in Queued(r) : Head(backlog[r]) <= c
           /\ {Tail(backlog[r])[i] : i \in DOMAIN Tail(backlog[r])} = Queued(r) \ {Head(backlog[r])}
           /\ Tail(backlog[r]) \in Seq(Conn)
<1> DEFINE q == backlog[r]
<1>1. q \in Seq(Conn) /\ q # <<>>
  BY DEF TypeOK
<1>2. /\ Len(q) \in Nat \ {0} /\ DOMAIN q = 1 .. Len(q) /\ Head(q) = q[1] /\ Tail(q) \in Seq(Conn)
      /\ DOMAIN Tail(q) = 1 .. Len(q) - 1 /\ \A i \in 1 .. Len(q) - 1 : Tail(q)[i] = q[i + 1]
  BY <1>1
<1>3. \A i, j \in 1 .. Len(q) : q[i] \in Nat /\ (i < j => q[i] < q[j])
  BY <1>1 DEF Dialed, Conn
<1>4. Queued(r) = {q[i] : i \in 1 .. Len(q)}
  BY <1>2 DEF Queued
<1> HIDE DEF q
<1>5. \A i \in 1 .. Len(q) : q[1] <= q[i] /\ (i # 1 => q[i] # q[1] /\ i - 1 \in 1 .. Len(q) - 1 /\ q[i] = Tail(q)[i - 1])
  BY <1>2, <1>3
<1>6. \A i \in 1 .. Len(q) - 1 : i + 1 \in 1 .. Len(q) /\ i + 1 # 1
  BY <1>2
<1>7. {Tail(q)[i] : i \in DOMAIN Tail(q)} = {q[i] : i \in 1 .. Len(q)} \ {q[1]}
  <2>1. ASSUME NEW x \in {Tail(q)[i] : i \in DOMAIN Tail(q)} PROVE x \in {q[i] : i \in 1 .. Len(q)} \ {q[1]}
    <3>1. PICK i \in 1 .. Len(q) - 1 : x = Tail(q)[i]
      BY <1>2
    <3>2. x = q[i + 1] /\ i + 1 \in 1 .. Len(q) /\ i + 1 # 1
      BY <1>2, <1>6, <3>1
    <3> QED
      BY <1>5, <3>2
  <2>2. ASSUME NEW x \in {q[i] : i \in 1 .. Len(q)} \ {q[1]} PROVE x \in {Tail(q)[i] : i \in DOMAIN Tail(q)}
    <3>1. PICK i \in 1 .. Len(q) : x = q[i] /\ i # 1
      OBVIOUS
    <3>2. i - 1 \in DOMAIN Tail(q) /\ x = Tail(q)[i - 1]
      BY <1>2, <1>5, <3>1
    <3> QED
      BY <3>2
  <2> QED
    BY <2>1, <2>2
<1>8. Head(q) \in Queued(r) /\ \A c \in Queued(r) : Head(q) <= c
  BY <1>2, <1>4, <1>5
<1> QED
  BY <1>2, <1>4, <1>7, <1>8 DEF q

\* A connect call, and an accept, decides about one pending end of its rank.
LEMMA DialRegisterSettles ==
    ASSUME TypeOK, Dialed, Ends, Descriptors, NEW c \in Conn, DialRegister(c)
    PROVE  /\ pair[c] \in Rank \X Rank /\ pair[c][1] \in Rank /\ pair[c][2] \in Rank
           /\ Settles(pair[c][1], pair[c][2], c, fd[<<c, pair[c][1]>>])
<1> DEFINE r == pair[c][1]
           p == pair[c][2]
<1>1. c \in dialing /\ dialing' = dialing \ {c} /\ Register(r, p, c, fd[<<c, r>>]) /\ pair' = pair /\ backlog' = backlog
  BY DEF DialRegister
<1>2. c \in 1 .. Len(pair)
  BY <1>1 DEF Dialed, TypeOK, Conn
<1>3. IsEnd(c, r)
  BY <1>2 DEF IsEnd
<1>4. pair[c] \in Rank \X Rank /\ r \in Rank /\ p \in Rank /\ r # p
  BY <1>2, DialsAssumption DEF Dialed
<1>5. p = Other(c, r) /\ Pending(c, r)
  BY <1>1 DEF Other, Pending
<1>6. <<c, r>> \in open
  BY <1>3, <1>4, <1>5 DEF Ends
<1>7. fd[<<c, r>>] \in 1 .. MaxConns
  <2>1. fd[<<c, r>>] # 0
    BY <1>4, <1>6 DEF Descriptors
  <2>2. fd[<<c, r>>] \in 0 .. MaxConns
    BY <1>4 DEF TypeOK, End
  <2> QED
    BY <2>1, <2>2
<1>8. \A d \in Conn : fd[<<d, r>>] = fd[<<c, r>>] => d = c
  <2>1. fd[<<c, r>>] # 0
    BY <1>7
  <2> HIDE DEF r
  <2> QED
    BY <1>4, <2>1 DEF Descriptors
<1>9. ASSUME NEW d \in Conn, NEW s \in Rank, IsEnd(d, s)
      PROVE  Pending(d, s)' <=> Pending(d, s) /\ ~(d = c /\ s = r)
  <2>1. Queued(s)' = Queued(s)
    BY <1>1 DEF Queued
  <2>2. CASE pair[d][1] = s
    BY <1>1, <2>2 DEF Pending
  <2>3. CASE pair[d][1] # s
    BY <1>1, <2>1, <2>3 DEF Pending
  <2> QED
    BY <2>2, <2>3
<1> QED
  BY <1>1, <1>3, <1>4, <1>5, <1>7, <1>8, <1>9 DEF Settles

LEMMA AcceptSettles ==
    ASSUME TypeOK, Dialed, Ends, Descriptors, NEW r \in Rank, Accept(r)
    PROVE  LET c == Head(backlog[r])
           IN  /\ c \in Conn /\ pair[c][1] \in Rank /\ pair[c][2] = r
               /\ Settles(r, pair[c][1], c, FreeFd(r))
               /\ Queued(r)' = Queued(r) \ {c}
               /\ \A s \in Rank \ {r} : Queued(s)' = Queued(s)
<1> DEFINE c == Head(backlog[r])
           p == pair[c][1]
<1>1. /\ backlog[r] # <<>> /\ backlog' = [backlog EXCEPT ![r] = Tail(@)]
      /\ Register(r, p, c, FreeFd(r)) /\ pair' = pair /\ dialing' = dialing
  BY DEF Accept
<1>2. c \in Queued(r) /\ {Tail(backlog[r])[i] : i \in DOMAIN Tail(backlog[r])} = Queued(r) \ {c}
  BY <1>1, HeadFacts
<1> HIDE DEF c
<1>3. c \in Conn /\ pair[c][2] = r /\ IsEnd(c, r) /\ p # r
  BY <1>2, QueuedFacts
<1>4. p \in Rank
  BY <1>3, EndFacts
<1>5. p = Other(c, r) /\ Pending(c, r)
  BY <1>2, <1>3 DEF Other, Pending
<1>6. fd[<<c, r>>] = 0
  BY <1>3, <1>5 DEF Descriptors
<1>7. FreeFd(r) \in 1 .. MaxConns /\ \A d \in Conn : fd[<<d, r>>] # FreeFd(r)
  BY <1>3, <1>6, FreeFdFacts
<1>8. backlog'[r] = Tail(backlog[r]) /\ \A s \in Rank \ {r} : backlog'[s] = backlog[s]
  BY <1>1 DEF TypeOK
<1>9. Queued(r)' = Queued(r) \ {c} /\ \A s \in Rank \ {r} : Queued(s)' = Queued(s)
  <2>1. Queued(r)' = {Tail(backlog[r])[i] : i \in DOMAIN Tail(backlog[r])}
    BY <1>8 DEF Queued
  <2>2. \A s \in Rank \ {r} : Queued(s)' = Queued(s)
    BY <1>8 DEF Queued
  <2> QED
    BY <1>2, <2>1, <2>2
<1>10. ASSUME NEW d \in Conn, NEW s \in Rank, IsEnd(d, s)
       PROVE  Pending(d, s)' <=> Pending(d, s) /\ ~(d = c /\ s = r)
  <2>1. CASE pair[d][1] = s
    BY <1>1, <1>3, <2>1 DEF Pending
  <2>2. CASE pair[d][1] # s
    <3>1. d \in Queued(s)' <=> d \in Queued(s) /\ ~(d = c /\ s = r)
      BY <1>9
    <3> QED
      BY <1>1, <2>2, <3>1 DEF Pending
  <2> QED
    BY <2>1, <2>2
<1>11. Settles(r, p, c, FreeFd(r))
  BY <1>1, <1>3, <1>5, <1>7, <1>10 DEF Settles
<1> QED
  BY <1>3, <1>4, <1>9, <1>11 DEF c

\* close and closeCtrl close ends of their rank, and forget them.
LEMMA CloseCloses ==
    ASSUME TypeOK, Dialed, Ends, NEW r \in Rank, NEW p \in Rank, Close(r, p)
    PROVE  {conn[r][p]} \subseteq Conn /\ Closes(r, {conn[r][p]})
<1> DEFINE c == conn[r][p]
<1>1. /\ c # None /\ CloseEnds(r, {c}) /\ conn' = [conn EXCEPT ![r][p] = None]
      /\ pair' = pair /\ dialing' = dialing /\ backlog' = backlog
  BY DEF Close
<1>2. c \in Conn
  BY <1>1 DEF TypeOK
<1>3. <<c, r>> \in open /\ Other(c, r) = p
  BY <1>1 DEF Ends
<1>4. IsEnd(c, r) => ~Pending(c, r)
  BY <1>2, <1>3 DEF Ends
<1>5. \A d \in Conn, s \in Rank : Pending(d, s)' <=> Pending(d, s)
  BY <1>1 DEF Pending, Queued
<1>6. ASSUME NEW s \in Rank, NEW q \in Rank
      PROVE  conn'[s][q] = IF s = r /\ conn[s][q] \in {c} THEN None ELSE conn[s][q]
  <2>1. conn'[s][q] = IF s = r /\ q = p THEN None ELSE conn[s][q]
    BY <1>1 DEF TypeOK
  <2>2. s = r /\ conn[s][q] = c => q = p
    BY <1>1, <1>3 DEF Ends
  <2> QED
    BY <2>1, <2>2
<1>7. \A d \in Conn, s \in Rank : IsEnd(d, s) => (Pending(d, s)' <=> Pending(d, s) /\ ~(d \in {c} /\ s = r))
  BY <1>4, <1>5
<1> QED
  BY <1>1, <1>2, <1>6, <1>7 DEF Closes

LEMMA CloseCtrlCloses ==
    ASSUME TypeOK, Dialed, Ends, NEW r \in Rank, CloseCtrl(r)
    PROVE  /\ Queued(r) \cup Registered(r) \subseteq Conn
           /\ Closes(r, Queued(r) \cup Registered(r))
           /\ Queued(r)' = {} /\ \A s \in Rank \ {r} : Queued(s)' = Queued(s)
<1> DEFINE cs == Queued(r) \cup Registered(r)
<1>1. /\ CloseEnds(r, cs) /\ conn' = [conn EXCEPT ![r] = [p \in Rank |-> None]]
      /\ pair' = pair /\ dialing' = dialing /\ backlog' = [backlog EXCEPT ![r] = <<>>]
  BY DEF CloseCtrl
<1>2. Queued(r) \subseteq Conn /\ \A c \in Queued(r) : pair[c][1] # r
  BY QueuedFacts
<1>3. Registered(r) \subseteq Conn
  BY DEF TypeOK, Registered
<1>4. ASSUME NEW c \in Registered(r), IsEnd(c, r) PROVE ~Pending(c, r)
  <2>1. PICK p \in Rank : c = conn[r][p] /\ c # None
    BY DEF Registered
  <2>2. Other(c, r) = p
    BY <2>1 DEF Ends
  <2> QED
    BY <1>3, <1>4, <2>1, <2>2 DEF Ends
<1>5. backlog'[r] = <<>> /\ \A s \in Rank \ {r} : backlog'[s] = backlog[s]
  BY <1>1 DEF TypeOK
<1>6. Queued(r)' = {} /\ \A s \in Rank \ {r} : Queued(s)' = Queued(s)
  BY <1>5 DEF Queued
<1>7. ASSUME NEW d \in Conn, NEW s \in Rank, IsEnd(d, s)
      PROVE  Pending(d, s)' <=> Pending(d, s) /\ ~(d \in cs /\ s = r)
  <2>1. CASE pair[d][1] = s
    <3>1. Pending(d, s)' <=> Pending(d, s)
      BY <1>1, <2>1 DEF Pending
    <3>2. s = r /\ d \in cs => ~Pending(d, s)
      BY <1>2, <1>4, <1>7, <2>1
    <3> QED
      BY <3>1, <3>2
  <2>2. CASE pair[d][1] # s
    <3>1. (Pending(d, s)' <=> d \in Queued(s)') /\ (Pending(d, s) <=> d \in Queued(s))
      BY <1>1, <2>2 DEF Pending
    <3>2. CASE s = r
      <4>1. d \notin Queued(s)'
        BY <1>6, <3>2
      <4>2. d \in Queued(s) => d \in cs
        BY <3>2
      <4> QED
        BY <3>1, <3>2, <4>1, <4>2
    <3>3. CASE s # r
      BY <1>6, <3>1, <3>3
    <3> QED
      BY <3>2, <3>3
  <2> QED
    BY <2>1, <2>2
<1>8. ASSUME NEW s \in Rank, NEW q \in Rank
      PROVE  conn'[s][q] = IF s = r /\ conn[s][q] \in cs THEN None ELSE conn[s][q]
  <2>1. conn'[s][q] = IF s = r THEN None ELSE conn[s][q]
    BY <1>1 DEF TypeOK
  <2>2. s = r => conn[s][q] = None \/ conn[s][q] \in cs
    BY DEF Registered
  <2> QED
    BY <2>1, <2>2
<1> HIDE DEF cs
<1>9. Closes(r, cs)
  BY <1>1, <1>7, <1>8 DEF Closes
<1> QED
  BY <1>2, <1>3, <1>6, <1>9 DEF cs

LEMMA DialEnds ==
    ASSUME TypeOK, Dialed, Ends, Descriptors, NEW r \in Rank, NEW p \in Rank, Dial(r, p)
    PROVE  Ends' /\ Descriptors'
<1>0. PICK c \in Conn : c = Len(pair) + 1
  BY DialFacts
<1>1. /\ c \in Conn /\ c = Len(pair) + 1 /\ r # p /\ Len(pair') = c /\ Len(pair) \in Nat
      /\ pair'[c] = <<r, p>> /\ \A d \in 1 .. Len(pair) : pair'[d] = pair[d]
      /\ \A s \in Rank : Queued(s)' = IF s = p THEN Queued(s) \cup {c} ELSE Queued(s)
  <2>1. Len(pair) \in Nat
    BY DEF TypeOK
  <2> QED
    BY <1>0, <2>1, DialFacts
<1>2. /\ dialing' = dialing \cup {c} /\ open' = open \cup {<<c, r>>, <<c, p>>}
      /\ fd' = [fd EXCEPT ![<<c, r>>] = FreeFd(r)] /\ conn' = conn
  BY <1>0 DEF Dial
<1>3. \A s \in Rank : ~IsEnd(c, s) /\ <<c, s>> \notin open /\ fd[<<c, s>>] = 0
  <2>1. \A s \in Rank : ~IsEnd(c, s)
    BY <1>1 DEF IsEnd
  <2> QED
    BY <1>1, <2>1 DEF Ends, Descriptors
<1>4. FreeFd(r) \in 1 .. MaxConns /\ \A d \in Conn : fd[<<d, r>>] # FreeFd(r)
  BY <1>1, <1>3, FreeFdFacts
<1>5. ASSUME NEW d \in Conn, NEW s \in Rank, d # c
      PROVE  /\ IsEnd(d, s)' <=> IsEnd(d, s)
             /\ IsEnd(d, s) => pair'[d] = pair[d] /\ Other(d, s)' = Other(d, s) /\ (Pending(d, s)' <=> Pending(d, s))
             /\ <<d, s>> \in open' <=> <<d, s>> \in open
             /\ fd'[<<d, s>>] = fd[<<d, s>>]
  <2>1. d \in 1 .. Len(pair') <=> d \in 1 .. Len(pair)
    BY <1>1, <1>5 DEF Conn
  <2>2. d \in 1 .. Len(pair) => pair'[d] = pair[d]
    BY <1>1
  <2>3. d \in Queued(s)' <=> d \in Queued(s)
    BY <1>1, <1>5
  <2>4. IsEnd(d, s)' <=> IsEnd(d, s)
    BY <2>1, <2>2 DEF IsEnd
  <2>5. IsEnd(d, s) => pair'[d] = pair[d]
    BY <2>2 DEF IsEnd
  <2>6. IsEnd(d, s) => Other(d, s)' = Other(d, s) /\ (Pending(d, s)' <=> Pending(d, s))
    BY <1>2, <1>5, <2>3, <2>5 DEF Other, Pending
  <2>7. (<<d, s>> \in open' <=> <<d, s>> \in open) /\ fd'[<<d, s>>] = fd[<<d, s>>]
    BY <1>1, <1>2, <1>5 DEF TypeOK, End
  <2> QED
    BY <2>4, <2>5, <2>6, <2>7
<1>6. ASSUME NEW s \in Rank
      PROVE  /\ IsEnd(c, s)' <=> s \in {r, p}
             /\ s \in {r, p} => Pending(c, s)' /\ Other(c, s)' \in {r, p}
             /\ <<c, s>> \in open' <=> s \in {r, p}
             /\ fd'[<<c, s>>] = IF s = r THEN FreeFd(r) ELSE 0
  <2>1. c \in 1 .. Len(pair') /\ pair'[c][1] = r /\ pair'[c][2] = p
    BY <1>1
  <2>2. IsEnd(c, s)' <=> s \in {r, p}
    BY <2>1 DEF IsEnd
  <2>3. s \in {r, p} => Pending(c, s)' /\ Other(c, s)' \in {r, p}
    BY <1>1, <1>2, <2>1 DEF Pending, Other
  <2>4. <<c, s>> \in open' <=> s \in {r, p}
    BY <1>2, <1>3
  <2>5. fd'[<<c, s>>] = IF s = r THEN FreeFd(r) ELSE 0
    BY <1>1, <1>2, <1>3 DEF TypeOK, End
  <2> QED
    BY <2>2, <2>3, <2>4, <2>5
<1>7. \A s, q \in Rank : conn'[s][q] # c
  <2> SUFFICES ASSUME NEW s \in Rank, NEW q \in Rank, conn[s][q] = c PROVE FALSE
    BY <1>2
  <2>1. c # None
    BY <1>1
  <2> QED
    BY <1>3, <2>1 DEF Ends
<1>8. ASSUME NEW d \in Conn, NEW s \in Rank, <<d, s>> \in open'
      PROVE  IsEnd(d, s)' /\ (Pending(d, s)' \/ conn'[s][Other(d, s)'] = d)
  <2>1. CASE d = c
    BY <1>6, <1>8, <2>1
  <2>2. CASE d # c
    BY <1>2, <1>5, <1>8, <2>2 DEF Ends
  <2> QED
    BY <2>1, <2>2
<1>9. ASSUME NEW d \in Conn, NEW s \in Rank, IsEnd(d, s)', Pending(d, s)'
      PROVE  <<d, s>> \in open' /\ conn'[s][Other(d, s)'] # d
  <2>1. CASE d = c
    BY <1>6, <1>7, <1>9, <2>1
  <2>2. CASE d # c
    BY <1>2, <1>5, <1>9, <2>2 DEF Ends
  <2> QED
    BY <2>1, <2>2
<1>10. ASSUME NEW s \in Rank, NEW q \in Rank, conn'[s][q] # None
       PROVE  (<<conn[s][q], s>> \in open /\ Other(conn[s][q], s) = q)'
  <2>1. PICK d \in Conn : d = conn[s][q] /\ d = conn'[s][q]
    BY <1>2, <1>10 DEF TypeOK
  <2>2. <<d, s>> \in open /\ Other(d, s) = q /\ d # c
    BY <1>2, <1>7, <1>10, <2>1 DEF Ends
  <2>3. IsEnd(d, s)
    BY <2>2 DEF Ends
  <2>4. pair'[d] = pair[d] /\ <<d, s>> \in open'
    BY <1>5, <2>2, <2>3
  <2> QED
    BY <2>1, <2>2, <2>4 DEF Other
<1>11. Ends'
  BY <1>8, <1>9, <1>10 DEF Ends
<1>12. ASSUME NEW d \in Conn, NEW s \in Rank
       PROVE  fd'[<<d, s>>] # 0 <=> <<d, s>> \in open' /\ (pair'[d][1] = s \/ ~Pending(d, s)')
  <2>1. CASE d = c
    <3>1. pair'[c][1] = r
      BY <1>1
    <3> QED
      BY <1>1, <1>4, <1>6, <2>1, <3>1
  <2>2. CASE d # c
    <3>1. fd[<<d, s>>] # 0 <=> <<d, s>> \in open /\ (pair[d][1] = s \/ ~Pending(d, s))
      BY DEF Descriptors
    <3>2. <<d, s>> \in open => IsEnd(d, s)
      BY DEF Ends
    <3> QED
      BY <1>5, <2>2, <3>1, <3>2
  <2> QED
    BY <2>1, <2>2
<1>13. ASSUME NEW d \in Conn, NEW b \in Conn, NEW s \in Rank, fd'[<<d, s>>] = fd'[<<b, s>>], fd'[<<d, s>>] # 0
       PROVE  d = b
  <2>1. \A x \in Conn : x # c => fd'[<<x, s>>] = fd[<<x, s>>]
    BY <1>5
  <2>2. fd'[<<c, s>>] = IF s = r THEN FreeFd(r) ELSE 0
    BY <1>6
  <2>3. CASE d = c
    BY <1>4, <1>13, <2>1, <2>2, <2>3
  <2>4. CASE d # c
    <3>1. CASE b = c
      BY <1>4, <1>13, <2>1, <2>2, <2>4, <3>1
    <3>2. CASE b # c
      BY <1>13, <2>1, <2>4, <3>2 DEF Descriptors
    <3> QED
      BY <3>1, <3>2
  <2> QED
    BY <2>3, <2>4
<1> QED
  BY <1>11, <1>12, <1>13 DEF Descriptors

----------------------------------------------------------------------------
(***************************************************************************)
(* The numbers of the connections, and their order in the queues           *)
(***************************************************************************)
LEMMA DialDialed ==
    ASSUME TypeOK, Dialed, NEW r \in Rank, NEW p \in Rank, Dial(r, p)
    PROVE  Dialed'
<1>0. PICK c \in Conn : c = Len(pair) + 1
  BY DialFacts
<1>1. Len(pair) \in Nat
  BY DEF TypeOK
<1>2. /\ r # p /\ <<r, p>> \in Dials /\ Len(pair') = c
      /\ pair'[c] = <<r, p>> /\ \A d \in 1 .. Len(pair) : pair'[d] = pair[d]
  BY <1>0, DialFacts
<1>3. dialing' = dialing \cup {c} /\ backlog' = [backlog EXCEPT ![p] = Append(@, c)]
  BY <1>0 DEF Dial
<1>4. \A d \in 1 .. Len(pair') : d = c \/ d \in 1 .. Len(pair)
  BY <1>0, <1>1, <1>2
<1>5. \A d \in 1 .. Len(pair') : pair'[d] \in Dials
  BY <1>2, <1>4 DEF Dialed
<1>6. \A d \in dialing' : d <= Len(pair')
  BY <1>0, <1>1, <1>2, <1>3 DEF Dialed, TypeOK, Conn
<1>7. ASSUME NEW s \in Rank
      PROVE  /\ \A i \in 1 .. Len(backlog'[s]) : backlog'[s][i] <= Len(pair') /\ pair'[backlog'[s][i]][2] = s
             /\ \A i, j \in 1 .. Len(backlog'[s]) : i < j => backlog'[s][i] < backlog'[s][j]
  <2> DEFINE q == backlog[s]
  <2>1. q \in Seq(Conn) /\ Len(q) \in Nat
    BY DEF TypeOK
  <2>2. \A i \in 1 .. Len(q) : q[i] \in 1 .. Len(pair) /\ q[i] < c /\ q[i] <= Len(pair') /\ pair'[q[i]][2] = s
    <3> SUFFICES ASSUME NEW i \in 1 .. Len(q)
                 PROVE  q[i] \in 1 .. Len(pair) /\ q[i] < c /\ q[i] <= Len(pair') /\ pair'[q[i]][2] = s
      OBVIOUS
    <3>1. q[i] \in Conn /\ q[i] <= Len(pair) /\ pair[q[i]][2] = s
      BY <2>1 DEF Dialed
    <3>2. q[i] \in 1 .. Len(pair) /\ q[i] < c /\ q[i] <= Len(pair')
      BY <1>0, <1>1, <1>2, <3>1 DEF Conn
    <3> QED
      BY <1>2, <3>1, <3>2
  <2>3. \A i, j \in 1 .. Len(q) : i < j => q[i] < q[j]
    BY DEF Dialed
  <2>4. CASE s # p
    <3>1. backlog'[s] = q
      BY <1>3, <2>4 DEF TypeOK
    <3> QED
      BY <2>2, <2>3, <3>1
  <2>5. CASE s = p
    <3>1. backlog'[s] = Append(q, c)
      BY <1>3, <2>5 DEF TypeOK
    <3>2. /\ Len(Append(q, c)) = Len(q) + 1
          /\ Append(q, c)[Len(q) + 1] = c /\ \A i \in 1 .. Len(q) : Append(q, c)[i] = q[i]
      BY <2>1
    <3> DEFINE a == Append(q, c)
    <3> HIDE DEF a, q
    <3>3. \A i \in 1 .. Len(a) : i \in 1 .. Len(q) \/ i = Len(q) + 1
      BY <2>1, <3>2 DEF a
    <3>4. ASSUME NEW i \in 1 .. Len(a) PROVE a[i] <= Len(pair') /\ pair'[a[i]][2] = s
      <4>1. CASE i \in 1 .. Len(q)
        BY <2>2, <3>2, <4>1 DEF a
      <4>2. CASE i = Len(q) + 1
        <5>1. a[i] = c
          BY <3>2, <4>2 DEF a
        <5> QED
          BY <1>0, <1>1, <1>2, <2>5, <5>1
      <4> QED
        BY <3>3, <4>1, <4>2
    <3>5. ASSUME NEW i \in 1 .. Len(a), NEW j \in 1 .. Len(a), i < j PROVE a[i] < a[j]
      <4>1. i \in 1 .. Len(q) /\ a[i] = q[i]
        BY <2>1, <3>2, <3>5 DEF a
      <4>2. CASE j \in 1 .. Len(q)
        BY <2>3, <3>2, <3>5, <4>1, <4>2 DEF a
      <4>3. CASE j = Len(q) + 1
        BY <2>2, <3>2, <4>1, <4>3 DEF a
      <4> QED
        BY <3>3, <4>2, <4>3
    <3> QED
      BY <3>1, <3>4, <3>5 DEF a
  <2> QED
    BY <2>4, <2>5
<1> QED
  BY <1>5, <1>6, <1>7 DEF Dialed

LEMMA OthersDialed ==
    ASSUME TypeOK, Dialed, pair' = pair, dialing' \subseteq dialing,
           \A s \in Rank : \/ backlog'[s] = backlog[s]
                           \/ backlog'[s] = <<>>
                           \/ backlog[s] # <<>> /\ backlog'[s] = Tail(backlog[s])
    PROVE  Dialed'
<1>1. ASSUME NEW s \in Rank
      PROVE  /\ \A i \in 1 .. Len(backlog'[s]) : backlog'[s][i] <= Len(pair') /\ pair'[backlog'[s][i]][2] = s
             /\ \A i, j \in 1 .. Len(backlog'[s]) : i < j => backlog'[s][i] < backlog'[s][j]
  <2> DEFINE q == backlog[s]
  <2>1. q \in Seq(Conn) /\ Len(q) \in Nat
    BY DEF TypeOK
  <2>2. /\ \A i \in 1 .. Len(q) : q[i] <= Len(pair) /\ pair[q[i]][2] = s
        /\ \A i, j \in 1 .. Len(q) : i < j => q[i] < q[j]
    BY DEF Dialed
  <2>3. CASE backlog'[s] = q
    BY <2>2, <2>3
  <2>4. CASE backlog'[s] = <<>>
    <3>1. Len(backlog'[s]) = 0
      BY <2>4
    <3> QED
      BY <3>1
  <2>5. CASE q # <<>> /\ backlog'[s] = Tail(q)
    <3>1. Len(Tail(q)) = Len(q) - 1 /\ \A i \in 1 .. Len(q) - 1 : Tail(q)[i] = q[i + 1]
      BY <2>1, <2>5
    <3> DEFINE t == Tail(q)
    <3> HIDE DEF t, q
    <3>2. \A i \in 1 .. Len(t) : i + 1 \in 1 .. Len(q) /\ t[i] = q[i + 1]
      BY <2>1, <3>1 DEF t
    <3>3. \A i, j \in 1 .. Len(t) : i < j => i + 1 < j + 1
      OBVIOUS
    <3> QED
      BY <2>2, <2>5, <3>2, <3>3 DEF t
  <2> QED
    BY <2>3, <2>4, <2>5
<1>2. \A c \in 1 .. Len(pair') : pair'[c] \in Dials
  BY DEF Dialed
<1>3. \A c \in dialing' : c <= Len(pair')
  BY DEF Dialed
<1> QED
  BY <1>1, <1>2, <1>3 DEF Dialed

----------------------------------------------------------------------------
(***************************************************************************)
(* Types                                                                   *)
(***************************************************************************)
LEMMA RegisterType ==
    ASSUME TypeOK, NEW r \in Rank, NEW p \in Rank, NEW c \in Conn, NEW n \in 1 .. MaxConns,
           Register(r, p, c, n)
    PROVE  /\ conn' \in [Rank -> [Rank -> Conn \cup {None}]]
           /\ open' \subseteq End
           /\ fd' \in [End -> 0 .. MaxConns]
<1>0. conn \in [Rank -> [Rank -> Conn \cup {None}]] /\ open \subseteq End /\ fd \in [End -> 0 .. MaxConns]
  BY DEF TypeOK
<1>1. CASE conn[r][p] = None
  <2>1. conn' = [conn EXCEPT ![r][p] = c] /\ fd' = [fd EXCEPT ![<<c, r>>] = n] /\ open' = open
    BY <1>1 DEF Register
  <2>2. n \in 0 .. MaxConns
    OBVIOUS
  <2>3. fd' \in [End -> 0 .. MaxConns]
    BY <1>0, <2>1, <2>2
  <2>4. conn' \in [Rank -> [Rank -> Conn \cup {None}]]
    BY <1>0, <2>1
  <2> QED
    BY <1>0, <2>1, <2>3, <2>4
<1>2. CASE conn[r][p] # None
  <2>1. conn' = conn /\ open' \subseteq open
    BY <1>2 DEF Register, CloseEnds
  <2>2. fd' = [e \in End |-> IF e[2] = r /\ e[1] \in {c} THEN 0 ELSE fd[e]]
    BY <1>2 DEF Register, CloseEnds
  <2>3. fd' \in [End -> 0 .. MaxConns]
    BY <1>0, <2>2
  <2> QED
    BY <1>0, <2>1, <2>3
<1> QED
  BY <1>1, <1>2

LEMMA StartType == ASSUME TypeOK, NEW r \in Rank, Start(r) PROVE TypeOK'
  BY DEF TypeOK, Start

LEMMA CloseCtrlType == ASSUME TypeOK, NEW r \in Rank, CloseCtrl(r) PROVE TypeOK'
<1>1. open' \subseteq End /\ fd' \in [End -> 0 .. MaxConns]
  BY DEF TypeOK, CloseCtrl, CloseEnds
<1>2. backlog' \in [Rank -> Seq(Conn)]
  BY DEF TypeOK, CloseCtrl
<1>3. conn' \in [Rank -> [Rank -> Conn \cup {None}]] /\ listening' \in [Rank -> BOOLEAN]
  BY DEF TypeOK, CloseCtrl
<1>4. hungUp' \subseteq SUBSET Rank
  <2>1. hungUp \subseteq SUBSET Rank /\ hungUp' = hungUp \cup {{r, p} : p \in Rank}
    BY DEF TypeOK, CloseCtrl
  <2> SUFFICES ASSUME NEW x \in hungUp' PROVE x \in SUBSET Rank
    OBVIOUS
  <2>2. CASE x \in hungUp
    BY <2>1, <2>2
  <2>3. CASE x \in {{r, p} : p \in Rank}
    <3>1. PICK p \in Rank : x = {r, p}
      BY <2>3
    <3> QED
      BY <3>1
  <2> QED
    BY <2>1, <2>2, <2>3
<1> QED
  BY <1>1, <1>2, <1>3, <1>4 DEF TypeOK, CloseCtrl

LEMMA CloseType == ASSUME TypeOK, NEW r \in Rank, NEW p \in Rank, Close(r, p) PROVE TypeOK'
<1>1. open' \subseteq End /\ fd' \in [End -> 0 .. MaxConns]
  BY DEF TypeOK, Close, CloseEnds
<1>2. conn' \in [Rank -> [Rank -> Conn \cup {None}]]
  BY DEF TypeOK, Close
<1>3. hungUp' \subseteq SUBSET Rank
  BY DEF TypeOK, Close
<1> QED
  BY <1>1, <1>2, <1>3 DEF TypeOK, Close

LEMMA DialType == ASSUME Held, NEW r \in Rank, NEW p \in Rank, Dial(r, p) PROVE TypeOK'
<1> USE DEF Held
<1>0. PICK c \in Conn : c = Len(pair) + 1
  BY DialFacts
<1>1. pair' \in Seq(Rank \X Rank) /\ Len(pair') <= MaxConns
  <2>1. pair' \in Seq(Rank \X Rank) /\ Len(pair') = c
    BY <1>0, DialFacts
  <2> QED
    BY <2>1 DEF Conn
<1>2. fd[<<c, r>>] = 0
  <2>1. ~IsEnd(c, r)
    BY <1>0 DEF IsEnd, TypeOK
  <2> QED
    BY <2>1 DEF Ends, Descriptors
<1>3. FreeFd(r) \in 1 .. MaxConns
  BY <1>2, FreeFdFacts
<1>4. fd' \in [End -> 0 .. MaxConns]
  <2>1. fd \in [End -> 0 .. MaxConns] /\ fd' = [fd EXCEPT ![<<c, r>>] = FreeFd(r)]
    BY <1>0 DEF TypeOK, Dial
  <2>2. FreeFd(r) \in 0 .. MaxConns
    BY <1>3
  <2> QED
    BY <2>1, <2>2
<1>5. backlog' \in [Rank -> Seq(Conn)]
  BY <1>0 DEF TypeOK, Dial
<1>6. dialing' \subseteq Conn /\ open' \subseteq End
  <2>1. dialing' = dialing \cup {c} /\ open' = open \cup {<<c, r>>, <<c, p>>}
    BY <1>0 DEF Dial
  <2> QED
    BY <2>1 DEF TypeOK, End
<1> QED
  BY <1>1, <1>4, <1>5, <1>6 DEF TypeOK, Dial

LEMMA DialRegisterType == ASSUME Held, NEW c \in Conn, DialRegister(c) PROVE TypeOK'
<1> USE DEF Held
<1> DEFINE r == pair[c][1]
           p == pair[c][2]
<1>1. r \in Rank /\ p \in Rank /\ fd[<<c, r>>] \in 1 .. MaxConns /\ Register(r, p, c, fd[<<c, r>>])
  BY DialRegisterSettles DEF Settles
<1>2. /\ conn' \in [Rank -> [Rank -> Conn \cup {None}]]
      /\ open' \subseteq End
      /\ fd' \in [End -> 0 .. MaxConns]
  BY <1>1, RegisterType
<1> QED
  BY <1>2 DEF TypeOK, DialRegister

LEMMA AcceptType == ASSUME Held, NEW r \in Rank, Accept(r) PROVE TypeOK'
<1> USE DEF Held
<1> DEFINE c == Head(backlog[r])
<1>1. c \in Conn /\ pair[c][1] \in Rank /\ FreeFd(r) \in 1 .. MaxConns /\ Register(r, pair[c][1], c, FreeFd(r))
  BY AcceptSettles DEF Settles
<1>2. /\ conn' \in [Rank -> [Rank -> Conn \cup {None}]]
      /\ open' \subseteq End
      /\ fd' \in [End -> 0 .. MaxConns]
  BY <1>1, RegisterType
<1>3. backlog' \in [Rank -> Seq(Conn)]
  BY HeadFacts DEF TypeOK, Accept
<1> QED
  BY <1>2, <1>3 DEF TypeOK, Accept

\* A registered socket has a descriptor.
LEMMA RegisteredHasFd ==
    ASSUME Held, NEW r \in Rank, NEW p \in Rank, conn[r][p] # None
    PROVE  /\ conn[r][p] \in Conn /\ <<conn[r][p], r>> \in open /\ IsEnd(conn[r][p], r)
           /\ Other(conn[r][p], r) = p /\ ~Pending(conn[r][p], r)
           /\ fd[<<conn[r][p], r>>] \in 1 .. MaxConns
           /\ \A d \in Conn : fd[<<d, r>>] = fd[<<conn[r][p], r>>] => d = conn[r][p]
<1> USE DEF Held
<1>1. PICK c \in Conn : c = conn[r][p]
  BY DEF TypeOK
<1>2. <<c, r>> \in open /\ Other(c, r) = p
  BY <1>1 DEF Ends
<1>3. IsEnd(c, r) /\ ~Pending(c, r)
  BY <1>1, <1>2 DEF Ends
<1>4. fd[<<c, r>>] # 0 /\ fd[<<c, r>>] \in 0 .. MaxConns
  BY <1>2, <1>3 DEF Descriptors, TypeOK, End
<1>5. fd[<<c, r>>] \in 1 .. MaxConns
  BY <1>4
<1>6. \A d \in Conn : fd[<<d, r>>] = fd[<<c, r>>] => d = c
  BY <1>4 DEF Descriptors
<1> QED
  BY <1>1, <1>2, <1>3, <1>5, <1>6

LEMMA SendAllType ==
    ASSUME TypeOK, NEW r \in Rank, NEW n, NEW part \in {"header", "payload"}, NEW m \in Msg,
           SendAll(r, n, part, m)
    PROVE  chan' \in [End -> Seq(Token)]
<1>1. [part |-> part, msg |-> m] \in Token
  BY DEF Token
<1> QED
  BY <1>1 DEF SendAll, TypeOK

LEMMA SendHeaderType ==
    ASSUME Held, NEW r \in Rank, NEW w \in Writer, NEW p \in Rank, SendHeader(r, w, p)
    PROVE  TypeOK'
<1> DEFINE n == fd[<<conn[r][p], r>>]
<1>1. n \in 1 .. MaxConns
  BY RegisteredHasFd DEF SendHeader
<1>2. TypeOK /\ msgs + 1 \in Msg
  BY DEF Held, TypeOK, SendHeader, Msg
<1>3. SendAll(r, n, "header", msgs + 1)
  BY DEF SendHeader
<1>4. chan' \in [End -> Seq(Token)]
  <2> HIDE DEF n
  <2> QED
    BY <1>2, <1>3, SendAllType
<1>5. writing' \in [Rank -> [Writer -> {<<>>} \cup (Rank \X (1 .. MaxConns) \X Msg)]]
  <2>1. <<p, n, msgs + 1>> \in Rank \X (1 .. MaxConns) \X Msg
    BY <1>1, <1>2
  <2> HIDE DEF n
  <2>2. writing' = writing \/ writing' = [writing EXCEPT ![r][w] = <<p, n, msgs + 1>>]
    BY DEF SendHeader, n
  <2> QED
    <3> DEFINE T == {<<>>} \cup (Rank \X (1 .. MaxConns) \X Msg)
               m == <<p, n, msgs + 1>>
    <3>1. writing \in [Rank -> [Writer -> T]] /\ m \in T
      BY <1>2, <2>1 DEF TypeOK
    <3> HIDE DEF T, m
    <3>2. writing' = writing \/ writing' = [writing EXCEPT ![r][w] = m]
      BY <2>2 DEF m
    <3>3. writing' \in [Rank -> [Writer -> T]]
      BY <3>1, <3>2
    <3> QED
      BY <3>3 DEF T
<1>6. msgs' \in 0 .. MaxMsgs
  BY <1>2 DEF SendHeader, Msg
<1> QED
  BY <1>2, <1>4, <1>5, <1>6 DEF TypeOK, SendHeader

LEMMA SendPayloadType ==
    ASSUME TypeOK, NEW r \in Rank, NEW w \in Writer, SendPayload(r, w)
    PROVE  TypeOK'
<1>1. writing[r][w] \in Rank \X (1 .. MaxConns) \X Msg
  BY DEF TypeOK, SendPayload
<1>2. chan' \in [End -> Seq(Token)]
  BY <1>1, SendAllType DEF SendPayload
<1>3. writing' \in [Rank -> [Writer -> {<<>>} \cup (Rank \X (1 .. MaxConns) \X Msg)]]
  BY DEF TypeOK, SendPayload
<1> QED
  BY <1>2, <1>3 DEF TypeOK, SendPayload

LEMMA RecvType ==
    ASSUME TypeOK, NEW r \in Rank, NEW p \in Rank, Recv(r, p)
    PROVE  TypeOK'
<1>1. PICK c \in Conn : c = conn[r][p]
  BY DEF TypeOK, Recv
<1> DEFINE q == chan[<<c, r>>]
<1>2. q \in Seq(Token) /\ Len(q) >= 2 /\ <<c, r>> \in End
  BY <1>1 DEF TypeOK, Recv, End
<1>3. SubSeq(q, 1, 2) \in Seq(Token) /\ SubSeq(q, 3, Len(q)) \in Seq(Token)
  BY <1>2
<1>4. frames' = frames \cup {SubSeq(q, 1, 2)} /\ chan' = [chan EXCEPT ![<<c, r>>] = SubSeq(q, 3, Len(q))]
  BY <1>1 DEF Recv
<1> HIDE DEF q
<1>5. frames' \subseteq Seq(Token) /\ chan' \in [End -> Seq(Token)]
  BY <1>2, <1>3, <1>4 DEF TypeOK
<1> QED
  BY <1>5 DEF TypeOK, Recv

----------------------------------------------------------------------------
LEMMA InitHeld == Init => Held
<1> SUFFICES ASSUME Init PROVE Held
  OBVIOUS
<1>1. pair = <<>> /\ Len(pair) = 0 /\ open = {} /\ dialing = {}
  BY DEF Init
<1>2. \A r \in Rank : backlog[r] = <<>> /\ Len(backlog[r]) = 0
  BY DEF Init
<1>3. \A c \in Conn, r \in Rank : fd[<<c, r>>] = 0
  BY DEF Init, End
<1>4. \A r, p \in Rank : conn[r][p] = None
  BY DEF Init
<1>5. TypeOK
  BY DEF Init, TypeOK
<1>6. \A c, r : ~IsEnd(c, r)
  BY <1>1 DEF IsEnd
<1>7. Dialed
  BY <1>1, <1>2 DEF Dialed
<1>8. Ends
  BY <1>1, <1>4, <1>6 DEF Ends
<1>9. Descriptors
  BY <1>1, <1>3 DEF Descriptors
<1> QED
  BY <1>5, <1>7, <1>8, <1>9 DEF Held

\* Steps that neither make, take, register nor close a connection.
LEMMA QuietHeld ==
    ASSUME Held, TypeOK', UNCHANGED <<pair, dialing, backlog, conn, open, fd>>
    PROVE  Held'
<1> USE DEF Held
<1>1. Dialed'
  BY OthersDialed
<1>2. \A c, r : (IsEnd(c, r)' <=> IsEnd(c, r)) /\ Other(c, r)' = Other(c, r) /\ (Pending(c, r)' <=> Pending(c, r))
  BY DEF IsEnd, Other, Pending, Queued
<1>3. Ends'
  BY DEF Ends, IsEnd, Other, Pending, Queued
<1>4. Descriptors'
  BY <1>2 DEF Descriptors
<1> QED
  BY <1>1, <1>3, <1>4

LEMMA NextHeld == Held /\ [Next]_vars => Held'
<1> SUFFICES ASSUME Held, [Next]_vars PROVE Held'
  OBVIOUS
<1>0. TypeOK /\ Dialed /\ Ends /\ Descriptors
  BY DEF Held
<1>1. ASSUME NEW r \in Rank, Start(r) PROVE Held'
  BY <1>0, <1>1, StartType, QuietHeld DEF Start
<1>2. ASSUME NEW r \in Rank, CloseCtrl(r) PROVE Held'
  <2> DEFINE cs == Queued(r) \cup Registered(r)
  <2>1. cs \in SUBSET Conn /\ Closes(r, cs)
    BY <1>0, <1>2, CloseCtrlCloses
  <2> HIDE DEF cs
  <2>2. Ends' /\ Descriptors'
    BY <1>0, <2>1, ClosesEnds, ClosesDescriptors
  <2>3. pair' = pair /\ dialing' = dialing /\ \A s \in Rank : backlog'[s] = backlog[s] \/ backlog'[s] = <<>>
    BY <1>0, <1>2 DEF CloseCtrl, TypeOK
  <2>4. Dialed'
    BY <1>0, <2>3, OthersDialed
  <2> QED
    BY <1>0, <1>2, <2>2, <2>4, CloseCtrlType DEF Held
<1>3. ASSUME NEW r \in Rank, Accept(r) PROVE Held'
  <2>1. PICK c \in Conn : c = Head(backlog[r])
    BY <1>0, <1>3, AcceptSettles
  <2>2. pair[c][1] \in Rank /\ Settles(r, pair[c][1], c, FreeFd(r))
    BY <1>0, <1>3, <2>1, AcceptSettles
  <2>3. Ends' /\ Descriptors'
    BY <1>0, <2>2, SettlesEnds, SettlesDescriptors
  <2>4. /\ pair' = pair /\ dialing' = dialing
        /\ \A s \in Rank : backlog'[s] = backlog[s] \/ (backlog[s] # <<>> /\ backlog'[s] = Tail(backlog[s]))
    BY <1>0, <1>3 DEF Accept, TypeOK
  <2>5. Dialed'
    BY <1>0, <2>4, OthersDialed
  <2> QED
    BY <1>3, <2>3, <2>5, AcceptType DEF Held
<1>4. ASSUME NEW c \in Conn, DialRegister(c) PROVE Held'
  <2>1. pair[c][1] \in Rank /\ pair[c][2] \in Rank /\ Settles(pair[c][1], pair[c][2], c, fd[<<c, pair[c][1]>>])
    BY <1>0, <1>4, DialRegisterSettles
  <2>2. Ends' /\ Descriptors'
    BY <1>0, <2>1, SettlesEnds, SettlesDescriptors
  <2>3. pair' = pair /\ dialing' \subseteq dialing /\ backlog' = backlog
    BY <1>4 DEF DialRegister
  <2>4. Dialed'
    BY <1>0, <2>3, OthersDialed
  <2> QED
    BY <1>4, <2>2, <2>4, DialRegisterType DEF Held
<1>5. ASSUME NEW r \in Rank, NEW p \in Rank, Dial(r, p) PROVE Held'
  BY <1>0, <1>5, DialEnds, DialDialed, DialType DEF Held
<1>6. ASSUME NEW r \in Rank, NEW p \in Rank, Close(r, p) PROVE Held'
  <2>1. {conn[r][p]} \in SUBSET Conn /\ Closes(r, {conn[r][p]})
    BY <1>0, <1>6, CloseCloses
  <2>2. Ends' /\ Descriptors'
    BY <1>0, <2>1, ClosesEnds, ClosesDescriptors
  <2>3. pair' = pair /\ dialing' = dialing /\ backlog' = backlog
    BY <1>6 DEF Close
  <2>4. Dialed'
    BY <1>0, <2>3, OthersDialed
  <2> QED
    BY <1>0, <1>6, <2>2, <2>4, CloseType DEF Held
<1>7. ASSUME NEW r \in Rank, NEW p \in Rank, Recv(r, p) PROVE Held'
  BY <1>0, <1>7, RecvType, QuietHeld DEF Recv
<1>8. ASSUME NEW r \in Rank, NEW p \in Rank, NEW w \in Writer, SendHeader(r, w, p) PROVE Held'
  BY <1>8, SendHeaderType, QuietHeld DEF SendHeader
<1>9. ASSUME NEW r \in Rank, NEW w \in Writer, SendPayload(r, w) PROVE Held'
  BY <1>0, <1>9, SendPayloadType, QuietHeld DEF SendPayload
<1>10. CASE UNCHANGED vars
  <2>1. TypeOK'
    BY <1>0, <1>10 DEF vars, TypeOK
  <2> QED
    BY <1>10, <2>1, QuietHeld DEF vars
<1> QED
  BY <1>1, <1>2, <1>3, <1>4, <1>5, <1>6, <1>7, <1>8, <1>9, <1>10 DEF Next

LEMMA SpecHeld == Spec => []Held
  BY InitHeld, NextHeld, PTL DEF Spec

\* Every variable keeps its type, whoever dials whom and whether or not calls
\* overlap; in particular a new socket always finds a free descriptor.
THEOREM CtrlTypeCorrect == Spec => []TypeOK
<1>1. Held => TypeOK
  BY DEF Held
<1> QED
  BY <1>1, SpecHeld, PTL

\* No socket is leaked and none is closed under its owner, for every set of
\* ranks, whoever dials whom and whether or not calls overlap: an open end is
\* registered, or pending at the connect call or the accept thread.
THEOREM SocketsHaveOneOwner == Spec => []EndsOwned
<1>1. Held => EndsOwned
  <2> SUFFICES ASSUME Held, NEW e \in open
               PROVE  Pending(e[1], e[2]) # (conn[e[2]][Other(e[1], e[2])] = e[1])
    BY DEF EndsOwned, Pending
  <2>1. PICK c \in Conn, r \in Rank : e = <<c, r>>
    <3>1. e \in Conn \X Rank
      BY DEF Held, TypeOK, End
    <3>2. e = <<e[1], e[2]>> /\ e[1] \in Conn /\ e[2] \in Rank
      BY <3>1
    <3> QED
      BY <3>2, Zenon
  <2>2. IsEnd(c, r) /\ (Pending(c, r) \/ conn[r][Other(c, r)] = c)
    BY <2>1 DEF Held, Ends
  <2>3. Pending(c, r) => conn[r][Other(c, r)] # c
    BY <2>2 DEF Held, Ends
  <2> QED
    BY <2>1, <2>2, <2>3 DEF Pending
<1> QED
  BY <1>1, SpecHeld, PTL

----------------------------------------------------------------------------
(***************************************************************************)
(* Both ranks keep the first connection                                    *)
(***************************************************************************)
\* A step keeps First when it changes no entry of a pair that has not hung up.
LEMMA SameFirst ==
    ASSUME First, pair' = pair, dialing' \subseteq dialing, hungUp \subseteq hungUp',
           \A c \in Conn, r \in Rank : IsEnd(c, r) /\ {r, Other(c, r)} \notin hungUp' =>
               /\ conn'[r][Other(c, r)] = conn[r][Other(c, r)]
               /\ Pending(c, r)' <=> Pending(c, r)
    PROVE  First'
<1>1. \A c, r : (IsEnd(c, r)' <=> IsEnd(c, r)) /\ Other(c, r)' = Other(c, r)
  BY DEF IsEnd, Other
<1>2. ASSUME NEW c \in Conn, NEW r \in Rank, IsEnd(c, r)', {r, Other(c, r)'} \notin hungUp'
      PROVE  /\ conn'[r][Other(c, r)'] = None => Pending(c, r)'
             /\ conn'[r][Other(c, r)'] = c => \A d \in 1 .. Len(pair') : pair'[d] = pair'[c] => c <= d
  <2>1. IsEnd(c, r) /\ {r, Other(c, r)} \notin hungUp' /\ {r, Other(c, r)} \notin hungUp
    BY <1>1, <1>2
  <2>2. conn'[r][Other(c, r)] = conn[r][Other(c, r)] /\ (Pending(c, r)' <=> Pending(c, r))
    BY <2>1
  <2> QED
    BY <1>1, <2>1, <2>2 DEF First
<1>3. \A c, d \in dialing' : pair'[c] = pair'[d] => c = d
  BY DEF First
<1> QED
  BY <1>2, <1>3 DEF First

\* The end that is registered is the first pending one of its pair: connect calls
\* for a peer follow each other, and the accept thread takes them in their order.
LEMMA SettlesFirst ==
    ASSUME Held, First, NEW r \in Rank, NEW p \in Rank, NEW c \in Conn, NEW n,
           Settles(r, p, c, n), dialing' \subseteq dialing, hungUp' = hungUp,
           \A d \in Conn : IsEnd(d, r) /\ pair[d] = pair[c] /\ Pending(d, r) => c <= d
    PROVE  First'
<1> USE DEF Held
<1>1. /\ pair' = pair /\ IsEnd(c, r) /\ p = Other(c, r) /\ Pending(c, r) /\ Register(r, p, c, n)
      /\ \A d \in Conn, s \in Rank : IsEnd(d, s) =>
             (Pending(d, s)' <=> Pending(d, s) /\ ~(d = c /\ s = r))
  BY DEF Settles
<1>2. \A d, s : (IsEnd(d, s)' <=> IsEnd(d, s)) /\ Other(d, s)' = Other(d, s)
  BY <1>1 DEF IsEnd, Other
<1>3. \A s, q \in Rank : conn'[s][q] = IF s = r /\ q = p /\ conn[r][p] = None THEN c ELSE conn[s][q]
  <2>1. conn \in [Rank -> [Rank -> Conn \cup {None}]]
    BY DEF TypeOK
  <2>2. conn' = IF conn[r][p] = None THEN [conn EXCEPT ![r][p] = c] ELSE conn
    BY <1>1 DEF Register
  <2> QED
    BY <2>1, <2>2
<1>4. c # None
  BY DEF Conn
<1>5. ASSUME NEW d \in Conn, NEW s \in Rank, IsEnd(d, s)', {s, Other(d, s)'} \notin hungUp'
      PROVE  /\ conn'[s][Other(d, s)'] = None => Pending(d, s)'
             /\ conn'[s][Other(d, s)'] = d => \A b \in 1 .. Len(pair') : pair'[b] = pair'[d] => d <= b
  <2>1. IsEnd(d, s) /\ {s, Other(d, s)} \notin hungUp /\ Other(d, s)' = Other(d, s)
    BY <1>2, <1>5
  <2>2. Other(d, s) \in Rank
    BY <2>1, EndFacts
  <2>3. /\ conn[s][Other(d, s)] = None => Pending(d, s)
        /\ conn[s][Other(d, s)] = d => \A b \in 1 .. Len(pair) : pair[b] = pair[d] => d <= b
    BY <2>1 DEF First
  <2>4. CASE s = r /\ Other(d, s) = p /\ conn[r][p] = None
    <3>1. conn'[s][Other(d, s)] = c
      BY <1>3, <2>2, <2>4
    <3>2. ASSUME d = c, NEW b \in 1 .. Len(pair), pair[b] = pair[c] PROVE c <= b
      <4>1. b \in Conn /\ IsEnd(b, r) /\ Other(b, r) = p
        BY <1>1, <3>2 DEF IsEnd, Other, TypeOK, Conn
      <4>2. Pending(b, r)
        BY <2>1, <2>4, <4>1 DEF First
      <4> QED
        BY <3>2, <4>1, <4>2
    <3> QED
      BY <1>1, <1>4, <2>1, <3>1, <3>2
  <2>5. CASE ~(s = r /\ Other(d, s) = p /\ conn[r][p] = None)
    <3>1. conn'[s][Other(d, s)] = conn[s][Other(d, s)]
      BY <1>3, <2>2, <2>5
    <3>2. d = c /\ s = r => conn[s][Other(d, s)] # None
      BY <1>1, <2>5
    <3> QED
      BY <1>1, <2>1, <2>3, <3>1, <3>2
  <2> QED
    BY <2>4, <2>5
<1>6. \A b, d \in dialing' : pair'[b] = pair'[d] => b = d
  BY <1>1 DEF First
<1> QED
  BY <1>5, <1>6 DEF First

LEMMA DialFirst ==
    ASSUME Serial, Held, First, NEW r \in Rank, NEW p \in Rank, Dial(r, p)
    PROVE  First'
<1> USE DEF Held
<1>0. PICK c \in Conn : c = Len(pair) + 1
  BY DialFacts
<1>1. Len(pair) \in Nat
  BY DEF TypeOK
<1>2. /\ r # p /\ Len(pair') = c
      /\ pair'[c] = <<r, p>> /\ \A d \in 1 .. Len(pair) : pair'[d] = pair[d]
      /\ \A s \in Rank : Queued(s)' = IF s = p THEN Queued(s) \cup {c} ELSE Queued(s)
  BY <1>0, DialFacts
<1>3. /\ dialing' = dialing \cup {c} /\ conn' = conn /\ hungUp' = hungUp
      /\ \A d \in dialing : pair[d] # <<r, p>>
  BY <1>0 DEF Dial
<1>4. ASSUME NEW d \in dialing PROVE d \in 1 .. Len(pair) /\ d # c /\ pair'[d] = pair[d]
  <2>1. d \in Conn /\ d <= Len(pair)
    BY DEF Dialed, TypeOK
  <2>2. d \in 1 .. Len(pair)
    BY <1>1, <2>1 DEF Conn
  <2> QED
    BY <1>0, <1>1, <1>2, <2>2
<1>5. \A b, d \in dialing' : pair'[b] = pair'[d] => b = d
  BY <1>2, <1>3, <1>4 DEF First
<1>6. \A s, q \in Rank : conn[s][q] # c
  <2> SUFFICES ASSUME NEW s \in Rank, NEW q \in Rank, conn[s][q] = c PROVE FALSE
    OBVIOUS
  <2>1. conn[s][q] # None
    BY DEF Conn
  <2>2. IsEnd(c, s)
    BY <2>1, RegisteredHasFd
  <2> QED
    BY <1>0, <1>1, <2>2 DEF IsEnd
<1>7. ASSUME NEW d \in Conn, NEW s \in Rank, IsEnd(d, s)', {s, Other(d, s)'} \notin hungUp'
      PROVE  /\ conn'[s][Other(d, s)'] = None => Pending(d, s)'
             /\ conn'[s][Other(d, s)'] = d => \A b \in 1 .. Len(pair') : pair'[b] = pair'[d] => d <= b
  <2>1. CASE d = c
    <3>1. s \in {r, p} /\ Other(d, s)' \in Rank /\ Pending(d, s)'
      BY <1>2, <1>3, <1>7, <2>1 DEF IsEnd, Other, Pending
    <3> QED
      BY <1>3, <1>6, <2>1, <3>1
  <2>2. CASE d # c
    <3>1. d \in 1 .. Len(pair) /\ pair'[d] = pair[d]
      BY <1>0, <1>1, <1>2, <1>7, <2>2 DEF IsEnd
    <3>2. IsEnd(d, s) /\ Other(d, s)' = Other(d, s)
      BY <1>7, <3>1 DEF IsEnd, Other
    <3>3. Pending(d, s)' <=> Pending(d, s)
      <4>1. (d \in Queued(s)' <=> d \in Queued(s)) /\ (d \in dialing' <=> d \in dialing)
        BY <1>2, <1>3, <2>2
      <4> QED
        BY <3>1, <4>1 DEF Pending
    <3>4. /\ conn[s][Other(d, s)] = None => Pending(d, s)
          /\ conn[s][Other(d, s)] = d => \A b \in 1 .. Len(pair) : pair[b] = pair[d] => d <= b
      BY <1>3, <1>7, <3>2 DEF First
    <3>5. ASSUME conn[s][Other(d, s)] = d, NEW b \in 1 .. Len(pair'), pair'[b] = pair'[d] PROVE d <= b
      <4>1. CASE b = c
        BY <1>0, <1>1, <3>1, <4>1
      <4>2. CASE b # c
        <5>1. b \in 1 .. Len(pair) /\ pair'[b] = pair[b]
          BY <1>0, <1>1, <1>2, <4>2
        <5> QED
          BY <3>1, <3>4, <3>5, <5>1
      <4> QED
        BY <4>1, <4>2
    <3> QED
      BY <1>3, <3>2, <3>3, <3>4, <3>5
  <2> QED
    BY <2>1, <2>2
<1> QED
  BY <1>5, <1>7 DEF First

\* A rank that closes an entry leaves every other pair of ranks alone.
LEMMA ClosesFirst ==
    ASSUME Held, First, NEW r \in Rank, NEW cs \in SUBSET Conn, Closes(r, cs),
           dialing' = dialing, hungUp \subseteq hungUp',
           \A q \in Rank : conn[r][q] \in cs => {r, q} \in hungUp',
           \A c \in cs : IsEnd(c, r) => {r, Other(c, r)} \in hungUp'
    PROVE  First'
<1>1. /\ pair' = pair
      /\ \A d \in Conn, s \in Rank : IsEnd(d, s) =>
             (Pending(d, s)' <=> Pending(d, s) /\ ~(d \in cs /\ s = r))
      /\ \A s, p \in Rank : conn'[s][p] = IF s = r /\ conn[s][p] \in cs THEN None ELSE conn[s][p]
  BY DEF Closes
<1>2. ASSUME NEW d \in Conn, NEW s \in Rank, IsEnd(d, s), {s, Other(d, s)} \notin hungUp'
      PROVE  /\ conn'[s][Other(d, s)] = conn[s][Other(d, s)]
             /\ Pending(d, s)' <=> Pending(d, s)
  <2>1. Other(d, s) \in Rank
    BY <1>2, EndFacts DEF Held
  <2>2. ~(s = r /\ conn[s][Other(d, s)] \in cs) /\ ~(d \in cs /\ s = r)
    BY <1>2, <2>1
  <2> QED
    BY <1>1, <1>2, <2>1, <2>2
<1> QED
  BY <1>1, <1>2, SameFirst

LEMMA InitFirst == Init => First
  BY DEF Init, First, IsEnd

LEMMA NextFirst == Serial /\ Held /\ First /\ [Next]_vars => First'
<1> SUFFICES ASSUME Serial, Held, First, [Next]_vars PROVE First'
  OBVIOUS
<1>0. TypeOK /\ Dialed /\ Ends /\ Descriptors
  BY DEF Held
<1>1. ASSUME UNCHANGED <<pair, dialing, backlog, conn, hungUp>> PROVE First'
  <2>1. \A c, r : Pending(c, r)' <=> Pending(c, r)
    BY <1>1 DEF Pending, Queued
  <2> QED
    BY <1>1, <2>1, SameFirst
<1>2. ASSUME NEW r \in Rank, CloseCtrl(r) PROVE First'
  <2> DEFINE cs == Queued(r) \cup Registered(r)
  <2>1. cs \in SUBSET Conn /\ Closes(r, cs)
    BY <1>0, <1>2, CloseCtrlCloses
  <2>2. dialing' = dialing /\ hungUp \subseteq hungUp' /\ \A q \in Rank : {r, q} \in hungUp'
    BY <1>2 DEF CloseCtrl
  <2>3. \A c \in cs : IsEnd(c, r) => {r, Other(c, r)} \in hungUp'
    <3> HIDE DEF cs
    <3> QED
      BY <1>0, <2>1, <2>2, EndFacts
  <2> HIDE DEF cs
  <2> QED
    BY <2>1, <2>2, <2>3, ClosesFirst
<1>3. ASSUME NEW r \in Rank, Accept(r) PROVE First'
  <2>1. PICK c \in Conn : c = Head(backlog[r])
    BY <1>0, <1>3, AcceptSettles
  <2>2. pair[c][1] \in Rank /\ pair[c][2] = r /\ Settles(r, pair[c][1], c, FreeFd(r))
    BY <1>0, <1>3, <2>1, AcceptSettles
  <2>3. c \in Queued(r) /\ \A d \in Queued(r) : c <= d
    BY <1>0, <1>3, <2>1, HeadFacts DEF Accept
  <2>4. pair[c][1] # r
    BY <1>0, <2>3, QueuedFacts
  <2>5. \A d \in Conn : IsEnd(d, r) /\ pair[d] = pair[c] /\ Pending(d, r) => c <= d
    BY <2>3, <2>4 DEF Pending
  <2>6. dialing' \subseteq dialing /\ hungUp' = hungUp
    BY <1>3 DEF Accept
  <2> QED
    BY <2>2, <2>5, <2>6, SettlesFirst
<1>4. ASSUME NEW c \in Conn, DialRegister(c) PROVE First'
  <2>1. PICK r \in Rank, p \in Rank : r = pair[c][1] /\ p = pair[c][2]
    BY <1>0, <1>4, DialRegisterSettles
  <2>2. Settles(r, p, c, fd[<<c, r>>])
    BY <1>0, <1>4, <2>1, DialRegisterSettles
  <2>3. c \in dialing /\ dialing' \subseteq dialing /\ hungUp' = hungUp
    BY <1>4 DEF DialRegister
  <2>4. \A d \in Conn : IsEnd(d, r) /\ pair[d] = pair[c] /\ Pending(d, r) => c <= d
    <3> SUFFICES ASSUME NEW d \in Conn, pair[d] = pair[c], Pending(d, r) PROVE c <= d
      OBVIOUS
    <3>1. d \in dialing
      BY <2>1 DEF Pending
    <3>2. d = c
      BY <2>3, <3>1 DEF First
    <3> QED
      BY <3>2 DEF Conn
  <2> QED
    BY <2>2, <2>3, <2>4, SettlesFirst
<1>5. ASSUME NEW r \in Rank, NEW p \in Rank, Dial(r, p) PROVE First'
  BY <1>5, DialFirst
<1>6. ASSUME NEW r \in Rank, NEW p \in Rank, Close(r, p) PROVE First'
  <2>1. {conn[r][p]} \in SUBSET Conn /\ Closes(r, {conn[r][p]})
    BY <1>0, <1>6, CloseCloses
  <2>2. dialing' = dialing /\ hungUp' = hungUp \cup {{r, p}} /\ conn[r][p] # None
    BY <1>6 DEF Close
  <2>3. Other(conn[r][p], r) = p
    BY <2>2, RegisteredHasFd
  <2>4. \A q \in Rank : conn[r][q] = conn[r][p] => q = p
    BY <2>2, <2>3, RegisteredHasFd
  <2> QED
    BY <2>1, <2>2, <2>3, <2>4, ClosesFirst
<1> QED
  BY <1>1, <1>2, <1>3, <1>4, <1>5, <1>6 DEF Next, vars, Start, Recv, SendHeader, SendPayload

LEMMA SpecFirst == Serial => (Spec => [](Held /\ First))
<1> SUFFICES ASSUME Serial PROVE Spec => [](Held /\ First)
  OBVIOUS
<1>1. Held /\ First /\ [Next]_vars => First'
  BY NextFirst
<1> QED
  BY InitFirst, SpecHeld, <1>1, PTL DEF Spec

\* The entry of a settled pair is the pair's first connection, at both ends.
LEMMA FirstAtBothEnds ==
    ASSUME Held, First, OneDialer, NEW r \in Rank, NEW p \in Rank,
           {r, p} \notin hungUp, conn[r][p] # None,
           \A c \in 1 .. Len(pair) : Between(c, r, p) => c \notin dialing \cup Queued(r) \cup Queued(p)
    PROVE  conn[p][r] = conn[r][p]
<1>0. TypeOK /\ Dialed
  BY DEF Held
<1>1. PICK c \in Conn : c = conn[r][p]
  BY <1>0 DEF TypeOK
<1>2. IsEnd(c, r) /\ Other(c, r) = p
  BY <1>1, RegisteredHasFd
<1>3. IsEnd(c, p) /\ Other(c, p) = r /\ c \in 1 .. Len(pair)
  BY <1>0, <1>2, EndFacts DEF IsEnd
<1>4. Between(c, r, p) /\ ~Pending(c, p)
  BY <1>2, <1>3 DEF Between, IsEnd, Other, Pending
<1>5. conn[p][r] # None
  BY <1>3, <1>4 DEF First
<1>6. PICK d \in Conn : d = conn[p][r]
  BY <1>0, <1>5 DEF TypeOK
<1>7. IsEnd(d, p) /\ Other(d, p) = r
  BY <1>5, <1>6, RegisteredHasFd
<1>8. IsEnd(d, r) /\ Other(d, r) = p /\ d \in 1 .. Len(pair)
  BY <1>0, <1>7, EndFacts DEF IsEnd
<1>9. pair[c] = pair[d]
  <2>1. /\ pair[c] \in Dials /\ pair[d] \in Dials
    BY <1>0, <1>3, <1>8 DEF Dialed
  <2>2. pair[c] \in {<<r, p>>, <<p, r>>} /\ pair[d] \in {<<r, p>>, <<p, r>>}
    BY <1>2, <1>3, <1>7, <1>8, <2>1, DialsAssumption DEF IsEnd, Other
  <2> QED
    BY <2>1, <2>2 DEF OneDialer
<1>10. c <= d
  BY <1>1, <1>2, <1>8, <1>9 DEF First
<1>11. d <= c
  BY <1>3, <1>6, <1>7, <1>9 DEF First
<1> QED
  BY <1>1, <1>6, <1>10, <1>11 DEF Conn

\* When one rank of every pair dials and the other accepts, and the dialing rank
\* does not overlap two connect calls for one peer, two ranks that have nothing
\* outstanding and have closed nothing hold the two ends of one
\* connection, whatever was dialed again in between.
THEOREM RanksKeepOneConnection == OneDialer /\ Serial => (Spec => []Paired)
<1> SUFFICES ASSUME OneDialer, Serial PROVE Spec => []Paired
  OBVIOUS
<1>1. Held /\ First => Paired
  <2> SUFFICES ASSUME Held, First, NEW r \in Rank, NEW p \in Rank, {r, p} \notin hungUp,
                      \A c \in DOMAIN pair : Between(c, r, p) =>
                          c \notin dialing \cup Queued(r) \cup Queued(p)
               PROVE  conn[r][p] = conn[p][r]
    BY DEF Paired
  <2>1. DOMAIN pair = 1 .. Len(pair)
    BY DEF Held, TypeOK
  <2>2. \A c \in 1 .. Len(pair) : Between(c, r, p) => c \notin dialing \cup Queued(r) \cup Queued(p)
    BY <2>1
  <2>3. \A c \in 1 .. Len(pair) : Between(c, p, r) => c \notin dialing \cup Queued(p) \cup Queued(r)
    BY <2>2 DEF Between
  <2>4. {p, r} \notin hungUp
    OBVIOUS
  <2>5. conn[r][p] # None => conn[p][r] = conn[r][p]
    BY <2>2, FirstAtBothEnds
  <2>6. conn[p][r] # None => conn[r][p] = conn[p][r]
    BY <2>3, <2>4, FirstAtBothEnds
  <2> QED
    BY <2>5, <2>6
<1> QED
  BY <1>1, SpecFirst, PTL

----------------------------------------------------------------------------
(***************************************************************************)
(* Frames arrive whole                                                     *)
(***************************************************************************)
LEMMA SettlesFraming ==
    ASSUME Held, Writers, Channels, NEW r \in Rank, NEW p \in Rank, NEW c \in Conn, NEW n,
           Settles(r, p, c, n), UNCHANGED <<chan, writing>>
    PROVE  Writers' /\ Channels'
<1>1. pair' = pair /\ IsEnd(c, r) /\ Pending(c, r) /\ Register(r, p, c, n)
  BY DEF Settles
<1>2. conn \in [Rank -> [Rank -> Conn \cup {None}]] /\ fd \in [End -> 0 .. MaxConns] /\ None \notin Conn
  BY DEF Held, TypeOK, Conn
<1>3. \A s, q \in Rank : conn[s][q] # None => conn'[s][q] = conn[s][q]
  BY <1>1, <1>2 DEF Register
<1>4. open' \subseteq open
  BY <1>1 DEF Register, CloseEnds
<1>5. \A e \in End : e # <<c, r>> => fd'[e] = fd[e]
  <2>1. CASE conn[r][p] = None
    BY <1>1, <1>2, <2>1 DEF Register
  <2>2. CASE conn[r][p] # None
    <3> SUFFICES ASSUME NEW e \in End, e # <<c, r>> PROVE fd'[e] = fd[e]
      OBVIOUS
    <3>1. fd' = [d \in End |-> IF d[2] = r /\ d[1] \in {c} THEN 0 ELSE fd[d]]
      BY <1>1, <2>2 DEF Register, CloseEnds
    <3>2. ~(e[2] = r /\ e[1] = c)
      BY DEF End
    <3> QED
      BY <3>1, <3>2
  <2> QED
    BY <2>1, <2>2
<1>6. ASSUME NEW s \in Rank, NEW w \in Writer, writing[s][w] # <<>>
      PROVE  LET q == writing[s][w][1]
             IN  conn'[s][q] = conn[s][q] /\ fd'[<<conn[s][q], s>>] = fd[<<conn[s][q], s>>]
  <2> DEFINE q == writing[s][w][1]
  <2>1. q \in Rank
    BY <1>6 DEF Held, TypeOK
  <2>2. conn[s][q] # None
    BY <1>6 DEF Writers
  <2>3. conn[s][q] \in Conn /\ ~Pending(conn[s][q], s)
    BY <2>1, <2>2, RegisteredHasFd
  <2>4. <<conn[s][q], s>> # <<c, r>> /\ <<conn[s][q], s>> \in End
    BY <1>1, <2>3 DEF End
  <2> QED
    BY <1>3, <1>5, <2>1, <2>2, <2>4
<1>7. ASSUME NEW d \in Conn, NEW s \in Rank, NEW q \in Rank, <<d, s>> \in open', conn[s][q] = d
      PROVE  conn'[s][q] = d
  BY <1>2, <1>3, <1>7
<1> QED
  BY <1>1, <1>4, <1>6, <1>7, KeepsFraming

\* A rank closes no entry that one of its threads is writing to.
LEMMA ClosesFraming ==
    ASSUME Held, Writers, Channels, NEW r \in Rank, NEW cs \in SUBSET Conn, Closes(r, cs),
           \A p \in Rank : conn[r][p] \in cs => ~Sending(r, p),
           UNCHANGED <<chan, writing>>
    PROVE  Writers' /\ Channels'
<1>1. /\ pair' = pair /\ CloseEnds(r, cs)
      /\ \A s, p \in Rank : conn'[s][p] = IF s = r /\ conn[s][p] \in cs THEN None ELSE conn[s][p]
  BY DEF Closes
<1>2. open' \subseteq open /\ \A c, s : <<c, s>> \in open' => ~(s = r /\ c \in cs)
  BY <1>1 DEF CloseEnds
<1>3. \A c \in Conn, s \in Rank : ~(s = r /\ c \in cs) => fd'[<<c, s>>] = fd[<<c, s>>]
  BY <1>1 DEF CloseEnds, End
<1>4. ASSUME NEW s \in Rank, NEW w \in Writer, writing[s][w] # <<>>
      PROVE  LET q == writing[s][w][1]
             IN  conn'[s][q] = conn[s][q] /\ fd'[<<conn[s][q], s>>] = fd[<<conn[s][q], s>>]
  <2> DEFINE q == writing[s][w][1]
  <2>1. q \in Rank
    BY <1>4 DEF Held, TypeOK
  <2>2. conn[s][q] # None
    BY <1>4 DEF Writers
  <2>3. conn[s][q] \in Conn
    BY <2>1, <2>2, RegisteredHasFd
  <2>4. Sending(s, q)
    BY <1>4 DEF Sending
  <2>5. ~(s = r /\ conn[s][q] \in cs)
    BY <2>1, <2>4
  <2> QED
    BY <1>1, <1>3, <2>1, <2>3, <2>5
<1>5. ASSUME NEW d \in Conn, NEW s \in Rank, NEW q \in Rank, <<d, s>> \in open', conn[s][q] = d
      PROVE  conn'[s][q] = d
  BY <1>1, <1>2, <1>5
<1> QED
  BY <1>1, <1>2, <1>4, <1>5, KeepsFraming

LEMMA DialFraming ==
    ASSUME Held, Writers, Channels, NEW r \in Rank, NEW p \in Rank, Dial(r, p)
    PROVE  Writers' /\ Channels'
<1>0. TypeOK /\ Dialed /\ Len(pair) \in Nat
  BY DEF Held, TypeOK
<1>1. PICK c \in Conn : c = Len(pair) + 1
  BY <1>0, DialFacts
<1>2. Len(pair') = c /\ \A d \in 1 .. Len(pair) : pair'[d] = pair[d]
  BY <1>0, <1>1, DialFacts
<1>3. /\ conn' = conn /\ chan' = chan /\ writing' = writing
      /\ open' = open \cup {<<c, r>>, <<c, p>>}
      /\ fd' = [fd EXCEPT ![<<c, r>>] = FreeFd(r)]
  BY <1>1 DEF Dial
<1>4. \A s \in Rank : chan[<<c, s>>] = <<>>
  BY <1>0, <1>1 DEF Channels
<1>5. ASSUME NEW d \in Conn, NEW s \in Rank, NEW q \in Rank, Live(d, s, q)', d # c
      PROVE  Live(d, s, q)
  <2>1. d \in 1 .. Len(pair) /\ pair'[d] = pair[d]
    BY <1>0, <1>1, <1>2, <1>5 DEF Live, IsEnd
  <2>2. <<d, s>> \in open /\ <<d, q>> \in open
    BY <1>3, <1>5 DEF Live
  <2> QED
    BY <1>5, <2>1, <2>2 DEF Live, IsEnd, Other
<1>6. \A s, q \in Rank : conn[s][q] # c
  <2> SUFFICES ASSUME NEW s \in Rank, NEW q \in Rank, conn[s][q] = c PROVE FALSE
    OBVIOUS
  <2>1. conn[s][q] # None
    BY DEF Conn
  <2>2. IsEnd(c, s)
    BY <2>1, RegisteredHasFd
  <2> QED
    BY <1>0, <1>1, <2>2 DEF IsEnd
<1>7. Writers'
  <2>1. ASSUME NEW s \in Rank, NEW w \in Writer, writing[s][w] # <<>>
        PROVE  /\ conn[s][writing[s][w][1]] # None
               /\ fd'[<<conn[s][writing[s][w][1]], s>>] = writing[s][w][2]
    <3> DEFINE q == writing[s][w][1]
    <3>1. q \in Rank
      BY <2>1 DEF Held, TypeOK
    <3>2. conn[s][q] # None /\ fd[<<conn[s][q], s>>] = writing[s][w][2]
      BY <2>1 DEF Writers
    <3>3. conn[s][q] # c /\ conn[s][q] \in Conn
      BY <1>6, <3>1, <3>2, RegisteredHasFd
    <3>4. fd'[<<conn[s][q], s>>] = fd[<<conn[s][q], s>>]
      BY <1>0, <1>3, <3>3 DEF TypeOK, End
    <3> QED
      BY <3>2, <3>4
  <2> QED
    BY <1>3, <2>1 DEF Writers
<1>8. ASSUME NEW d \in Conn, NEW s \in Rank, NEW q \in Rank, Live(d, s, q)', HalfSent(chan'[<<d, q>>])
      PROVE  conn'[s][q] = d /\ Sending(s, q)'
  <2>1. d # c
    BY <1>3, <1>4, <1>8 DEF HalfSent
  <2>2. conn[s][q] = d /\ Sending(s, q)
    BY <1>3, <1>5, <1>8, <2>1 DEF Channels
  <2> QED
    BY <1>3, <2>2 DEF Sending
<1>9. ASSUME NEW d \in Conn, NEW s \in Rank, NEW q \in Rank, NEW w \in Writer,
             Live(d, s, q)', conn'[s][q] = d, writing'[s][w] # <<>>, writing'[s][w][1] = q
      PROVE  HalfSent(chan'[<<d, q>>]) /\ chan'[<<d, q>>][Len(chan'[<<d, q>>])].msg = writing'[s][w][3]
  <2>1. Live(d, s, q)
    BY <1>3, <1>5, <1>6, <1>9
  <2> QED
    BY <1>3, <1>9, <2>1 DEF Channels
<1>10. (\A e \in End : Framed(chan'[e])) /\ \A d \in Conn, s \in Rank : d > Len(pair') => chan'[<<d, s>>] = <<>>
  BY <1>0, <1>1, <1>2, <1>3 DEF Channels, Conn
<1> QED
  BY <1>7, <1>8, <1>9, <1>10 DEF Channels, HalfSent

\* A write reaches the connection the descriptor was looked up for, or nothing.
LEMMA SendAllFacts ==
    ASSUME Held, NEW r \in Rank, NEW p \in Rank, NEW c \in Conn, c = conn[r][p],
           NEW part, NEW m, SendAll(r, fd[<<c, r>>], part, m)
    PROVE  /\ Live(c, r, p) => chan' = [chan EXCEPT ![<<c, p>>] = Append(@, [part |-> part, msg |-> m])]
           /\ ~Live(c, r, p) => chan' = chan
           /\ Reached(r, fd[<<c, r>>]) = {} <=> ~Live(c, r, p)
<1> DEFINE n == fd[<<c, r>>]
           t == [part |-> part, msg |-> m]
<1>0. chan = [e \in End |-> chan[e]]
  BY DEF Held, TypeOK
<1>1. c # None
  BY DEF Conn
<1>2. /\ IsEnd(c, r) /\ Other(c, r) = p /\ <<c, r>> \in open
      /\ \A d \in Conn : fd[<<d, r>>] = n => d = c
  BY <1>1, RegisteredHasFd
<1>3. p # r
  BY <1>2, EndFacts DEF Held
<1>4. Reached(r, n) = IF Live(c, r, p) THEN {c} ELSE {}
  <2>1. \A d \in Reached(r, n) : d = c /\ <<c, p>> \in open
    BY <1>2 DEF Reached
  <2>2. Live(c, r, p) <=> <<c, p>> \in open
    BY <1>2 DEF Live
  <2>3. <<c, p>> \in open => c \in Reached(r, n)
    BY <1>2 DEF Reached
  <2> QED
    BY <2>1, <2>2, <2>3
<1> HIDE DEF n, t
<1>5. chan' = [e \in End |-> IF e[1] \in Reached(r, n) /\ e[2] # r /\ e[2] = Other(e[1], r)
                             THEN Append(chan[e], t) ELSE chan[e]]
  BY DEF SendAll, n, t
<1>6. CASE ~Live(c, r, p)
  BY <1>0, <1>4, <1>5, <1>6 DEF n
<1>7. CASE Live(c, r, p)
  <2>1. ASSUME NEW e \in End
        PROVE  (e[1] \in Reached(r, n) /\ e[2] # r /\ e[2] = Other(e[1], r)) <=> e = <<c, p>>
    <3>1. e = <<e[1], e[2]>>
      BY DEF End
    <3> QED
      BY <1>2, <1>3, <1>4, <1>7, <3>1
  <2>2. chan' = [e \in End |-> IF e = <<c, p>> THEN Append(chan[e], t) ELSE chan[e]]
    BY <1>5, <2>1
  <2>3. [chan EXCEPT ![<<c, p>>] = Append(@, t)]
            = [e \in End |-> IF e = <<c, p>> THEN Append(chan[e], t) ELSE chan[e]]
    BY <1>0
  <2>4. Reached(r, n) # {}
    BY <1>4, <1>7
  <2> QED
    BY <1>7, <2>2, <2>3, <2>4 DEF n, t
<1> QED
  BY <1>6, <1>7

\* The sender's end of a connection with two live ends is one.
LEMMA OneSender ==
    ASSUME Held, NEW c \in Conn, NEW r \in Rank, NEW s \in Rank, NEW p \in Rank,
           Live(c, r, p), Live(c, s, p)
    PROVE  r = s
<1>1. TypeOK /\ Dialed
  BY DEF Held
<1>2. IsEnd(c, r) /\ p = Other(c, r) /\ IsEnd(c, s) /\ p = Other(c, s)
  BY DEF Live
<1>3. Other(c, p) = r
  BY ZenonT(30), <1>1, <1>2, EndFacts
<1>4. Other(c, p) = s
  BY <1>1, <1>2, EndFacts
<1> QED
  BY <1>3, <1>4

LEMMA SendHeaderFraming ==
    ASSUME Serial, Held, Writers, Channels, NEW r \in Rank, NEW p \in Rank, NEW w \in Writer,
           SendHeader(r, w, p)
    PROVE  Writers' /\ Channels'
<1>0. TypeOK /\ conn[r][p] # None /\ ~Sending(r, p) /\ writing[r][w] = <<>>
      /\ UNCHANGED <<pair, conn, open, fd>>
  BY DEF Held, SendHeader
<1>1. PICK c \in Conn : c = conn[r][p]
  BY <1>0 DEF TypeOK
<1>2. PICK m \in Msg : m = msgs + 1
  BY <1>0 DEF SendHeader, TypeOK, Msg
<1>3. /\ SendAll(r, fd[<<c, r>>], "header", m)
      /\ writing' = IF Reached(r, fd[<<c, r>>]) = {} THEN writing
                    ELSE [writing EXCEPT ![r][w] = <<p, fd[<<c, r>>], m>>]
  BY <1>1, <1>2 DEF SendHeader
<1>4. /\ Live(c, r, p) => chan' = [chan EXCEPT ![<<c, p>>] = Append(@, [part |-> "header", msg |-> m])]
      /\ ~Live(c, r, p) => chan' = chan
      /\ Reached(r, fd[<<c, r>>]) = {} <=> ~Live(c, r, p)
  BY <1>1, <1>3, SendAllFacts
<1>5. CASE ~Live(c, r, p)
  <2>1. UNCHANGED <<chan, writing>>
    BY <1>3, <1>4, <1>5
  <2> QED
    BY <1>0, <2>1, KeepsFraming
<1>6. CASE Live(c, r, p)
  <2>1. <<c, p>> \in End /\ chan[<<c, p>>] \in Seq(Token) /\ Framed(chan[<<c, p>>])
        /\ ~HalfSent(chan[<<c, p>>])
    BY <1>0, <1>6 DEF End, TypeOK, Channels
  <2>2. \A e \in End : e # <<c, p>> => chan'[e] = chan[e]
    BY <1>0, <1>4, <1>6 DEF TypeOK
  <2>3. /\ Framed(chan'[<<c, p>>]) /\ HalfSent(chan'[<<c, p>>])
        /\ chan'[<<c, p>>][Len(chan'[<<c, p>>])].msg = m
    <3>1. chan'[<<c, p>>] = Append(chan[<<c, p>>], [part |-> "header", msg |-> m])
      BY <1>0, <1>4, <1>6, <2>1 DEF TypeOK
    <3> QED
      BY <2>1, <3>1, AppendHeader
  <2>4. /\ writing'[r][w] = <<p, fd[<<c, r>>], m>>
        /\ \A s \in Rank, v \in Writer : ~(s = r /\ v = w) => writing'[s][v] = writing[s][v]
    <3>1. writing' = [writing EXCEPT ![r][w] = <<p, fd[<<c, r>>], m>>]
      BY <1>3, <1>4, <1>6
    <3> QED
      BY <1>0, <3>1 DEF TypeOK
  <2>5. \A v \in Writer : ~(writing[r][v] # <<>> /\ writing[r][v][1] = p)
    BY <1>0 DEF Sending
  <2>6. \A s, q \in Rank : Sending(s, q) => Sending(s, q)'
    <3> SUFFICES ASSUME NEW s \in Rank, NEW q \in Rank, Sending(s, q) PROVE Sending(s, q)'
      OBVIOUS
    <3>1. PICK v \in Writer : writing[s][v] # <<>> /\ writing[s][v][1] = q
      BY DEF Sending
    <3>2. writing'[s][v] = writing[s][v]
      BY <1>0, <2>4, <3>1
    <3> QED
      BY <3>1, <3>2 DEF Sending
  <2>7. Sending(r, p)'
    BY <2>4 DEF Sending
  <2>8. \A d, s, q : Live(d, s, q)' <=> Live(d, s, q)
    BY <1>0 DEF Live, IsEnd, Other
  <2>9. ASSUME NEW d \in Conn, NEW s \in Rank, NEW q \in Rank, Live(d, s, q), HalfSent(chan'[<<d, q>>])
        PROVE  conn[s][q] = d /\ Sending(s, q)'
    <3>1. CASE <<d, q>> = <<c, p>>
      <4>1. s = r
        BY <1>6, <2>9, <3>1, OneSender
      <4> QED
        BY <1>1, <2>7, <3>1, <4>1
    <3>2. CASE <<d, q>> # <<c, p>>
      <4>1. chan'[<<d, q>>] = chan[<<d, q>>]
        BY <2>2, <3>2 DEF End
      <4> QED
        BY <2>6, <2>9, <4>1 DEF Channels
    <3> QED
      BY <3>1, <3>2
  <2>10. ASSUME NEW d \in Conn, NEW s \in Rank, NEW q \in Rank, NEW v \in Writer,
                Live(d, s, q), conn[s][q] = d, writing'[s][v] # <<>>, writing'[s][v][1] = q
         PROVE  HalfSent(chan'[<<d, q>>]) /\ chan'[<<d, q>>][Len(chan'[<<d, q>>])].msg = writing'[s][v][3]
    <3>1. CASE s = r /\ v = w
      <4>1. q = p /\ d = c /\ writing'[s][v][3] = m
        BY <1>1, <2>4, <2>10, <3>1
      <4> QED
        BY <2>3, <4>1
    <3>2. CASE ~(s = r /\ v = w)
      <4>1. writing[s][v] # <<>> /\ writing[s][v][1] = q /\ writing'[s][v] = writing[s][v]
        BY <2>4, <2>10, <3>2
      <4>2. <<d, q>> # <<c, p>>
        <5> SUFFICES ASSUME d = c, q = p PROVE FALSE
          OBVIOUS
        <5>1. s = r
          <6>1. Live(c, s, p)
            BY <2>10
          <6> QED
            BY <1>6, <6>1, OneSender
        <5> QED
          BY <2>5, <4>1, <5>1
      <4>3. chan'[<<d, q>>] = chan[<<d, q>>]
        BY <2>2, <4>2 DEF End
      <4> QED
        BY <2>10, <4>1, <4>3 DEF Channels
    <3> QED
      BY <3>1, <3>2
  <2>11. \A e \in End : Framed(chan'[e])
    BY <2>2, <2>3 DEF Channels
  <2>12. ASSUME NEW d \in Conn, NEW s \in Rank, d > Len(pair) PROVE chan'[<<d, s>>] = <<>>
    <3>1. d # c
      BY <1>0, <1>6, <2>12 DEF Live, IsEnd, TypeOK
    <3> QED
      BY <2>2, <2>12, <3>1 DEF Channels, End
  <2>13. ASSUME NEW s \in Rank, NEW v \in Writer, writing'[s][v] # <<>>
         PROVE  /\ conn[s][writing'[s][v][1]] # None
                /\ fd[<<conn[s][writing'[s][v][1]], s>>] = writing'[s][v][2]
    <3>1. CASE s = r /\ v = w
      BY <1>0, <1>1, <2>4, <3>1
    <3>2. CASE ~(s = r /\ v = w)
      <4>1. writing'[s][v] = writing[s][v]
        BY <2>4, <3>2
      <4> QED
        BY <2>13, <4>1 DEF Writers
    <3> QED
      BY <3>1, <3>2
  <2>14. ASSUME NEW s \in Rank, NEW u \in Writer, NEW v \in Writer,
                writing'[s][u] # <<>>, writing'[s][v] # <<>>, writing'[s][u][1] = writing'[s][v][1]
         PROVE  u = v
    <3>1. writing'[r][w][1] = p
      BY <2>4
    <3>2. CASE s = r /\ (u = w \/ v = w)
      BY <2>4, <2>5, <2>14, <3>1, <3>2
    <3>3. CASE ~(s = r /\ (u = w \/ v = w))
      <4>1. writing'[s][u] = writing[s][u] /\ writing'[s][v] = writing[s][v]
        BY <2>4, <3>3
      <4> QED
        BY <2>14, <4>1 DEF Writers
    <3> QED
      BY <3>2, <3>3
  <2> QED
    BY <1>0, <2>9, <2>10, <2>11, <2>12, <2>13, <2>14, FramingNext
<1> QED
  BY <1>5, <1>6

LEMMA SendPayloadFraming ==
    ASSUME Held, Writers, Channels, NEW r \in Rank, NEW w \in Writer, SendPayload(r, w)
    PROVE  Writers' /\ Channels'
<1>0. TypeOK /\ writing[r][w] # <<>> /\ UNCHANGED <<pair, conn, open, fd>>
  BY DEF Held, SendPayload
<1>1. PICK p \in Rank, m \in Msg : writing[r][w][1] = p /\ writing[r][w][3] = m
  <2>1. writing[r][w] \in Rank \X (1 .. MaxConns) \X Msg
    BY <1>0 DEF TypeOK
  <2>2. writing[r][w][1] \in Rank /\ writing[r][w][3] \in Msg
    BY <2>1
  <2> QED
    BY <2>2
<1>2. conn[r][p] # None /\ fd[<<conn[r][p], r>>] = writing[r][w][2]
  BY <1>0, <1>1 DEF Writers
<1>3. PICK c \in Conn : c = conn[r][p]
  BY <1>0, <1>2 DEF TypeOK
<1>4. SendAll(r, fd[<<c, r>>], "payload", m)
  BY <1>1, <1>2, <1>3 DEF SendPayload
<1>5. /\ Live(c, r, p) => chan' = [chan EXCEPT ![<<c, p>>] = Append(@, [part |-> "payload", msg |-> m])]
      /\ ~Live(c, r, p) => chan' = chan
  BY <1>3, <1>4, SendAllFacts
<1>6. /\ writing'[r][w] = <<>>
      /\ \A s \in Rank, v \in Writer : ~(s = r /\ v = w) => writing'[s][v] = writing[s][v]
  BY <1>0 DEF SendPayload, TypeOK
<1>7. ASSUME NEW s \in Rank, NEW v \in Writer, writing'[s][v] # <<>>
      PROVE  writing'[s][v] = writing[s][v] /\ ~(s = r /\ v = w)
  BY <1>6, <1>7
<1>8. \A s \in Rank, q \in Rank : Sending(s, q) /\ ~(s = r /\ q = p) => Sending(s, q)'
  <2> SUFFICES ASSUME NEW s \in Rank, NEW q \in Rank, Sending(s, q), ~(s = r /\ q = p) PROVE Sending(s, q)'
    OBVIOUS
  <2>1. PICK v \in Writer : writing[s][v] # <<>> /\ writing[s][v][1] = q
    BY DEF Sending
  <2>2. writing'[s][v] = writing[s][v]
    BY <1>1, <1>6, <2>1
  <2> QED
    BY <2>1, <2>2 DEF Sending
<1>9. \A d, s, q : Live(d, s, q)' <=> Live(d, s, q)
  BY <1>0 DEF Live, IsEnd, Other
<1>10. \A e \in End : e # <<c, p>> \/ ~Live(c, r, p) => chan'[e] = chan[e]
  BY <1>0, <1>5 DEF TypeOK
<1>11. Live(c, r, p) => Framed(chan'[<<c, p>>]) /\ ~HalfSent(chan'[<<c, p>>])
  <2> SUFFICES ASSUME Live(c, r, p) PROVE Framed(chan'[<<c, p>>]) /\ ~HalfSent(chan'[<<c, p>>])
    OBVIOUS
  <2>1. <<c, p>> \in End /\ chan[<<c, p>>] \in Seq(Token) /\ Framed(chan[<<c, p>>])
    BY <1>0 DEF End, TypeOK, Channels
  <2>2. HalfSent(chan[<<c, p>>]) /\ chan[<<c, p>>][Len(chan[<<c, p>>])].msg = m
    <3>1. \A v \in Writer : writing[r][v] # <<>> /\ writing[r][v][1] = p =>
              HalfSent(chan[<<c, p>>]) /\ chan[<<c, p>>][Len(chan[<<c, p>>])].msg = writing[r][v][3]
      BY <1>3 DEF Channels
    <3> QED
      BY <1>0, <1>1, <3>1
  <2>3. chan'[<<c, p>>] = Append(chan[<<c, p>>], [part |-> "payload", msg |-> m])
    BY <1>0, <1>5, <2>1 DEF TypeOK
  <2> QED
    BY <2>1, <2>2, <2>3, AppendPayload
<1>12. ASSUME NEW d \in Conn, NEW s \in Rank, NEW q \in Rank, Live(d, s, q), HalfSent(chan'[<<d, q>>])
       PROVE  conn[s][q] = d /\ Sending(s, q)'
  <2>1. <<d, q>> # <<c, p>>
    <3> SUFFICES ASSUME d = c, q = p PROVE FALSE
      OBVIOUS
    <3>1. ~Live(c, r, p)
      BY <1>11, <1>12
    <3>2. HalfSent(chan[<<c, p>>])
      BY <1>10, <1>12, <3>1 DEF End
    <3>3. IsEnd(c, r) /\ Other(c, r) = p /\ <<c, r>> \in open
      BY <1>2, <1>3, RegisteredHasFd
    <3>4. <<c, p>> \in open
      BY <1>12 DEF Live
    <3> QED
      BY <3>1, <3>3, <3>4 DEF Live
  <2>2. chan'[<<d, q>>] = chan[<<d, q>>]
    BY <1>10, <2>1 DEF End
  <2>3. conn[s][q] = d /\ Sending(s, q)
    BY <1>12, <2>2 DEF Channels
  <2>4. ~(s = r /\ q = p)
    BY <1>3, <2>1, <2>3
  <2> QED
    BY <1>8, <2>3, <2>4
<1>13. ASSUME NEW d \in Conn, NEW s \in Rank, NEW q \in Rank, NEW v \in Writer,
              Live(d, s, q), conn[s][q] = d, writing'[s][v] # <<>>, writing'[s][v][1] = q
       PROVE  HalfSent(chan'[<<d, q>>]) /\ chan'[<<d, q>>][Len(chan'[<<d, q>>])].msg = writing'[s][v][3]
  <2>1. writing'[s][v] = writing[s][v] /\ ~(s = r /\ v = w)
    BY <1>7, <1>13
  <2>2. <<d, q>> # <<c, p>> \/ ~Live(c, r, p)
    <3> SUFFICES ASSUME d = c, q = p, Live(c, r, p) PROVE FALSE
      OBVIOUS
    <3>1. s = r
      BY <1>13, OneSender
    <3>2. writing[r][v] # <<>> /\ writing[r][v][1] = writing[r][w][1]
      BY <1>1, <1>13, <2>1, <3>1
    <3>3. v = w
      BY <1>0, <3>2 DEF Writers
    <3> QED
      BY <2>1, <3>1, <3>3
  <2>3. chan'[<<d, q>>] = chan[<<d, q>>]
    BY <1>10, <2>2 DEF End
  <2> QED
    BY <1>13, <2>1, <2>3 DEF Channels
<1>14. \A e \in End : Framed(chan'[e])
  BY <1>10, <1>11 DEF Channels
<1>15. ASSUME NEW d \in Conn, NEW s \in Rank, d > Len(pair) PROVE chan'[<<d, s>>] = <<>>
  <2>1. d # c
    BY SMTT(30), <1>0, <1>2, <1>3, <1>15, RegisteredHasFd DEF IsEnd, TypeOK
  <2> QED
    BY <1>10, <1>15, <2>1 DEF Channels, End
<1>16. ASSUME NEW s \in Rank, NEW v \in Writer, writing'[s][v] # <<>>
       PROVE  /\ conn[s][writing'[s][v][1]] # None
              /\ fd[<<conn[s][writing'[s][v][1]], s>>] = writing'[s][v][2]
  <2>1. writing'[s][v] = writing[s][v] /\ writing[s][v] # <<>>
    BY <1>7, <1>16
  <2>2. /\ conn[s][writing[s][v][1]] # None
        /\ fd[<<conn[s][writing[s][v][1]], s>>] = writing[s][v][2]
    BY <2>1 DEF Writers
  <2> QED
    BY <2>1, <2>2
<1>17. ASSUME NEW s \in Rank, NEW u \in Writer, NEW v \in Writer,
              writing'[s][u] # <<>>, writing'[s][v] # <<>>, writing'[s][u][1] = writing'[s][v][1]
       PROVE  u = v
  BY <1>7, <1>17 DEF Writers
<1> QED
  BY <1>0, <1>12, <1>13, <1>14, <1>15, <1>16, <1>17, FramingNext

LEMMA RecvFraming ==
    ASSUME Held, Writers, Channels, FramesIntact, NEW r \in Rank, NEW p \in Rank, Recv(r, p)
    PROVE  Writers' /\ Channels' /\ FramesIntact'
<1>0. TypeOK /\ conn[r][p] # None /\ UNCHANGED <<pair, conn, open, fd, writing>>
  BY DEF Held, Recv
<1>1. PICK c \in Conn : c = conn[r][p]
  BY <1>0 DEF TypeOK
<1>2. PICK e \in End : e = <<c, r>>
  BY DEF End
<1>3. PICK q \in Seq(Token) : q = chan[e]
  BY <1>0 DEF TypeOK
<1>4. /\ Len(q) >= 2 /\ frames' = frames \cup {SubSeq(q, 1, 2)}
      /\ chan' = [chan EXCEPT ![e] = SubSeq(q, 3, Len(q))]
  BY <1>1, <1>2, <1>3 DEF Recv
<1>5. PICK f, s : f = SubSeq(q, 1, 2) /\ s = SubSeq(q, 3, Len(q))
  OBVIOUS
<1>6. /\ f[1].part = "header" /\ f[2].part = "payload" /\ f[1].msg = f[2].msg
      /\ Framed(s) /\ (HalfSent(s) <=> HalfSent(q))
      /\ HalfSent(q) => s[Len(s)] = q[Len(q)]
  <2>1. Framed(q)
    BY <1>3 DEF Channels
  <2> QED
    BY <1>4, <1>5, <2>1, TakeTwo
<1>7. FramesIntact'
  BY <1>4, <1>5, <1>6 DEF FramesIntact
<1>8. chan'[e] = s /\ \A d \in End : d # e => chan'[d] = chan[d]
  BY <1>0, <1>4, <1>5 DEF TypeOK
<1>9. \A d \in End : /\ Framed(chan'[d]) /\ (HalfSent(chan'[d]) <=> HalfSent(chan[d]))
                     /\ HalfSent(chan[d]) => chan'[d][Len(chan'[d])] = chan[d][Len(chan[d])]
  <2> SUFFICES ASSUME NEW d \in End
               PROVE  /\ Framed(chan'[d]) /\ (HalfSent(chan'[d]) <=> HalfSent(chan[d]))
                      /\ HalfSent(chan[d]) => chan'[d][Len(chan'[d])] = chan[d][Len(chan[d])]
    OBVIOUS
  <2>1. CASE d = e
    BY <1>3, <1>6, <1>8, <2>1
  <2>2. CASE d # e
    BY <1>8, <2>2 DEF Channels
  <2> QED
    BY <2>1, <2>2
<1>11. ASSUME NEW d \in Conn, NEW t \in Rank, d > Len(pair) PROVE chan'[<<d, t>>] = <<>>
  <2>1. d # c
    <3>1. IsEnd(c, r)
      BY <1>0, <1>1, RegisteredHasFd
    <3>2. Len(pair) \in Nat
      BY <1>0 DEF TypeOK
    <3> QED
      BY <1>11, <3>1, <3>2 DEF IsEnd
  <2>2. <<d, t>> # e /\ <<d, t>> \in End
    BY <1>2, <2>1 DEF End
  <2> QED
    BY <1>8, <1>11, <2>2 DEF Channels
<1>12. ASSUME NEW d \in Conn, NEW t \in Rank, NEW u \in Rank, Live(d, t, u), HalfSent(chan'[<<d, u>>])
       PROVE  conn[t][u] = d /\ Sending(t, u)
  <2>1. HalfSent(chan[<<d, u>>])
    BY <1>9, <1>12 DEF End
  <2> QED
    BY <1>12, <2>1 DEF Channels
<1>13. ASSUME NEW d \in Conn, NEW t \in Rank, NEW u \in Rank, NEW v \in Writer,
              Live(d, t, u), conn[t][u] = d, writing[t][v] # <<>>, writing[t][v][1] = u
       PROVE  HalfSent(chan'[<<d, u>>]) /\ chan'[<<d, u>>][Len(chan'[<<d, u>>])].msg = writing[t][v][3]
  <2>1. HalfSent(chan[<<d, u>>]) /\ chan[<<d, u>>][Len(chan[<<d, u>>])].msg = writing[t][v][3]
    BY <1>13 DEF Channels
  <2> QED
    BY <1>9, <2>1 DEF End
<1>14. ASSUME NEW t \in Rank, NEW u \in Rank PROVE Sending(t, u)' <=> Sending(t, u)
  BY <1>0 DEF Sending
<1>15. Channels' /\ Writers'
  <2>1. writing' = writing
    BY <1>0
  <2>2. \A d \in Conn, t, u \in Rank : Live(d, t, u) /\ HalfSent(chan'[<<d, u>>]) =>
            conn[t][u] = d /\ Sending(t, u)'
    BY <1>12, <1>14
  <2>3. \A d \in Conn, t, u \in Rank, v \in Writer :
            Live(d, t, u) /\ conn[t][u] = d /\ writing'[t][v] # <<>> /\ writing'[t][v][1] = u =>
               /\ HalfSent(chan'[<<d, u>>])
               /\ chan'[<<d, u>>][Len(chan'[<<d, u>>])].msg = writing'[t][v][3]
    BY <1>13, <2>1
  <2>4. /\ \A t \in Rank, v \in Writer : writing'[t][v] # <<>> =>
               /\ conn[t][writing'[t][v][1]] # None
               /\ fd[<<conn[t][writing'[t][v][1]], t>>] = writing'[t][v][2]
        /\ \A t \in Rank, u, v \in Writer :
               writing'[t][u] # <<>> /\ writing'[t][v] # <<>> /\ writing'[t][u][1] = writing'[t][v][1] => u = v
    BY <2>1, Zenon DEF Writers
  <2> QED
    BY <1>0, <1>9, <1>11, <2>2, <2>3, <2>4, FramingNext
<1> QED
  BY <1>7, <1>15

LEMMA InitFraming == Init => Writers /\ Channels /\ FramesIntact
<1> SUFFICES ASSUME Init PROVE Writers /\ Channels /\ FramesIntact
  OBVIOUS
<1>1. \A e \in End : chan[e] = <<>>
  BY DEF Init
<1>2. open = {} /\ frames = {} /\ \A r \in Rank, w \in Writer : writing[r][w] = <<>>
  BY DEF Init
<1>3. Framed(<<>>)
  BY DEF Framed
<1>4. \A c, r, p : ~Live(c, r, p)
  BY <1>2 DEF Live
<1>5. \A c \in Conn, r \in Rank : <<c, r>> \in End
  BY DEF End
<1>6. Channels
  BY <1>1, <1>3, <1>4, <1>5 DEF Channels
<1> QED
  BY <1>2, <1>6 DEF Writers, FramesIntact

LEMMA NextFraming ==
    ASSUME Serial, Held, Writers, Channels, FramesIntact, [Next]_vars
    PROVE  Writers' /\ Channels' /\ FramesIntact'
<1>0. TypeOK /\ Dialed /\ Ends /\ Descriptors
  BY DEF Held
<1>1. ASSUME UNCHANGED <<pair, conn, open, fd, chan, writing>> PROVE Writers' /\ Channels'
  BY <1>1, KeepsFraming
<1>2. frames' = frames => FramesIntact'
  BY DEF FramesIntact
<1>3. ASSUME NEW r \in Rank, Start(r) PROVE Writers' /\ Channels' /\ FramesIntact'
  BY <1>1, <1>2, <1>3 DEF Start
<1>4. ASSUME NEW r \in Rank, CloseCtrl(r) PROVE Writers' /\ Channels' /\ FramesIntact'
  <2> DEFINE cs == Queued(r) \cup Registered(r)
  <2>1. cs \in SUBSET Conn /\ Closes(r, cs)
    BY <1>0, <1>4, CloseCtrlCloses
  <2>2. (\A p \in Rank : ~Sending(r, p)) /\ UNCHANGED <<chan, writing, frames>>
    BY <1>4 DEF CloseCtrl
  <2> HIDE DEF cs
  <2> QED
    BY <1>2, <2>1, <2>2, ClosesFraming
<1>5. ASSUME NEW r \in Rank, Accept(r) PROVE Writers' /\ Channels' /\ FramesIntact'
  <2>1. PICK c \in Conn : c = Head(backlog[r])
    BY <1>0, <1>5, AcceptSettles
  <2>2. pair[c][1] \in Rank /\ Settles(r, pair[c][1], c, FreeFd(r))
    BY <1>0, <1>5, <2>1, AcceptSettles
  <2>3. UNCHANGED <<chan, writing, frames>>
    BY <1>5 DEF Accept
  <2> QED
    BY <1>2, <2>2, <2>3, SettlesFraming
<1>6. ASSUME NEW c \in Conn, DialRegister(c) PROVE Writers' /\ Channels' /\ FramesIntact'
  <2>1. pair[c][1] \in Rank /\ pair[c][2] \in Rank /\ Settles(pair[c][1], pair[c][2], c, fd[<<c, pair[c][1]>>])
    BY <1>0, <1>6, DialRegisterSettles
  <2>2. UNCHANGED <<chan, writing, frames>>
    BY <1>6 DEF DialRegister
  <2> QED
    BY <1>2, <2>1, <2>2, SettlesFraming
<1>7. ASSUME NEW r \in Rank, NEW p \in Rank, Dial(r, p) PROVE Writers' /\ Channels' /\ FramesIntact'
  BY <1>2, <1>7, DialFraming DEF Dial
<1>8. ASSUME NEW r \in Rank, NEW p \in Rank, Close(r, p) PROVE Writers' /\ Channels' /\ FramesIntact'
  <2>1. {conn[r][p]} \in SUBSET Conn /\ Closes(r, {conn[r][p]})
    BY <1>0, <1>8, CloseCloses
  <2>2. ~Sending(r, p) /\ UNCHANGED <<chan, writing, frames>> /\ conn[r][p] # None
    BY <1>8 DEF Close
  <2>3. \A q \in Rank : conn[r][q] = conn[r][p] => q = p
    BY <2>2, RegisteredHasFd
  <2> QED
    BY <1>2, <2>1, <2>2, <2>3, ClosesFraming
<1>9. ASSUME NEW r \in Rank, NEW p \in Rank, Recv(r, p) PROVE Writers' /\ Channels' /\ FramesIntact'
  BY <1>9, RecvFraming
<1>10. ASSUME NEW r \in Rank, NEW p \in Rank, NEW w \in Writer, SendHeader(r, w, p)
       PROVE  Writers' /\ Channels' /\ FramesIntact'
  BY <1>2, <1>10, SendHeaderFraming DEF SendHeader
<1>11. ASSUME NEW r \in Rank, NEW w \in Writer, SendPayload(r, w)
       PROVE  Writers' /\ Channels' /\ FramesIntact'
  BY <1>2, <1>11, SendPayloadFraming DEF SendPayload
<1>12. CASE UNCHANGED vars
  BY <1>1, <1>2, <1>12 DEF vars
<1> QED
  BY <1>3, <1>4, <1>5, <1>6, <1>7, <1>8, <1>9, <1>10, <1>11, <1>12 DEF Next

\* When the application never overlaps two calls for one peer, recv returns a
\* header together with the payload of the same message, for every set of
\* ranks and writers, across closes, redials and reused descriptors.
THEOREM FramesArriveWhole == Serial => (Spec => []FramesIntact)
<1> SUFFICES ASSUME Serial PROVE Spec => []FramesIntact
  OBVIOUS
<1>1. Held /\ (Writers /\ Channels /\ FramesIntact) /\ [Next]_vars => (Writers /\ Channels /\ FramesIntact)'
  BY NextFraming
<1>2. Spec => [](Writers /\ Channels /\ FramesIntact)
  BY InitFraming, SpecHeld, <1>1, PTL DEF Spec
<1> QED
  BY <1>2, PTL
=============================================================================
