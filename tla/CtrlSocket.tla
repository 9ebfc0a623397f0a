----------------------------- MODULE CtrlSocket -----------------------------
(***************************************************************************)
(* The control plane: the CtrlSocketManager of every rank (socket_ctrl.cpp).*)
(* A connect call dials the peer, sends HELLO with its own rank and then    *)
(* registers the socket in id_to_conn_; the peer's accept thread reads the  *)
(* HELLO and registers its end.  Whoever finds an entry already there keeps *)
(* it and closes the newcomer.  A message is two writes, header and         *)
(* payload, to the descriptor the registered socket had when send looked it *)
(* up.                                                                     *)
(*                                                                         *)
(* A connection is a number; its end at rank r is <<c, r>>.  The kernel     *)
(* completes a connect by queueing the connection at the listener, with the *)
(* HELLO in its buffer, so dialing is one step; it gives a new socket the   *)
(* lowest free descriptor.  TCP and UDS differ only in the address.        *)
(***************************************************************************)
EXTENDS Integers, Sequences

CONSTANTS Rank,       \* CtrlIds
          Dials,      \* <<r, p>>: r calls connect for peer p
          Writer,     \* threads of a rank that call send
          Serial,     \* the application never overlaps two calls for one peer
          MaxConns,   \* bound: connections of a behaviour
          MaxMsgs,    \* bound: messages of a behaviour
          None        \* no connection

ASSUME RankAssumption == Rank \subseteq Nat
ASSUME DialsAssumption == Dials \subseteq {d \in Rank \X Rank : d[1] # d[2]}
ASSUME SerialAssumption == Serial \in BOOLEAN
ASSUME MaxConnsAssumption == MaxConns \in Nat
ASSUME MaxMsgsAssumption == MaxMsgs \in Nat
ASSUME CtrlNoneAssumption == None \notin Nat

VARIABLES
    listening,  \* running_, with the accept thread
    pair,       \* the dialing and the dialed rank of each connection
    dialing,    \* connections a connect call has not registered yet
    backlog,    \* connections each rank's accept thread has not taken yet
    conn,       \* id_to_conn_ of each rank
    open,       \* ends whose socket is not closed
    fd,         \* the descriptor of an end, 0 when its rank has none for it
    chan,       \* what is in flight towards each end
    writing,    \* per writer the peer, descriptor and message of the payload due
    msgs,       \* messages sent so far
    frames,     \* header and payload of every message recv has returned
    hungUp      \* pairs of ranks one of which has closed its entry

vars == <<listening, pair, dialing, backlog, conn, open, fd, chan, writing, msgs, frames, hungUp>>

Conn == 1 .. MaxConns
End == Conn \X Rank
Msg == 1 .. MaxMsgs
Token == [part : {"header", "payload"}, msg : Msg]

\* The rank at the other end of connection c.
Other(c, r) == IF pair[c][1] = r THEN pair[c][2] ELSE pair[c][1]
Between(c, r, p) == {pair[c][1], pair[c][2]} = {r, p}

Init ==
    /\ listening = [r \in Rank |-> FALSE]
    /\ pair = <<>>
    /\ dialing = {}
    /\ backlog = [r \in Rank |-> <<>>]
    /\ conn = [r \in Rank |-> [p \in Rank |-> None]]
    /\ open = {}
    /\ fd = [e \in End |-> 0]
    /\ chan = [e \in End |-> <<>>]
    /\ writing = [r \in Rank |-> [w \in Writer |-> <<>>]]
    /\ msgs = 0
    /\ frames = {}
    /\ hungUp = {}

----------------------------------------------------------------------------
(***************************************************************************)
(* Listeners                                                               *)
(***************************************************************************)
Start(r) ==
    /\ ~listening[r]
    /\ listening' = [listening EXCEPT ![r] = TRUE]
    /\ UNCHANGED <<pair, dialing, backlog, conn, open, fd, chan, writing, msgs, frames, hungUp>>

Queued(r) == {backlog[r][i] : i \in DOMAIN backlog[r]}
Registered(r) == {conn[r][p] : p \in Rank} \ {None}

\* Rank r closes its ends of the connections cs.
CloseEnds(r, cs) ==
    /\ open' = open \ {<<c, r>> : c \in cs}
    /\ fd' = [e \in End |-> IF e[2] = r /\ e[1] \in cs THEN 0 ELSE fd[e]]

\* A send to p is between its header and its payload.
Sending(r, p) == \E w \in Writer : writing[r][w] # <<>> /\ writing[r][w][1] = p

\* closeCtrl: stop ends the listener and what is queued at it, closeAll closes
\* every registered socket.
CloseCtrl(r) ==
    /\ listening[r]
    /\ Serial => \A p \in Rank : ~Sending(r, p)
    /\ listening' = [listening EXCEPT ![r] = FALSE]
    /\ CloseEnds(r, Queued(r) \cup Registered(r))
    /\ backlog' = [backlog EXCEPT ![r] = <<>>]
    /\ conn' = [conn EXCEPT ![r] = [p \in Rank |-> None]]
    /\ hungUp' = hungUp \cup {{r, p} : p \in Rank}
    /\ UNCHANGED <<pair, dialing, chan, writing, msgs, frames>>

----------------------------------------------------------------------------
(***************************************************************************)
(* connectTcp, connectUds and the accept loops                             *)
(***************************************************************************)
FreeFd(r) ==
    LET used == {fd[<<c, r>>] : c \in Conn}
    IN  CHOOSE n \in 1 .. MaxConns :
            n \notin used /\ \A m \in 1 .. MaxConns : m \notin used => n <= m

\* An entry that is there is kept and the new socket, with descriptor n, closed.
MutRegister(r, p, c, n) ==
    /\ conn' = [conn EXCEPT ![r][p] = IF @ = None THEN c ELSE @]
    /\ fd' = [fd EXCEPT ![<<c, r>>] = n]
    /\ UNCHANGED open
Register(r, p, c, n) ==
    IF conn[r][p] = None
    THEN /\ conn' = [conn EXCEPT ![r][p] = c]
         /\ fd' = [fd EXCEPT ![<<c, r>>] = n]
         /\ UNCHANGED open
    ELSE CloseEnds(r, {c}) /\ UNCHANGED conn

\* dialTcp_ or dialUds_, and sendHello_, without a lock: two connect calls of a
\* rank for one peer may overlap unless the application keeps to Serial.
Dial(r, p) ==
    LET c == Len(pair) + 1
    IN  /\ <<r, p>> \in Dials
        /\ c <= MaxConns
        /\ listening[p]
        /\ Serial => \A d \in dialing : pair[d] # <<r, p>>
        /\ pair' = Append(pair, <<r, p>>)
        /\ dialing' = dialing \cup {c}
        /\ backlog' = [backlog EXCEPT ![p] = Append(@, c)]
        /\ open' = open \cup {<<c, r>>, <<c, p>>}
        /\ fd' = [fd EXCEPT ![<<c, r>>] = FreeFd(r)]
        /\ UNCHANGED <<listening, conn, chan, writing, msgs, frames, hungUp>>

\* The connect call registers the socket it dialed.
DialRegister(c) ==
    /\ c \in dialing
    /\ dialing' = dialing \ {c}
    /\ Register(pair[c][1], pair[c][2], c, fd[<<c, pair[c][1]>>])
    /\ UNCHANGED <<listening, pair, backlog, chan, writing, msgs, frames, hungUp>>

\* The accept thread reads the HELLO and registers its end: recvHelloAndBind_.
MutAccept(r) ==
    LET c == Head(backlog[r])  old == conn[r][pair[c][1]]
    IN  /\ backlog[r] # <<>>
        /\ backlog' = [backlog EXCEPT ![r] = Tail(@)]
        /\ conn' = [conn EXCEPT ![r][pair[c][1]] = c]
        /\ open' = open \ {<<old, r>>}
        /\ fd' = [e \in End |-> IF e = <<c, r>> THEN FreeFd(r)
                                ELSE IF e = <<old, r>> THEN 0 ELSE fd[e]]
        /\ UNCHANGED <<listening, pair, dialing, chan, writing, msgs, frames, hungUp>>
Accept(r) ==
    /\ backlog[r] # <<>>
    /\ backlog' = [backlog EXCEPT ![r] = Tail(@)]
    /\ LET c == Head(backlog[r]) IN Register(r, pair[c][1], c, FreeFd(r))
    /\ UNCHANGED <<listening, pair, dialing, chan, writing, msgs, frames, hungUp>>

\* close(peer_id), which connectTo calls when the data connection fails.
MutClose(r, p) ==
    /\ conn[r][p] # None
    /\ CloseEnds(r, {conn[r][p]})
    /\ conn' = [conn EXCEPT ![r][p] = 0]
    /\ hungUp' = hungUp \cup {{r, p}}
    /\ UNCHANGED <<listening, pair, dialing, backlog, chan, writing, msgs, frames>>
Close(r, p) ==
    /\ conn[r][p] # None
    /\ Serial => ~Sending(r, p)
    /\ CloseEnds(r, {conn[r][p]})
    /\ conn' = [conn EXCEPT ![r][p] = None]
    /\ hungUp' = hungUp \cup {{r, p}}
    /\ UNCHANGED <<listening, pair, dialing, backlog, chan, writing, msgs, frames>>

----------------------------------------------------------------------------
(***************************************************************************)
(* send and recv                                                           *)
(***************************************************************************)

\* Connections r reaches through descriptor n while both their ends are open.
Reached(r, n) == {c \in Conn : fd[<<c, r>>] = n /\ {<<c, r>>, <<c, Other(c, r)>>} \subseteq open}

\* sendAll_: it fails, and writes nothing, when the connection is gone.
SendAll(r, n, part, m) ==
    chan' = [e \in End |-> IF e[1] \in Reached(r, n) /\ e[2] # r /\ e[2] = Other(e[1], r)
                           THEN Append(chan[e], [part |-> part, msg |-> m])
                           ELSE chan[e]]

\* The descriptor is looked up, the lookup's lock released, the header written.
SendHeader(r, w, p) ==
    LET n == fd[<<conn[r][p], r>>]
    IN  /\ writing[r][w] = <<>>
        /\ msgs < MaxMsgs
        /\ conn[r][p] # None
        /\ Serial => ~Sending(r, p)
        /\ msgs' = msgs + 1
        /\ SendAll(r, n, "header", msgs + 1)
        /\ writing' = IF Reached(r, n) = {} THEN writing
                      ELSE [writing EXCEPT ![r][w] = <<p, n, msgs + 1>>]
        /\ UNCHANGED <<listening, pair, dialing, backlog, conn, open, fd, frames, hungUp>>

SendPayload(r, w) ==
    /\ writing[r][w] # <<>>
    /\ writing' = [writing EXCEPT ![r][w] = <<>>]
    /\ SendAll(r, writing[r][w][2], "payload", writing[r][w][3])
    /\ UNCHANGED <<listening, pair, dialing, backlog, conn, open, fd, msgs, frames, hungUp>>

\* recv reads a header and the payload behind it; one thread of a rank receives
\* from a peer.
MutRecv(r, p) ==
    LET e == <<conn[r][p], r>>
    IN  /\ conn[r][p] # None
        /\ Len(chan[e]) >= 2
        /\ frames' = frames \cup {SubSeq(chan[e], 1, 2)}
        /\ chan' = [chan EXCEPT ![e] = Tail(@)]
        /\ UNCHANGED <<listening, pair, dialing, backlog, conn, open, fd, writing, msgs, hungUp>>
Recv(r, p) ==
    LET e == <<conn[r][p], r>>
    IN  /\ conn[r][p] # None
        /\ Len(chan[e]) >= 2
        /\ frames' = frames \cup {SubSeq(chan[e], 1, 2)}
        /\ chan' = [chan EXCEPT ![e] = SubSeq(@, 3, Len(@))]
        /\ UNCHANGED <<listening, pair, dialing, backlog, conn, open, fd, writing, msgs, hungUp>>

----------------------------------------------------------------------------
Next ==
    \/ \E r \in Rank : Start(r) \/ CloseCtrl(r) \/ Accept(r)
    \/ \E c \in Conn : DialRegister(c)
    \/ \E r, p \in Rank : Dial(r, p) \/ Close(r, p) \/ Recv(r, p)
    \/ \E r, p \in Rank, w \in Writer : SendHeader(r, w, p)
    \/ \E r \in Rank, w \in Writer : SendPayload(r, w)

Spec == Init /\ [][Next]_vars

----------------------------------------------------------------------------
TypeOK ==
    /\ listening \in [Rank -> BOOLEAN]
    /\ pair \in Seq(Rank \X Rank) /\ Len(pair) <= MaxConns
    /\ dialing \subseteq Conn
    /\ backlog \in [Rank -> Seq(Conn)]
    /\ conn \in [Rank -> [Rank -> Conn \cup {None}]]
    /\ open \subseteq End
    /\ fd \in [End -> 0 .. MaxConns]
    /\ chan \in [End -> Seq(Token)]
    /\ writing \in [Rank -> [Writer -> {<<>>} \cup (Rank \X (1 .. MaxConns) \X Msg)]]
    /\ msgs \in 0 .. MaxMsgs
    /\ frames \subseteq Seq(Token)
    /\ hungUp \subseteq SUBSET Rank

\* No socket is leaked and none is used by two owners: an open end is in its
\* rank's id_to_conn_ under the other rank, or its connect call or its accept
\* thread still has to decide about it, and only one of these.
EndsOwned ==
    \A e \in open :
        LET c == e[1]  r == e[2]
            pending == IF pair[c][1] = r THEN c \in dialing ELSE c \in Queued(r)
        IN  pending # (conn[r][Other(c, r)] = c)

\* When two ranks have no connect call or accept outstanding and neither has
\* closed its entry, they hold the two ends of one connection (or none): the
\* rule "keep the first-established connection" never breaks "an
\* already-working bidirectional UDS connection" (recvHelloAndBind_).  It takes
\* one dialing rank per pair whose connect calls for a peer do not overlap: of
\* two dialed at once, or from both sides, each rank may keep another one.
Paired ==
    \A r, p \in Rank :
        ( /\ {r, p} \notin hungUp
          /\ \A c \in DOMAIN pair : Between(c, r, p) =>
                 c \notin dialing \cup Queued(r) \cup Queued(p) )
        => conn[r][p] = conn[p][r]

\* recv returns a header together with the payload of the same message, as
\* long as the application keeps to Serial; hmc.h promises it without:
\* "connect/send/recv/close are thread-safe".
FramesIntact ==
    \A f \in frames : f[1].part = "header" /\ f[2].part = "payload" /\ f[1].msg = f[2].msg
=============================================================================
