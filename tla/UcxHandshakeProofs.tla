------------------------- MODULE UcxHandshakeProofs -------------------------
(***************************************************************************)
(* Tagged handshakes for every number of clients, servers, calls and faults: *)
(* an endpoint addresses its peer's memory wherever no handshake has failed, *)
(* and client and server agree on the connection they have.                 *)
(*                                                                         *)
(* The argument is about one call.  Each of its four messages is sent once;  *)
(* on a worker without failures the side that receives it cannot leave the   *)
(* call without it, so that no message of a finished call is left over, and  *)
(* the message a receive takes is that of the call the side is in.          *)
(***************************************************************************)
EXTENDS UcxHandshake, TLAPS, FiniteSetTheorems

\* Where the two sides of call k are.
ClientIn(k, pcs) ==
    client[calls[k].client].call = k /\ client[calls[k].client].pc \in pcs
ServerIn(k, pcs) ==
    server[calls[k].server].call = k /\ server[calls[k].server].pc \in pcs

\* Whose calls the numbers belong to.
Named ==
    /\ linked \cup failed \subseteq 1 .. Len(calls)
    /\ \A s \in Server : \A i \in 1 .. Len(requests[s]) :
          requests[s][i] \in 1 .. Len(calls) /\ calls[requests[s][i]].server = s
    /\ \A w \in Client \cup Server : \A m \in inbox[w] :
          m[2] \in linked /\ w \in {calls[m[2]].client, calls[m[2]].server}
    /\ \A c \in Client, s \in Server : conn[c][s] # None =>
          /\ conn[c][s].call \in linked
          /\ calls[conn[c][s].call] = [client |-> c, server |-> s]

\* What a side is doing, and which messages it has already used.
Sides ==
    /\ \A c \in Client :
          IF client[c].pc = "idle"
          THEN client[c].call = 0
          ELSE /\ client[c].pc # "add"
               /\ client[c].call \in 1 .. Len(calls) /\ calls[client[c].call].client = c
               /\ client[c].pc # "sendHdr" => client[c].call \in linked
               /\ client[c].pc \in {"sendRkey", "recvRkey"} => client[c].hdr \in linked
    /\ \A s \in Server :
          IF server[s].pc = "idle"
          THEN server[s].call = 0
          ELSE /\ server[s].call \in linked /\ calls[server[s].call].server = s
               /\ server[s].pc # "recvHdr" => server[s].hdr \in linked
               /\ server[s].pc \in {"sendRkey", "add"} => server[s].rkey \in linked

TInv == TypeOK /\ Named /\ Sides

\* The messages of call k to its client, if no handshake has failed there.
ClientFine(k) == ~Tainted(calls[k].client) =>
    /\ <<"hdr", k>> \in inbox[calls[k].client] =>
          ClientIn(k, {"sendHdr", "recvHdr"}) /\ ~ServerIn(k, {"recvHdr", "sendHdr"})
    /\ <<"rkey", k>> \in inbox[calls[k].client] =>
          /\ ClientIn(k, {"sendHdr", "recvHdr", "sendRkey", "recvRkey"})
          /\ ~ServerIn(k, {"recvHdr", "sendHdr", "recvRkey", "sendRkey"})
    /\ ServerIn(k, {"recvHdr", "sendHdr"}) => ClientIn(k, {"sendHdr", "recvHdr"})
    /\ ServerIn(k, {"recvRkey", "sendRkey"}) =>
          ClientIn(k, {"sendHdr", "recvHdr", "sendRkey", "recvRkey"})
    /\ k \notin linked => ClientIn(k, {"sendHdr"})

\* The messages to its server, likewise.
ServerFine(k) == ~Tainted(calls[k].server) /\ k \in linked =>
    /\ <<"hdr", k>> \in inbox[calls[k].server] =>
          ServerIn(k, {"recvHdr"}) /\ ~ClientIn(k, {"sendHdr"})
    /\ <<"rkey", k>> \in inbox[calls[k].server] =>
          /\ ServerIn(k, {"recvHdr", "sendHdr", "recvRkey"})
          /\ ~ClientIn(k, {"sendHdr", "recvHdr", "sendRkey"})
    /\ ClientIn(k, {"sendHdr"}) => ServerIn(k, {"recvHdr"})
    /\ ClientIn(k, {"recvHdr", "sendRkey"}) =>
          ServerIn(k, {"recvHdr", "sendHdr", "recvRkey"})

Messages == \A k \in 1 .. Len(calls) : ClientFine(k) /\ ServerFine(k)

\* What a side has received is of the call it is in.
Received ==
    /\ \A c \in Client : ~Tainted(c) /\ client[c].pc \in {"sendRkey", "recvRkey"} =>
          client[c].hdr = client[c].call
    /\ \A s \in Server : ~Tainted(s) =>
          /\ server[s].pc \in {"sendHdr", "recvRkey", "sendRkey", "add"} =>
                server[s].hdr = server[s].call
          /\ server[s].pc \in {"sendRkey", "add"} => server[s].rkey = server[s].call

HInv == Messages /\ Received /\ PeerMetadata

\* A server serves the requests in the order of the calls.
Ordered ==
    \A s \in Server :
        /\ \A i, j \in 1 .. Len(requests[s]) : i < j => requests[s][i] < requests[s][j]
        /\ \A i \in 1 .. Len(requests[s]) : \A k \in linked :
              calls[k].server = s => k < requests[s][i]
        /\ server[s].pc # "idle" =>
              \A k \in linked : calls[k].server = s => k <= server[s].call

\* A client has a connection, or is connecting, by its latest call to the server.
Latest ==
    \A c \in Client :
        /\ \A s \in Server : conn[c][s] # None =>
              \A k \in 1 .. Len(calls) :
                  calls[k] = [client |-> c, server |-> s] => k <= conn[c][s].call
        /\ client[c].pc # "idle" =>
              /\ conn[c][calls[client[c].call].server] = None
              /\ \A k \in 1 .. Len(calls) : calls[k].client = c => k <= client[c].call

\* The server has the latest call of each client that it has served.
Served ==
    \A k \in linked :
        /\ ~Tainted(calls[k].server)
        /\ server[calls[k].server].call # k
        /\ k \notin closed
        /\ \A j \in linked : calls[j] = calls[k] => j <= k
        =>
        /\ table[calls[k].server][KeyOf(calls[k].client)] # None
        /\ table[calls[k].server][KeyOf(calls[k].client)].call = k

\* Two client processes of one host do not listen on the same port.
DistinctKeys == \A c, d \in Client : KeyOf(c) = KeyOf(d) => c = d

----------------------------------------------------------------------------
(***************************************************************************)
(* What the steps do to the state                                          *)
(***************************************************************************)
Message == {"hdr", "rkey"} \X Call
Pc == {"idle", "sendHdr", "recvHdr", "sendRkey", "recvRkey", "add"}

\* The parts of the type invariant.
LEMMA Typed ==
    ASSUME TypeOK
    PROVE  /\ calls \in Seq([client : Client, server : Server]) /\ Len(calls) \in 0 .. MaxCalls
           /\ client \in [Client -> Side] /\ server \in [Server -> Side]
           /\ requests \in [Server -> Seq(Call)]
           /\ linked \subseteq Call /\ failed \subseteq Call
           /\ closed \subseteq Call /\ lost \subseteq Call
           /\ inbox \in [Client \cup Server -> SUBSET Message]
           /\ conn \in [Client -> [Server -> Endpoint \cup {None}]]
           /\ table \in [Server -> [Key -> Endpoint \cup {None}]]
BY DEF TypeOK, Message

LEMMA Element ==
    ASSUME NEW S, NEW q \in Seq(S), NEW i \in 1 .. Len(q)
    PROVE  q[i] \in S
OBVIOUS

\* A call that was made belongs to a client and a server.
LEMMA CallTyped ==
    ASSUME TypeOK, NEW k \in 1 .. Len(calls)
    PROVE  /\ k \in Call /\ calls[k] \in [client : Client, server : Server]
           /\ calls[k].client \in Client /\ calls[k].server \in Server
<1>1. calls \in Seq([client : Client, server : Server]) /\ Len(calls) \in 0 .. MaxCalls BY Typed
<1>2. calls[k] \in [client : Client, server : Server] BY <1>1, Element
<1> QED BY <1>1, <1>2, MaxCallsAssumption DEF Call

\* The state of a side at the start of a call.
LEMMA StartTyped ==
    /\ Idle \in Side /\ Idle.pc = "idle" /\ Idle.call = 0
    /\ \A p \in Pc, k \in Call :
          LET x == [Idle EXCEPT !.pc = p, !.call = k]
          IN  x \in Side /\ x.pc = p /\ x.call = k
<1>1. Idle \in Side /\ Idle.pc = "idle" /\ Idle.call = 0 BY MaxCallsAssumption DEF Idle, Side
<1>2. \A h \in Call : h \in 0 .. MaxCalls BY MaxCallsAssumption DEF Call
<1>3. ASSUME NEW p \in Pc, NEW k \in Call
      PROVE  LET x == [Idle EXCEPT !.pc = p, !.call = k]
             IN  x \in Side /\ x.pc = p /\ x.call = k
  <2>1. PICK y : y = Idle OBVIOUS
  <2>2. y \in Side BY <1>1, <2>1
  <2>3. [y EXCEPT !.pc = p, !.call = k] \in Side BY <1>2, <2>2 DEF Side, Pc
  <2>4. [y EXCEPT !.pc = p, !.call = k].pc = p /\ [y EXCEPT !.pc = p, !.call = k].call = k
      BY <2>2 DEF Side
  <2> QED BY <2>1, <2>3, <2>4
<1> QED BY <1>1, <1>3

\* A tag send adds one message, and nothing anywhere else.
LEMMA Sending ==
    ASSUME TypeOK, NEW w \in Client \cup Server, NEW kind \in {"hdr", "rkey"}, NEW k \in Call,
           TagSend(w, kind, k)
    PROVE  /\ inbox' \in [Client \cup Server -> SUBSET Message]
           /\ \A v \in Client \cup Server : \A m \in inbox'[v] :
                 m \in inbox[v] \/ (v = w /\ m = <<kind, k>>)
<1>1. inbox \in [Client \cup Server -> SUBSET Message] BY Typed
<1>2. <<kind, k>> \in Message BY DEF Message
<1> QED BY <1>1, <1>2 DEF TagSend

\* A receive takes the message it matches.
LEMMA Taking ==
    ASSUME TypeOK, NEW w \in Client \cup Server, NEW m, Take(w, m)
    PROVE  /\ inbox' \in [Client \cup Server -> SUBSET Message]
           /\ \A v \in Client \cup Server : inbox'[v] \subseteq inbox[v]
           /\ m \notin inbox'[w]
<1>1. inbox \in [Client \cup Server -> SUBSET Message] BY Typed
<1> QED BY <1>1 DEF Take

LEMMA Abandoning ==
    ASSUME TypeOK, NEW w \in Client \cup Server, NEW kind, Abandon(w, kind)
    PROVE  /\ inbox' \in [Client \cup Server -> SUBSET Message]
           /\ \A v \in Client \cup Server : inbox'[v] \subseteq inbox[v]
<1>1. CASE UNCHANGED inbox BY <1>1, Typed
<1>2. CASE \E m \in Matching(w, kind) : Take(w, m) BY <1>2, Taking
<1> QED BY <1>1, <1>2 DEF Abandon

\* A message a receive can match.
LEMMA Matched ==
    ASSUME TypeOK, NEW w \in Client \cup Server, NEW kind, NEW m \in Matching(w, kind)
    PROVE  m \in inbox[w] /\ m = <<kind, m[2]>> /\ m[2] \in Call
<1>1. m \in inbox[w] /\ m[1] = kind BY DEF Matching
<1>2. m \in Message BY <1>1, Typed
<1> QED BY <1>1, <1>2 DEF Message

\* Failures and stops are counted together.
LEMMA Counted ==
    ASSUME TypeOK
    PROVE  Cardinality(failed) \in Nat /\ stops \in 0 .. MaxFaults
<1>1. IsFiniteSet(Call) BY MaxCallsAssumption, FS_Interval DEF Call
<1>2. IsFiniteSet(failed) BY <1>1, Typed, FS_Subset
<1> QED BY <1>2, FS_CardinalityType DEF TypeOK

----------------------------------------------------------------------------
(***************************************************************************)
(* Types and names                                                         *)
(***************************************************************************)
LEMMA InitT == Init => TInv
<1> SUFFICES ASSUME Init PROVE TInv OBVIOUS
<1>1. Len(calls) = 0 /\ calls \in Seq([client : Client, server : Server]) BY DEF Init
<1>2. /\ \A c \in Client : client[c] = Idle
      /\ \A s \in Server : server[s] = Idle /\ requests[s] = << >> /\ Len(requests[s]) = 0
    BY DEF Init
<1>3. TypeOK
  <2>1. Len(calls) <= MaxCalls BY <1>1, MaxCallsAssumption
  <2>2. client \in [Client -> Side] /\ server \in [Server -> Side] BY StartTyped DEF Init
  <2>3. stops \in 0 .. MaxFaults BY MaxFaultsAssumption DEF Init
  <2>4. requests \in [Server -> Seq(Call)] BY DEF Init
  <2>5. inbox \in [Client \cup Server -> SUBSET ({"hdr", "rkey"} \X Call)] BY DEF Init
  <2>6. conn \in [Client -> [Server -> Endpoint \cup {None}]] BY DEF Init
  <2>7. table \in [Server -> [Key -> Endpoint \cup {None}]] BY DEF Init
  <2>8. UNION {linked, failed, closed, lost} \subseteq Call /\ registered \subseteq Server
        /\ listener \in [Server -> {"up", "stopping", "down"}] BY DEF Init
  <2> QED BY <1>1, <2>1, <2>2, <2>3, <2>4, <2>5, <2>6, <2>7, <2>8 DEF TypeOK
<1>4. Named
  <2>1. \A s \in Server : \A i \in 1 .. Len(requests[s]) : FALSE BY <1>2
  <2>2. \A w \in Client \cup Server : inbox[w] = {} BY DEF Init
  <2>3. \A c \in Client, s \in Server : conn[c][s] = None BY DEF Init
  <2>4. linked = {} /\ failed = {} BY DEF Init
  <2> QED BY <2>1, <2>2, <2>3, <2>4 DEF Named
<1>5. Sides BY <1>2, StartTyped DEF Sides
<1> QED BY <1>3, <1>4, <1>5 DEF TInv

LEMMA ConnectT ==
    ASSUME TInv, NEW c \in Client, NEW s \in Server, Connect(c, s), NEW k, k = Len(calls) + 1
    PROVE  /\ TInv'
           /\ client[c].pc = "idle" /\ conn[c][s] = None
           /\ k \notin 1 .. Len(calls) /\ 1 .. Len(calls') = 1 .. Len(calls) \cup {k}
           /\ calls'[k] = [client |-> c, server |-> s]
           /\ \A j \in 1 .. Len(calls) : calls'[j] = calls[j]
           /\ client'[c].pc = "sendHdr" /\ client'[c].call = k
           /\ \A d \in Client : d # c => client'[d] = client[d]
           /\ \A r \in Server : r # s => requests'[r] = requests[r]
           /\ Len(requests'[s]) = Len(requests[s]) + 1 /\ Len(requests[s]) \in Nat
           /\ requests'[s][Len(requests[s]) + 1] = k
           /\ \A i \in 1 .. Len(requests[s]) : requests'[s][i] = requests[s][i]
           /\ UNCHANGED <<server, linked, inbox, conn, table, failed, closed>>
<1> DEFINE call == [client |-> c, server |-> s]
<1>1. TypeOK /\ Named /\ Sides BY DEF TInv
<1>2. /\ k \in Call /\ k \notin 1 .. Len(calls) /\ Len(calls) \in Nat
      /\ calls \in Seq([client : Client, server : Server])
      /\ call \in [client : Client, server : Server]
    BY <1>1, Typed, MaxCallsAssumption DEF Connect, Call
<1>3. /\ calls' = Append(calls, call) /\ requests' = [requests EXCEPT ![s] = Append(@, k)]
      /\ client' = [client EXCEPT ![c] = [Idle EXCEPT !.pc = "sendHdr", !.call = k]]
      /\ UNCHANGED <<server, linked, inbox, conn, table, failed, closed, registered, listener, stops, lost>>
    BY DEF Connect, OnConnectRequest, lifecycle
<1>4. /\ calls' \in Seq([client : Client, server : Server]) /\ Len(calls') = k
      /\ calls'[k] = call /\ \A j \in 1 .. Len(calls) : calls'[j] = calls[j]
      /\ 1 .. Len(calls') = 1 .. Len(calls) \cup {k}
    BY <1>2, <1>3
<1>5. /\ client' \in [Client -> Side]
      /\ client'[c].pc = "sendHdr" /\ client'[c].call = k
      /\ \A d \in Client : d # c => client'[d] = client[d]
  <2>1. client \in [Client -> Side] BY <1>1, Typed
  <2>2. PICK x : x = [Idle EXCEPT !.pc = "sendHdr", !.call = k] OBVIOUS
  <2>3. x \in Side /\ x.pc = "sendHdr" /\ x.call = k
    <3>1. k \in Call /\ "sendHdr" \in Pc BY <1>2 DEF Pc
    <3> QED BY <2>2, <3>1, StartTyped, ZenonT(30)
  <2>4. client' = [client EXCEPT ![c] = x] BY <1>3, <2>2
  <2> QED BY <2>1, <2>3, <2>4
<1>6. /\ requests' \in [Server -> Seq(Call)]
      /\ \A r \in Server : r # s => requests'[r] = requests[r]
      /\ Len(requests'[s]) = Len(requests[s]) + 1
      /\ Len(requests[s]) \in Nat
      /\ requests'[s][Len(requests[s]) + 1] = k
      /\ \A i \in 1 .. Len(requests[s]) : requests'[s][i] = requests[s][i]
  <2>1. requests \in [Server -> Seq(Call)] BY <1>1, Typed
  <2>2. requests'[s] = Append(requests[s], k) BY <1>3, <2>1
  <2>3. requests[s] \in Seq(Call) BY <2>1
  <2>4. Append(requests[s], k) \in Seq(Call) BY <1>2, <2>3
  <2> QED BY <1>2, <1>3, <2>1, <2>2, <2>3, <2>4
<1> HIDE DEF call
<1>7. TypeOK'
  <2>1. Len(calls') <= MaxCalls BY <1>2, <1>4 DEF Call
  <2> QED BY <1>1, <1>3, <1>4, <1>5, <1>6, <2>1 DEF TypeOK
<1>8. Named'
  <2>1. (linked \cup failed)' \subseteq 1 .. Len(calls') BY <1>1, <1>3, <1>4 DEF Named
  <2>2. ASSUME NEW r \in Server, NEW i \in 1 .. Len(requests'[r])
        PROVE  requests'[r][i] \in 1 .. Len(calls') /\ calls'[requests'[r][i]].server = r
    <3>1. CASE r = s /\ i = Len(requests[s]) + 1 BY <1>4, <1>6, <3>1 DEF call
    <3>2. CASE r = s /\ i # Len(requests[s]) + 1
      <4>1. i \in 1 .. Len(requests[s]) BY <1>6, <3>2
      <4>2. requests[s][i] \in 1 .. Len(calls) /\ calls[requests[s][i]].server = s
          BY <1>1, <4>1 DEF Named
      <4> QED BY <1>4, <1>6, <3>2, <4>1, <4>2
    <3>3. CASE r # s
      <4>1. i \in 1 .. Len(requests[r]) /\ requests'[r][i] = requests[r][i] BY <1>6, <3>3
      <4>2. requests[r][i] \in 1 .. Len(calls) /\ calls[requests[r][i]].server = r
          BY <1>1, <4>1 DEF Named
      <4> QED BY <1>4, <4>1, <4>2
    <3> QED BY <3>1, <3>2, <3>3
  <2>3. linked \subseteq 1 .. Len(calls) BY <1>1 DEF Named
  <2>4. ASSUME NEW w \in Client \cup Server, NEW m \in inbox'[w]
        PROVE  m[2] \in linked' /\ w \in {calls'[m[2]].client, calls'[m[2]].server}
      BY <1>1, <1>3, <1>4, <2>3 DEF Named
  <2>5. ASSUME NEW d \in Client, NEW r \in Server, conn'[d][r] # None
        PROVE  /\ conn'[d][r].call \in linked'
               /\ calls'[conn'[d][r].call] = [client |-> d, server |-> r]
      BY <1>1, <1>3, <1>4, <2>3, <2>5 DEF Named
  <2> QED BY <2>1, <2>2, <2>4, <2>5 DEF Named
<1>9. Sides'
  <2>1. linked \subseteq 1 .. Len(calls) BY <1>1 DEF Named
  <2> QED BY <1>1, <1>3, <1>4, <1>5, <2>1 DEF Sides, call
<1>10. client[c].pc = "idle" /\ conn[c][s] = None BY DEF Connect
<1> QED BY <1>2, <1>3, <1>4, <1>5, <1>6, <1>7, <1>8, <1>9, <1>10 DEF TInv, call

\* A step of one side in its call: the messages it adds are of that call.
LEMMA NamedStep ==
    ASSUME TInv, UNCHANGED <<calls, linked, requests, conn>>, failed' \subseteq 1 .. Len(calls),
           \A v \in Client \cup Server : \A m \in inbox'[v] :
               \/ m \in inbox[v]
               \/ m[2] \in linked /\ v \in {calls[m[2]].client, calls[m[2]].server}
    PROVE  Named'
<1>1. Named BY DEF TInv
<1>2. linked \subseteq 1 .. Len(calls) BY <1>1 DEF Named
<1>3. \A w \in Client \cup Server : \A m \in inbox'[w] :
          m[2] \in linked' /\ w \in {calls'[m[2]].client, calls'[m[2]].server}
    BY <1>1 DEF Named
<1> QED BY <1>1, <1>2, <1>3 DEF Named

\* The state a side has after a step, if it is a proper one.
GoodClient(c, x) ==
    /\ x \in Side
    /\ IF x.pc = "idle"
       THEN x.call = 0
       ELSE /\ x.pc # "add"
            /\ x.call \in 1 .. Len(calls) /\ calls[x.call].client = c
            /\ x.pc # "sendHdr" => x.call \in linked
            /\ x.pc \in {"sendRkey", "recvRkey"} => x.hdr \in linked
GoodServer(s, x) ==
    /\ x \in Side
    /\ IF x.pc = "idle"
       THEN x.call = 0
       ELSE /\ x.call \in linked /\ calls[x.call].server = s
            /\ x.pc # "recvHdr" => x.hdr \in linked
            /\ x.pc \in {"sendRkey", "add"} => x.rkey \in linked

LEMMA SidesGood ==
    ASSUME TInv
    PROVE  /\ \A c \in Client : GoodClient(c, client[c])
           /\ \A s \in Server : GoodServer(s, server[s])
<1>1. client \in [Client -> Side] /\ server \in [Server -> Side] BY Typed DEF TInv
<1> QED BY <1>1 DEF TInv, Sides, GoodClient, GoodServer

LEMMA ClientMoves ==
    ASSUME TInv, UNCHANGED <<calls, linked, server>>, NEW c \in Client, NEW x,
           client' = [client EXCEPT ![c] = x], GoodClient(c, x)
    PROVE  /\ Sides' /\ client' \in [Client -> Side] /\ client'[c] = x
           /\ \A d \in Client : d # c => client'[d] = client[d]
<1>1. client \in [Client -> Side] /\ x \in Side BY Typed DEF TInv, GoodClient
<1>2. /\ client' \in [Client -> Side] /\ client'[c] = x
      /\ \A d \in Client : d # c => client'[d] = client[d]
    BY <1>1
<1>3. Sides' BY <1>2 DEF TInv, Sides, GoodClient
<1> QED BY <1>2, <1>3

LEMMA ServerMoves ==
    ASSUME TInv, UNCHANGED <<calls, linked, client>>, NEW s \in Server, NEW x,
           server' = [server EXCEPT ![s] = x], GoodServer(s, x)
    PROVE  /\ Sides' /\ server' \in [Server -> Side] /\ server'[s] = x
           /\ \A r \in Server : r # s => server'[r] = server[r]
<1>1. server \in [Server -> Side] /\ x \in Side BY Typed DEF TInv, GoodServer
<1>2. /\ server' \in [Server -> Side] /\ server'[s] = x
      /\ \A r \in Server : r # s => server'[r] = server[r]
    BY <1>1
<1>3. Sides' BY <1>2 DEF TInv, Sides, GoodServer
<1> QED BY <1>2, <1>3

\* A side's record when the side moves on.
LEMMA MovesOn ==
    ASSUME NEW x \in Side, NEW p \in Pc, NEW y, y = [x EXCEPT !.pc = p]
    PROVE  y \in Side /\ y.pc = p /\ y.call = x.call /\ y.hdr = x.hdr /\ y.rkey = x.rkey
<1>1. y.pc = p /\ y.call = x.call /\ y.hdr = x.hdr /\ y.rkey = x.rkey BY DEF Side
<1>2. y \in Side BY DEF Side, Pc
<1> QED BY <1>1, <1>2

LEMMA ClientSendHdrT ==
    ASSUME TInv, NEW c \in Client, ClientSendHdr(c), NEW k, k = client[c].call
    PROVE  /\ TInv'
           /\ client[c].pc = "sendHdr" /\ k \in linked /\ calls[k].client = c
           /\ client'[c].pc = "recvHdr" /\ client'[c].call = k
           /\ client'[c].hdr = client[c].hdr /\ client'[c].rkey = client[c].rkey
           /\ \A d \in Client : d # c => client'[d] = client[d]
           /\ \A w \in Client \cup Server : \A m \in inbox'[w] :
                 m \in inbox[w] \/ (w = calls[k].server /\ m = <<"hdr", k>>)
           /\ UNCHANGED <<calls, server, requests, linked, conn, table, failed, closed>>
<1>1. TypeOK /\ Named /\ Sides BY DEF TInv
<1>2. /\ client[c].pc = "sendHdr" /\ k \in linked /\ TagSend(calls[k].server, "hdr", k)
      /\ client' = [client EXCEPT ![c].pc = "recvHdr"]
      /\ UNCHANGED <<calls, server, requests, linked, conn, table, failed, closed,
                     registered, listener, stops, lost>>
    BY DEF ClientSendHdr, lifecycle
<1>3. k \in linked /\ k \in 1 .. Len(calls) /\ calls[k].client = c
    BY <1>1, <1>2 DEF Sides, Named
<1>4. k \in Call /\ calls[k].server \in Server BY <1>1, <1>3, CallTyped
<1>5. /\ inbox' \in [Client \cup Server -> SUBSET Message]
      /\ \A w \in Client \cup Server : \A m \in inbox'[w] :
             m \in inbox[w] \/ (w = calls[k].server /\ m = <<"hdr", k>>)
    BY <1>1, <1>2, <1>4, Sending
<1>6. Named'
  <2>1. failed' \subseteq 1 .. Len(calls) BY <1>1, <1>2 DEF Named
  <2> QED BY <1>2, <1>3, <1>5, <2>1, NamedStep
<1>7. PICK x : x = [client[c] EXCEPT !.pc = "recvHdr"] OBVIOUS
<1>8. client[c] \in Side /\ client \in [Client -> Side] BY <1>1, Typed
<1>9. /\ x \in Side /\ x.pc = "recvHdr" /\ x.call = k
      /\ x.hdr = client[c].hdr /\ x.rkey = client[c].rkey
    BY <1>7, <1>8, MovesOn DEF Pc
<1>10. GoodClient(c, x)
    BY <1>2, <1>3, <1>9, SidesGood DEF GoodClient
<1>11. client' = [client EXCEPT ![c] = x] BY <1>2, <1>7, <1>8
<1>12. /\ Sides' /\ client' \in [Client -> Side] /\ client'[c] = x
       /\ \A d \in Client : d # c => client'[d] = client[d]
    BY <1>2, <1>10, <1>11, ClientMoves
<1>13. TypeOK' BY <1>1, <1>2, <1>5, <1>12 DEF TypeOK, Message
<1> QED BY <1>2, <1>3, <1>5, <1>6, <1>9, <1>12, <1>13 DEF TInv

LEMMA ClientRecvHdrT ==
    ASSUME TInv, NEW c \in Client, ClientRecvHdr(c), NEW k, k = client[c].call
    PROVE  /\ TInv'
           /\ client[c].pc = "recvHdr" /\ k \in linked /\ calls[k].client = c
           /\ \E j \in linked :
                 /\ <<"hdr", j>> \in inbox[c] /\ <<"hdr", j>> \notin inbox'[c]
                 /\ calls[j].client = c
                 /\ client'[c].hdr = j
           /\ client'[c].pc = "sendRkey" /\ client'[c].call = k
           /\ client'[c].rkey = client[c].rkey
           /\ \A d \in Client : d # c => client'[d] = client[d]
           /\ \A w \in Client \cup Server : inbox'[w] \subseteq inbox[w]
           /\ UNCHANGED <<calls, server, requests, linked, conn, table, failed, closed>>
<1>1. TypeOK /\ Named /\ Sides BY DEF TInv
<1>2. /\ client[c].pc = "recvHdr"
      /\ UNCHANGED <<calls, server, requests, linked, conn, table, failed, closed,
                     registered, listener, stops, lost>>
    BY DEF ClientRecvHdr, lifecycle
<1>3. PICK m \in Matching(c, "hdr") :
          Take(c, m) /\ client' = [client EXCEPT ![c].pc = "sendRkey", ![c].hdr = m[2]]
    BY DEF ClientRecvHdr
<1>4. k \in linked /\ k \in 1 .. Len(calls) /\ calls[k].client = c
    BY <1>1, <1>2 DEF Sides, Named
<1>5. m \in inbox[c] /\ m = <<"hdr", m[2]>> /\ m[2] \in Call BY <1>1, Matched
<1>6. /\ inbox' \in [Client \cup Server -> SUBSET Message]
      /\ \A w \in Client \cup Server : inbox'[w] \subseteq inbox[w]
      /\ m \notin inbox'[c]
    BY <1>1, <1>3, Taking
<1>7. m[2] \in linked /\ calls[m[2]].client = c
  <2>1. m[2] \in linked /\ c \in {calls[m[2]].client, calls[m[2]].server}
      BY <1>1, <1>5 DEF Named
  <2>2. calls[m[2]].client \in Client /\ calls[m[2]].server \in Server
      BY <1>1, <2>1, CallTyped DEF Named
  <2> QED BY <2>1, <2>2, WorkersAssumption
<1>8. Named'
  <2>1. failed' \subseteq 1 .. Len(calls) BY <1>1, <1>2 DEF Named
  <2> QED BY <1>2, <1>6, <2>1, NamedStep
<1>9. PICK h \in Call : h = m[2] BY <1>5
<1>10. PICK x : x = [client[c] EXCEPT !.pc = "sendRkey", !.hdr = h] OBVIOUS
<1>11. client[c] \in Side /\ client \in [Client -> Side] BY <1>1, Typed
<1>12. /\ x \in Side /\ x.pc = "sendRkey" /\ x.call = k
       /\ x.hdr = h /\ x.rkey = client[c].rkey
  <2>1. h \in 0 .. MaxCalls BY MaxCallsAssumption DEF Call
  <2>2. PICK y \in Side : y = client[c] BY <1>11
  <2>3. x = [y EXCEPT !.pc = "sendRkey", !.hdr = h] BY <1>10, <2>2
  <2>4. x \in Side BY <2>1, <2>3 DEF Side
  <2>5. x.pc = "sendRkey" /\ x.call = y.call /\ x.hdr = h /\ x.rkey = y.rkey BY <2>3 DEF Side
  <2> QED BY <2>2, <2>4, <2>5
<1>13. GoodClient(c, x)
    BY <1>2, <1>4, <1>7, <1>9, <1>12, SidesGood DEF GoodClient
<1>14. client' = [client EXCEPT ![c] = x] BY <1>3, <1>9, <1>10, <1>11
<1>15. /\ Sides' /\ client' \in [Client -> Side] /\ client'[c] = x
       /\ \A d \in Client : d # c => client'[d] = client[d]
    BY <1>2, <1>13, <1>14, ClientMoves
<1>16. TypeOK' BY <1>1, <1>2, <1>6, <1>15 DEF TypeOK, Message
<1>17. <<"hdr", h>> \in inbox[c] /\ <<"hdr", h>> \notin inbox'[c] BY <1>5, <1>6, <1>9
<1> QED BY <1>2, <1>4, <1>6, <1>7, <1>8, <1>9, <1>12, <1>15, <1>16, <1>17 DEF TInv

LEMMA ClientSendRkeyT ==
    ASSUME TInv, NEW c \in Client, ClientSendRkey(c), NEW k, k = client[c].call
    PROVE  /\ TInv'
           /\ client[c].pc = "sendRkey" /\ k \in linked /\ calls[k].client = c
           /\ client'[c].pc = "recvRkey" /\ client'[c].call = k
           /\ client'[c].hdr = client[c].hdr /\ client'[c].rkey = client[c].rkey
           /\ \A d \in Client : d # c => client'[d] = client[d]
           /\ \A w \in Client \cup Server : \A m \in inbox'[w] :
                 m \in inbox[w] \/ (w = calls[k].server /\ m = <<"rkey", k>>)
           /\ UNCHANGED <<calls, server, requests, linked, conn, table, failed, closed>>
<1>1. TypeOK /\ Named /\ Sides BY DEF TInv
<1>2. /\ client[c].pc = "sendRkey" /\ TagSend(calls[k].server, "rkey", k)
      /\ client' = [client EXCEPT ![c].pc = "recvRkey"]
      /\ UNCHANGED <<calls, server, requests, linked, conn, table, failed, closed,
                     registered, listener, stops, lost>>
    BY DEF ClientSendRkey, lifecycle
<1>3. k \in linked /\ k \in 1 .. Len(calls) /\ calls[k].client = c
    BY <1>1, <1>2 DEF Sides, Named
<1>4. k \in Call /\ calls[k].server \in Server BY <1>1, <1>3, CallTyped
<1>5. /\ inbox' \in [Client \cup Server -> SUBSET Message]
      /\ \A w \in Client \cup Server : \A m \in inbox'[w] :
             m \in inbox[w] \/ (w = calls[k].server /\ m = <<"rkey", k>>)
    BY <1>1, <1>2, <1>4, Sending
<1>6. Named'
  <2>1. failed' \subseteq 1 .. Len(calls) BY <1>1, <1>2 DEF Named
  <2> QED BY <1>2, <1>3, <1>5, <2>1, NamedStep
<1>7. PICK x : x = [client[c] EXCEPT !.pc = "recvRkey"] OBVIOUS
<1>8. client[c] \in Side /\ client \in [Client -> Side] BY <1>1, Typed
<1>9. /\ x \in Side /\ x.pc = "recvRkey" /\ x.call = k
      /\ x.hdr = client[c].hdr /\ x.rkey = client[c].rkey
    BY <1>7, <1>8, MovesOn DEF Pc
<1>10. GoodClient(c, x)
    BY <1>2, <1>3, <1>9, SidesGood DEF GoodClient
<1>11. client' = [client EXCEPT ![c] = x] BY <1>2, <1>7, <1>8
<1>12. /\ Sides' /\ client' \in [Client -> Side] /\ client'[c] = x
       /\ \A d \in Client : d # c => client'[d] = client[d]
    BY <1>2, <1>10, <1>11, ClientMoves
<1>13. TypeOK' BY <1>1, <1>2, <1>5, <1>12 DEF TypeOK, Message
<1> QED BY <1>2, <1>3, <1>5, <1>6, <1>9, <1>12, <1>13 DEF TInv

LEMMA ServerRecvHdrT ==
    ASSUME TInv, NEW s \in Server, ServerRecvHdr(s), NEW k, k = server[s].call
    PROVE  /\ TInv'
           /\ server[s].pc = "recvHdr" /\ k \in linked /\ calls[k].server = s
           /\ \E j \in linked :
                 /\ <<"hdr", j>> \in inbox[s] /\ <<"hdr", j>> \notin inbox'[s]
                 /\ calls[j].server = s
                 /\ server'[s].hdr = j
           /\ server'[s].pc = "sendHdr" /\ server'[s].call = k
           /\ server'[s].rkey = server[s].rkey
           /\ \A r \in Server : r # s => server'[r] = server[r]
           /\ \A w \in Client \cup Server : inbox'[w] \subseteq inbox[w]
           /\ UNCHANGED <<calls, client, requests, linked, conn, table, failed, closed>>
<1>1. TypeOK /\ Named /\ Sides BY DEF TInv
<1>2. /\ server[s].pc = "recvHdr"
      /\ UNCHANGED <<calls, client, requests, linked, conn, table, failed, closed,
                     registered, listener, stops, lost>>
    BY DEF ServerRecvHdr, lifecycle
<1>3. PICK m \in Matching(s, "hdr") :
          Take(s, m) /\ server' = [server EXCEPT ![s].pc = "sendHdr", ![s].hdr = m[2]]
    BY DEF ServerRecvHdr
<1>4. k \in linked /\ k \in 1 .. Len(calls) /\ calls[k].server = s
    BY <1>1, <1>2 DEF Sides, Named
<1>5. m \in inbox[s] /\ m = <<"hdr", m[2]>> /\ m[2] \in Call BY <1>1, Matched
<1>6. /\ inbox' \in [Client \cup Server -> SUBSET Message]
      /\ \A w \in Client \cup Server : inbox'[w] \subseteq inbox[w]
      /\ m \notin inbox'[s]
    BY <1>1, <1>3, Taking
<1>7. m[2] \in linked /\ calls[m[2]].server = s
  <2>1. m[2] \in linked /\ s \in {calls[m[2]].client, calls[m[2]].server}
      BY <1>1, <1>5 DEF Named
  <2>2. calls[m[2]].client \in Client /\ calls[m[2]].server \in Server
      BY <1>1, <2>1, CallTyped DEF Named
  <2> QED BY <2>1, <2>2, WorkersAssumption
<1>8. Named'
  <2>1. failed' \subseteq 1 .. Len(calls) BY <1>1, <1>2 DEF Named
  <2> QED BY <1>2, <1>6, <2>1, NamedStep
<1>9. PICK h \in Call : h = m[2] BY <1>5
<1>10. PICK x : x = [server[s] EXCEPT !.pc = "sendHdr", !.hdr = h] OBVIOUS
<1>11. server[s] \in Side /\ server \in [Server -> Side] BY <1>1, Typed
<1>12. /\ x \in Side /\ x.pc = "sendHdr" /\ x.call = k
       /\ x.hdr = h /\ x.rkey = server[s].rkey
  <2>1. h \in 0 .. MaxCalls BY MaxCallsAssumption DEF Call
  <2>2. PICK y \in Side : y = server[s] BY <1>11
  <2>3. x = [y EXCEPT !.pc = "sendHdr", !.hdr = h] BY <1>10, <2>2
  <2>4. x \in Side BY <2>1, <2>3 DEF Side
  <2>5. x.pc = "sendHdr" /\ x.call = y.call /\ x.hdr = h /\ x.rkey = y.rkey BY <2>3 DEF Side
  <2> QED BY <2>2, <2>4, <2>5
<1>13. GoodServer(s, x)
    BY <1>2, <1>4, <1>7, <1>9, <1>12, SidesGood DEF GoodServer
<1>14. server' = [server EXCEPT ![s] = x] BY <1>3, <1>9, <1>10, <1>11
<1>15. /\ Sides' /\ server' \in [Server -> Side] /\ server'[s] = x
       /\ \A r \in Server : r # s => server'[r] = server[r]
    BY <1>2, <1>13, <1>14, ServerMoves
<1>16. TypeOK' BY <1>1, <1>2, <1>6, <1>15 DEF TypeOK, Message
<1>17. <<"hdr", h>> \in inbox[s] /\ <<"hdr", h>> \notin inbox'[s] BY <1>5, <1>6, <1>9
<1> QED BY <1>2, <1>4, <1>6, <1>7, <1>8, <1>9, <1>12, <1>15, <1>16, <1>17 DEF TInv

LEMMA ServerSendHdrT ==
    ASSUME TInv, NEW s \in Server, ServerSendHdr(s), NEW k, k = server[s].call
    PROVE  /\ TInv'
           /\ server[s].pc = "sendHdr" /\ k \in linked /\ calls[k].server = s
           /\ server'[s].pc = "recvRkey" /\ server'[s].call = k
           /\ server'[s].hdr = server[s].hdr /\ server'[s].rkey = server[s].rkey
           /\ \A r \in Server : r # s => server'[r] = server[r]
           /\ \A w \in Client \cup Server : \A m \in inbox'[w] :
                 m \in inbox[w] \/ (w = calls[k].client /\ m = <<"hdr", k>>)
           /\ UNCHANGED <<calls, client, requests, linked, conn, table, failed, closed>>
<1>1. TypeOK /\ Named /\ Sides BY DEF TInv
<1>2. /\ server[s].pc = "sendHdr" /\ TagSend(calls[k].client, "hdr", k)
      /\ server' = [server EXCEPT ![s].pc = "recvRkey"]
      /\ UNCHANGED <<calls, client, requests, linked, conn, table, failed, closed,
                     registered, listener, stops, lost>>
    BY DEF ServerSendHdr, lifecycle
<1>3. k \in linked /\ k \in 1 .. Len(calls) /\ calls[k].server = s
    BY <1>1, <1>2 DEF Sides, Named
<1>4. k \in Call /\ calls[k].client \in Client BY <1>1, <1>3, CallTyped
<1>5. /\ inbox' \in [Client \cup Server -> SUBSET Message]
      /\ \A w \in Client \cup Server : \A m \in inbox'[w] :
             m \in inbox[w] \/ (w = calls[k].client /\ m = <<"hdr", k>>)
    BY <1>1, <1>2, <1>4, Sending
<1>6. Named'
  <2>1. failed' \subseteq 1 .. Len(calls) BY <1>1, <1>2 DEF Named
  <2> QED BY <1>2, <1>3, <1>5, <2>1, NamedStep
<1>7. PICK x : x = [server[s] EXCEPT !.pc = "recvRkey"] OBVIOUS
<1>8. server[s] \in Side /\ server \in [Server -> Side] BY <1>1, Typed
<1>9. /\ x \in Side /\ x.pc = "recvRkey" /\ x.call = k
      /\ x.hdr = server[s].hdr /\ x.rkey = server[s].rkey
    BY <1>7, <1>8, MovesOn DEF Pc
<1>10. GoodServer(s, x)
    BY <1>2, <1>3, <1>9, SidesGood DEF GoodServer
<1>11. server' = [server EXCEPT ![s] = x] BY <1>2, <1>7, <1>8
<1>12. /\ Sides' /\ server' \in [Server -> Side] /\ server'[s] = x
       /\ \A r \in Server : r # s => server'[r] = server[r]
    BY <1>2, <1>10, <1>11, ServerMoves
<1>13. TypeOK' BY <1>1, <1>2, <1>5, <1>12 DEF TypeOK, Message
<1> QED BY <1>2, <1>3, <1>5, <1>6, <1>9, <1>12, <1>13 DEF TInv

LEMMA ServerRecvRkeyT ==
    ASSUME TInv, NEW s \in Server, ServerRecvRkey(s), NEW k, k = server[s].call
    PROVE  /\ TInv'
           /\ server[s].pc = "recvRkey" /\ k \in linked /\ calls[k].server = s
           /\ \E j \in linked :
                 /\ <<"rkey", j>> \in inbox[s] /\ <<"rkey", j>> \notin inbox'[s]
                 /\ calls[j].server = s
                 /\ server'[s].rkey = j
           /\ server'[s].pc = "sendRkey" /\ server'[s].call = k
           /\ server'[s].hdr = server[s].hdr
           /\ \A r \in Server : r # s => server'[r] = server[r]
           /\ \A w \in Client \cup Server : inbox'[w] \subseteq inbox[w]
           /\ UNCHANGED <<calls, client, requests, linked, conn, table, failed, closed>>
<1>1. TypeOK /\ Named /\ Sides BY DEF TInv
<1>2. /\ server[s].pc = "recvRkey"
      /\ UNCHANGED <<calls, client, requests, linked, conn, table, failed, closed,
                     registered, listener, stops, lost>>
    BY DEF ServerRecvRkey, lifecycle
<1>3. PICK m \in Matching(s, "rkey") :
          Take(s, m) /\ server' = [server EXCEPT ![s].pc = "sendRkey", ![s].rkey = m[2]]
    BY DEF ServerRecvRkey
<1>4. k \in linked /\ k \in 1 .. Len(calls) /\ calls[k].server = s
    BY <1>1, <1>2 DEF Sides, Named
<1>5. m \in inbox[s] /\ m = <<"rkey", m[2]>> /\ m[2] \in Call BY <1>1, Matched
<1>6. /\ inbox' \in [Client \cup Server -> SUBSET Message]
      /\ \A w \in Client \cup Server : inbox'[w] \subseteq inbox[w]
      /\ m \notin inbox'[s]
    BY <1>1, <1>3, Taking
<1>7. m[2] \in linked /\ calls[m[2]].server = s
  <2>1. m[2] \in linked /\ s \in {calls[m[2]].client, calls[m[2]].server}
      BY <1>1, <1>5 DEF Named
  <2>2. calls[m[2]].client \in Client /\ calls[m[2]].server \in Server
      BY <1>1, <2>1, CallTyped DEF Named
  <2> QED BY <2>1, <2>2, WorkersAssumption
<1>8. Named'
  <2>1. failed' \subseteq 1 .. Len(calls) BY <1>1, <1>2 DEF Named
  <2> QED BY <1>2, <1>6, <2>1, NamedStep
<1>9. PICK h \in Call : h = m[2] BY <1>5
<1>10. PICK x : x = [server[s] EXCEPT !.pc = "sendRkey", !.rkey = h] OBVIOUS
<1>11. server[s] \in Side /\ server \in [Server -> Side] BY <1>1, Typed
<1>12. /\ x \in Side /\ x.pc = "sendRkey" /\ x.call = k
       /\ x.rkey = h /\ x.hdr = server[s].hdr
  <2>1. h \in 0 .. MaxCalls BY MaxCallsAssumption DEF Call
  <2>2. PICK y \in Side : y = server[s] BY <1>11
  <2>3. x = [y EXCEPT !.pc = "sendRkey", !.rkey = h] BY <1>10, <2>2
  <2>4. x \in Side BY <2>1, <2>3 DEF Side
  <2>5. x.pc = "sendRkey" /\ x.call = y.call /\ x.rkey = h /\ x.hdr = y.hdr BY <2>3 DEF Side
  <2> QED BY <2>2, <2>4, <2>5
<1>13. GoodServer(s, x)
    BY <1>2, <1>4, <1>7, <1>9, <1>12, SidesGood DEF GoodServer
<1>14. server' = [server EXCEPT ![s] = x] BY <1>3, <1>9, <1>10, <1>11
<1>15. /\ Sides' /\ server' \in [Server -> Side] /\ server'[s] = x
       /\ \A r \in Server : r # s => server'[r] = server[r]
    BY <1>2, <1>13, <1>14, ServerMoves
<1>16. TypeOK' BY <1>1, <1>2, <1>6, <1>15 DEF TypeOK, Message
<1>17. <<"rkey", h>> \in inbox[s] /\ <<"rkey", h>> \notin inbox'[s] BY <1>5, <1>6, <1>9
<1> QED BY <1>2, <1>4, <1>6, <1>7, <1>8, <1>9, <1>12, <1>15, <1>16, <1>17 DEF TInv

LEMMA ServerSendRkeyT ==
    ASSUME TInv, NEW s \in Server, ServerSendRkey(s), NEW k, k = server[s].call
    PROVE  /\ TInv'
           /\ server[s].pc = "sendRkey" /\ k \in linked /\ calls[k].server = s
           /\ server'[s].pc = "add" /\ server'[s].call = k
           /\ server'[s].hdr = server[s].hdr /\ server'[s].rkey = server[s].rkey
           /\ \A r \in Server : r # s => server'[r] = server[r]
           /\ \A w \in Client \cup Server : \A m \in inbox'[w] :
                 m \in inbox[w] \/ (w = calls[k].client /\ m = <<"rkey", k>>)
           /\ UNCHANGED <<calls, client, requests, linked, conn, table, failed, closed>>
<1>1. TypeOK /\ Named /\ Sides BY DEF TInv
<1>2. /\ server[s].pc = "sendRkey" /\ TagSend(calls[k].client, "rkey", k)
      /\ server' = [server EXCEPT ![s].pc = "add"]
      /\ UNCHANGED <<calls, client, requests, linked, conn, table, failed, closed,
                     registered, listener, stops, lost>>
    BY DEF ServerSendRkey, lifecycle
<1>3. k \in linked /\ k \in 1 .. Len(calls) /\ calls[k].server = s
    BY <1>1, <1>2 DEF Sides, Named
<1>4. k \in Call /\ calls[k].client \in Client BY <1>1, <1>3, CallTyped
<1>5. /\ inbox' \in [Client \cup Server -> SUBSET Message]
      /\ \A w \in Client \cup Server : \A m \in inbox'[w] :
             m \in inbox[w] \/ (w = calls[k].client /\ m = <<"rkey", k>>)
    BY <1>1, <1>2, <1>4, Sending
<1>6. Named'
  <2>1. failed' \subseteq 1 .. Len(calls) BY <1>1, <1>2 DEF Named
  <2> QED BY <1>2, <1>3, <1>5, <2>1, NamedStep
<1>7. PICK x : x = [server[s] EXCEPT !.pc = "add"] OBVIOUS
<1>8. server[s] \in Side /\ server \in [Server -> Side] BY <1>1, Typed
<1>9. /\ x \in Side /\ x.pc = "add" /\ x.call = k
      /\ x.hdr = server[s].hdr /\ x.rkey = server[s].rkey
    BY <1>7, <1>8, MovesOn DEF Pc
<1>10. GoodServer(s, x)
    BY <1>2, <1>3, <1>9, SidesGood DEF GoodServer
<1>11. server' = [server EXCEPT ![s] = x] BY <1>2, <1>7, <1>8
<1>12. /\ Sides' /\ server' \in [Server -> Side] /\ server'[s] = x
       /\ \A r \in Server : r # s => server'[r] = server[r]
    BY <1>2, <1>10, <1>11, ServerMoves
<1>13. TypeOK' BY <1>1, <1>2, <1>5, <1>12 DEF TypeOK, Message
<1> QED BY <1>2, <1>3, <1>5, <1>6, <1>9, <1>12, <1>13 DEF TInv

LEMMA ClientRecvRkeyT ==
    ASSUME TInv, NEW c \in Client, ClientRecvRkey(c), NEW k, k = client[c].call
    PROVE  /\ TInv'
           /\ client[c].pc = "recvRkey" /\ k \in linked /\ calls[k].client = c
           /\ client'[c].pc = "idle" /\ client'[c].call = 0
           /\ \A d \in Client : d # c => client'[d] = client[d]
           /\ \A w \in Client \cup Server : inbox'[w] \subseteq inbox[w]
           /\ \E j \in linked :
                 /\ <<"rkey", j>> \in inbox[c] /\ <<"rkey", j>> \notin inbox'[c]
                 /\ calls[j].client = c
                 /\ conn'[c][calls[k].server] = [call |-> k, hdr |-> client[c].hdr, rkey |-> j]
           /\ \A d \in Client, r \in Server :
                 d # c \/ r # calls[k].server => conn'[d][r] = conn[d][r]
           /\ UNCHANGED <<calls, server, requests, linked, table, failed, closed>>
<1>1. TypeOK /\ Named /\ Sides BY DEF TInv
<1>2. /\ client[c].pc = "recvRkey" /\ client' = [client EXCEPT ![c] = Idle]
      /\ UNCHANGED <<calls, server, requests, linked, table, failed, closed,
                     registered, listener, stops, lost>>
    BY DEF ClientRecvRkey, lifecycle
<1>3. PICK m \in Matching(c, "rkey") :
          /\ Take(c, m)
          /\ conn' = [conn EXCEPT ![c][calls[k].server] =
                         [call |-> k, hdr |-> client[c].hdr, rkey |-> m[2]]]
    BY DEF ClientRecvRkey
<1>4. /\ k \in linked /\ k \in 1 .. Len(calls) /\ calls[k].client = c
      /\ client[c].hdr \in linked
    BY <1>1, <1>2 DEF Sides, Named
<1>5. k \in Call /\ calls[k].server \in Server /\ client[c].hdr \in Call
    BY <1>1, <1>4, CallTyped, Typed
<1>6. m \in inbox[c] /\ m = <<"rkey", m[2]>> /\ m[2] \in Call BY <1>1, Matched
<1>7. /\ inbox' \in [Client \cup Server -> SUBSET Message]
      /\ \A w \in Client \cup Server : inbox'[w] \subseteq inbox[w]
      /\ m \notin inbox'[c]
    BY <1>1, <1>3, Taking
<1>8. m[2] \in linked /\ calls[m[2]].client = c
  <2>1. m[2] \in linked /\ c \in {calls[m[2]].client, calls[m[2]].server}
      BY <1>1, <1>6 DEF Named
  <2>2. calls[m[2]].client \in Client /\ calls[m[2]].server \in Server
      BY <1>1, <2>1, CallTyped DEF Named
  <2> QED BY <2>1, <2>2, WorkersAssumption
<1>9. PICK j \in linked : j = m[2] BY <1>8
<1>10. PICK ep : ep = [call |-> k, hdr |-> client[c].hdr, rkey |-> j] OBVIOUS
<1>11. ep \in Endpoint /\ ep.call = k BY <1>5, <1>6, <1>9, <1>10 DEF Endpoint
<1>12. conn' = [conn EXCEPT ![c][calls[k].server] = ep] BY <1>3, <1>9, <1>10
<1>13. /\ conn' \in [Client -> [Server -> Endpoint \cup {None}]]
       /\ conn'[c][calls[k].server] = ep
       /\ \A d \in Client, r \in Server :
              d # c \/ r # calls[k].server => conn'[d][r] = conn[d][r]
  <2>1. conn \in [Client -> [Server -> Endpoint \cup {None}]] BY <1>1, Typed
  <2> QED BY <1>5, <1>11, <1>12, <2>1
<1>14. /\ Sides' /\ client' \in [Client -> Side] /\ client'[c] = Idle
       /\ \A d \in Client : d # c => client'[d] = client[d]
  <2>1. GoodClient(c, Idle) BY StartTyped DEF GoodClient
  <2> QED BY <1>2, <2>1, ClientMoves
<1>15. TypeOK' BY <1>1, <1>2, <1>7, <1>13, <1>14 DEF TypeOK, Message
<1>16. Named'
  <2>1. calls[k] = [client |-> c, server |-> calls[k].server] BY <1>1, <1>4, CallTyped
  <2>2. ASSUME NEW d \in Client, NEW r \in Server, conn'[d][r] # None
        PROVE  /\ conn'[d][r].call \in linked'
               /\ calls'[conn'[d][r].call] = [client |-> d, server |-> r]
    <3>1. CASE d = c /\ r = calls[k].server BY <1>2, <1>4, <1>11, <1>13, <2>1, <3>1
    <3>2. CASE d # c \/ r # calls[k].server BY <1>1, <1>2, <1>13, <2>2, <3>2 DEF Named
    <3> QED BY <3>1, <3>2
  <2>3. \A w \in Client \cup Server : \A n \in inbox'[w] :
            n[2] \in linked' /\ w \in {calls'[n[2]].client, calls'[n[2]].server}
      BY <1>1, <1>2, <1>7 DEF Named
  <2> QED BY <1>1, <1>2, <2>2, <2>3 DEF Named
<1>17. <<"rkey", j>> \in inbox[c] /\ <<"rkey", j>> \notin inbox'[c] /\ calls[j].client = c
    BY <1>6, <1>7, <1>8, <1>9
<1> QED BY ZenonT(30), <1>2, <1>4, <1>7, <1>10, <1>13, <1>14, <1>15, <1>16, <1>17, StartTyped DEF TInv

\* A call that fails was made.
LEMMA Failing ==
    ASSUME TInv, NEW k \in 1 .. Len(calls), Fails(k)
    PROVE  failed' = failed \cup {k} /\ failed' \subseteq 1 .. Len(calls) /\ failed' \subseteq Call
<1>1. failed' = failed \cup {k} BY DEF Fails
<1>2. failed' \subseteq 1 .. Len(calls) BY <1>1 DEF TInv, Named
<1>3. Len(calls) \in 0 .. MaxCalls BY Typed DEF TInv
<1> QED BY <1>1, <1>2, <1>3, MaxCallsAssumption DEF Call

LEMMA ClientFailT ==
    ASSUME TInv, NEW c \in Client, ClientFail(c), NEW k, k = client[c].call
    PROVE  /\ TInv'
           /\ k \in 1 .. Len(calls) /\ calls[k].client = c /\ failed' = failed \cup {k}
           /\ client'[c].pc = "idle" /\ client'[c].call = 0
           /\ \A d \in Client : d # c => client'[d] = client[d]
           /\ \A w \in Client \cup Server : inbox'[w] \subseteq inbox[w]
           /\ UNCHANGED <<calls, server, requests, linked, conn, table, closed>>
<1>1. TypeOK /\ Named /\ Sides BY DEF TInv
<1>2. /\ client[c].pc # "idle" /\ Abandon(c, Receives(client[c].pc)) /\ Fails(k)
      /\ client' = [client EXCEPT ![c] = Idle]
      /\ UNCHANGED <<calls, server, requests, linked, conn, table, closed,
                     registered, listener, stops, lost>>
    BY DEF ClientFail, lifecycle
<1>3. k \in 1 .. Len(calls) /\ calls[k].client = c BY <1>1, <1>2 DEF Sides
<1>4. failed' = failed \cup {k} /\ failed' \subseteq 1 .. Len(calls) /\ failed' \subseteq Call
    BY <1>2, <1>3, Failing
<1>5. /\ inbox' \in [Client \cup Server -> SUBSET Message]
      /\ \A w \in Client \cup Server : inbox'[w] \subseteq inbox[w]
    BY <1>1, <1>2, Abandoning
<1>6. Named' BY <1>2, <1>4, <1>5, NamedStep
<1>7. /\ Sides' /\ client' \in [Client -> Side] /\ client'[c] = Idle
      /\ \A d \in Client : d # c => client'[d] = client[d]
  <2>1. GoodClient(c, Idle) BY StartTyped DEF GoodClient
  <2> QED BY <1>2, <2>1, ClientMoves
<1>8. TypeOK' BY <1>1, <1>2, <1>4, <1>5, <1>7 DEF TypeOK, Message
<1> QED BY <1>2, <1>3, <1>4, <1>5, <1>6, <1>7, <1>8, StartTyped DEF TInv

LEMMA ServerFailT ==
    ASSUME TInv, NEW s \in Server, ServerFail(s), NEW k, k = server[s].call
    PROVE  /\ TInv'
           /\ k \in 1 .. Len(calls) /\ calls[k].server = s /\ failed' = failed \cup {k}
           /\ server'[s].pc = "idle" /\ server'[s].call = 0
           /\ \A r \in Server : r # s => server'[r] = server[r]
           /\ \A w \in Client \cup Server : inbox'[w] \subseteq inbox[w]
           /\ UNCHANGED <<calls, client, requests, linked, conn, table, closed>>
<1>1. TypeOK /\ Named /\ Sides BY DEF TInv
<1>2. /\ server[s].pc # "idle" /\ Abandon(s, Receives(server[s].pc)) /\ Fails(k)
      /\ server' = [server EXCEPT ![s] = Idle]
      /\ UNCHANGED <<calls, client, requests, linked, conn, table, closed,
                     registered, listener, stops, lost>>
    BY DEF ServerFail, lifecycle
<1>3. k \in 1 .. Len(calls) /\ calls[k].server = s BY <1>1, <1>2 DEF Sides, Named
<1>4. failed' = failed \cup {k} /\ failed' \subseteq 1 .. Len(calls) /\ failed' \subseteq Call
    BY <1>2, <1>3, Failing
<1>5. /\ inbox' \in [Client \cup Server -> SUBSET Message]
      /\ \A w \in Client \cup Server : inbox'[w] \subseteq inbox[w]
    BY <1>1, <1>2, Abandoning
<1>6. Named' BY <1>2, <1>4, <1>5, NamedStep
<1>7. /\ Sides' /\ server' \in [Server -> Side] /\ server'[s] = Idle
      /\ \A r \in Server : r # s => server'[r] = server[r]
  <2>1. GoodServer(s, Idle) BY StartTyped DEF GoodServer
  <2> QED BY <1>2, <2>1, ServerMoves
<1>8. TypeOK' BY <1>1, <1>2, <1>4, <1>5, <1>7 DEF TypeOK, Message
<1> QED BY <1>2, <1>3, <1>4, <1>5, <1>6, <1>7, <1>8, StartTyped DEF TInv

LEMMA ClientDisconnectT ==
    ASSUME TInv, NEW c \in Client, NEW s \in Server, ClientDisconnect(c, s)
    PROVE  /\ TInv'
           /\ client[c].pc = "idle" /\ conn'[c][s] = None
           /\ \A d \in Client, r \in Server : d # c \/ r # s => conn'[d][r] = conn[d][r]
           /\ UNCHANGED <<calls, client, server, requests, linked, inbox, table, failed, closed>>
<1>1. TypeOK /\ Named /\ Sides BY DEF TInv
<1>2. /\ client[c].pc = "idle" /\ conn' = [conn EXCEPT ![c][s] = None]
      /\ UNCHANGED <<calls, client, server, requests, linked, inbox, table, failed, closed,
                     registered, listener, stops, lost>>
    BY DEF ClientDisconnect, lifecycle
<1>3. /\ conn' \in [Client -> [Server -> Endpoint \cup {None}]] /\ conn'[c][s] = None
      /\ \A d \in Client, r \in Server : d # c \/ r # s => conn'[d][r] = conn[d][r]
  <2>1. conn \in [Client -> [Server -> Endpoint \cup {None}]] BY <1>1, Typed
  <2> QED BY <1>2, <2>1
<1>4. TypeOK' BY <1>1, <1>2, <1>3 DEF TypeOK
<1>5. Named'
  <2>1. ASSUME NEW d \in Client, NEW r \in Server, conn'[d][r] # None
        PROVE  /\ conn'[d][r].call \in linked'
               /\ calls'[conn'[d][r].call] = [client |-> d, server |-> r]
      BY <1>1, <1>2, <1>3, <2>1 DEF Named
  <2> QED BY <1>1, <1>2, <2>1 DEF Named
<1>6. Sides' BY <1>1, <1>2 DEF Sides
<1> QED BY <1>2, <1>3, <1>4, <1>5, <1>6 DEF TInv

\* The request the accept thread pops is one of its server, and the others stay.
LEMMA Popping ==
    ASSUME TInv, NEW s \in Server, PopConnRequest(s)
    PROVE  /\ requests' \in [Server -> Seq(Call)]
           /\ Len(requests[s]) \in Nat \ {0} /\ Head(requests[s]) = requests[s][1]
           /\ Head(requests[s]) \in 1 .. Len(calls) /\ calls[Head(requests[s])].server = s
           /\ \A r \in Server : r # s => requests'[r] = requests[r]
           /\ Len(requests'[s]) = Len(requests[s]) - 1
           /\ \A i \in 1 .. Len(requests'[s]) : requests'[s][i] = requests[s][i + 1]
<1>1. requests \in [Server -> Seq(Call)] BY Typed DEF TInv
<1>2. requests[s] \in Seq(Call) /\ requests[s] # << >> BY <1>1 DEF PopConnRequest
<1>3. /\ Len(requests[s]) \in Nat \ {0} /\ Tail(requests[s]) \in Seq(Call)
      /\ Len(Tail(requests[s])) = Len(requests[s]) - 1
      /\ \A i \in 1 .. Len(Tail(requests[s])) : Tail(requests[s])[i] = requests[s][i + 1]
      /\ Head(requests[s]) = requests[s][1]
    BY <1>2
<1>4. 1 \in 1 .. Len(requests[s]) BY <1>3
<1>5. requests[s][1] \in 1 .. Len(calls) /\ calls[requests[s][1]].server = s
    BY <1>4 DEF TInv, Named
<1>6. requests' = [requests EXCEPT ![s] = Tail(requests[s])] BY <1>1 DEF PopConnRequest
<1>7. /\ requests' \in [Server -> Seq(Call)] /\ requests'[s] = Tail(requests[s])
      /\ \A r \in Server : r # s => requests'[r] = requests[r]
    BY <1>1, <1>3, <1>6
<1> QED BY <1>3, <1>5, <1>7

\* Requests that were not popped are still those of their server.
LEMMA StillRequested ==
    ASSUME TInv, NEW s \in Server, PopConnRequest(s), UNCHANGED calls
    PROVE  \A r \in Server : \A i \in 1 .. Len(requests'[r]) :
               requests'[r][i] \in 1 .. Len(calls') /\ calls'[requests'[r][i]].server = r
<1> SUFFICES ASSUME NEW r \in Server, NEW i \in 1 .. Len(requests'[r])
             PROVE  requests'[r][i] \in 1 .. Len(calls') /\ calls'[requests'[r][i]].server = r
    OBVIOUS
<1>1. CASE r # s BY <1>1, Popping DEF TInv, Named
<1>2. CASE r = s
  <2>1. i + 1 \in 1 .. Len(requests[s]) /\ requests'[s][i] = requests[s][i + 1]
      BY <1>2, Popping
  <2>2. requests[s][i + 1] \in 1 .. Len(calls) /\ calls[requests[s][i + 1]].server = s
      BY <2>1 DEF TInv, Named
  <2> QED BY <1>2, <2>1, <2>2
<1> QED BY <1>1, <1>2

LEMMA AcceptT ==
    ASSUME TInv, NEW s \in Server, Accept(s), NEW k, k = Head(requests[s])
    PROVE  /\ TInv'
           /\ server[s].pc = "idle" /\ PopConnRequest(s)
           /\ k \in 1 .. Len(calls) /\ calls[k].server = s /\ linked' = linked \cup {k}
           /\ server'[s].pc = "recvHdr" /\ server'[s].call = k
           /\ \A r \in Server : r # s => server'[r] = server[r]
           /\ UNCHANGED <<calls, client, inbox, conn, table, failed, closed>>
<1>1. TypeOK /\ Named /\ Sides BY DEF TInv
<1>2. /\ server[s].pc = "idle" /\ PopConnRequest(s) /\ linked' = linked \cup {k}
      /\ server' = [server EXCEPT ![s] = [Idle EXCEPT !.pc = "recvHdr", !.call = k]]
      /\ UNCHANGED <<calls, client, inbox, conn, table, failed, closed,
                     registered, listener, stops, lost>>
    BY DEF Accept, lifecycle
<1>3. /\ requests' \in [Server -> Seq(Call)]
      /\ k \in 1 .. Len(calls) /\ calls[k].server = s
    BY <1>2, Popping
<1>4. k \in Call BY <1>1, <1>3, CallTyped
<1>5. /\ server' \in [Server -> Side]
      /\ server'[s].pc = "recvHdr" /\ server'[s].call = k
      /\ \A r \in Server : r # s => server'[r] = server[r]
  <2>1. server \in [Server -> Side] BY <1>1, Typed
  <2>2. PICK x : x = [Idle EXCEPT !.pc = "recvHdr", !.call = k] OBVIOUS
  <2>3. x \in Side /\ x.pc = "recvHdr" /\ x.call = k BY ZenonT(30), <1>4, <2>2, StartTyped DEF Pc
  <2>4. server' = [server EXCEPT ![s] = x] BY <1>2, <2>2
  <2> QED BY <2>1, <2>3, <2>4
<1>6. TypeOK' BY SMTT(30), <1>1, <1>2, <1>3, <1>4, <1>5 DEF TypeOK
<1>7. Named'
  <2>1. \A r \in Server : \A i \in 1 .. Len(requests'[r]) :
            requests'[r][i] \in 1 .. Len(calls') /\ calls'[requests'[r][i]].server = r
      BY <1>2, StillRequested
  <2> QED BY <1>1, <1>2, <1>3, <2>1 DEF Named
<1>8. Sides' BY <1>1, <1>2, <1>3, <1>5 DEF Sides
<1> QED BY <1>2, <1>3, <1>5, <1>6, <1>7, <1>8 DEF TInv

LEMMA DropRequestT ==
    ASSUME TInv, NEW s \in Server, DropRequest(s), NEW k, k = Head(requests[s])
    PROVE  /\ TInv'
           /\ PopConnRequest(s)
           /\ k \in 1 .. Len(calls) /\ calls[k].server = s /\ failed' = failed \cup {k}
           /\ UNCHANGED <<calls, client, server, linked, inbox, conn, table, closed>>
<1>1. TypeOK /\ Named /\ Sides BY DEF TInv
<1>2. /\ PopConnRequest(s) /\ Fails(k)
      /\ UNCHANGED <<calls, client, server, linked, inbox, conn, table, closed,
                     registered, listener, stops, lost>>
    BY DEF DropRequest, lifecycle
<1>3. /\ requests' \in [Server -> Seq(Call)]
      /\ k \in 1 .. Len(calls) /\ calls[k].server = s
    BY <1>2, Popping
<1>4. failed' = failed \cup {k} /\ failed' \subseteq 1 .. Len(calls) /\ failed' \subseteq Call
    BY <1>2, <1>3, Failing
<1>5. TypeOK' BY <1>1, <1>2, <1>3, <1>4 DEF TypeOK
<1>6. Named'
  <2>1. \A r \in Server : \A i \in 1 .. Len(requests'[r]) :
            requests'[r][i] \in 1 .. Len(calls') /\ calls'[requests'[r][i]].server = r
      BY <1>2, StillRequested
  <2> QED BY <1>1, <1>2, <1>4, <2>1 DEF Named
<1>7. Sides' BY <1>1, <1>2 DEF Sides
<1> QED BY <1>2, <1>3, <1>4, <1>5, <1>6, <1>7 DEF TInv

\* The endpoint of call k gets into the table of s under key.
AddEffect(s, k, key) ==
    /\ server[s].pc = "add" /\ k \in linked /\ calls[k].server = s /\ key \in Key
    /\ table'[s][key] = [call |-> k, hdr |-> server[s].hdr, rkey |-> server[s].rkey]
    /\ table'[s][key] \in Endpoint
    /\ \A r \in Server, q \in Key : r # s \/ q # key => table'[r][q] = table[r][q]
    /\ server'[s].pc = "idle" /\ server'[s].call = 0
    /\ \A r \in Server : r # s => server'[r] = server[r]
    /\ UNCHANGED <<calls, client, requests, linked, inbox, conn, failed, closed>>

LEMMA AddT ==
    ASSUME TInv, NEW s \in Server, Add(s), NEW k, k = server[s].call,
           NEW key, key = <<Ip[calls[k].client], Port[calls[server[s].hdr].client]>>
    PROVE  /\ TInv'
           /\ AddEffect(s, k, key)
<1>1. TypeOK /\ Named /\ Sides BY DEF TInv
<1>2. PICK ep : ep = [call |-> k, hdr |-> server[s].hdr, rkey |-> server[s].rkey] OBVIOUS
<1>3. /\ server[s].pc = "add" /\ table' = [table EXCEPT ![s][key] = ep]
      /\ server' = [server EXCEPT ![s] = Idle]
      /\ UNCHANGED <<calls, client, requests, linked, inbox, conn, failed, closed,
                     registered, listener, stops, lost>>
    BY <1>2 DEF Add, Replace, lifecycle
<1>4. /\ k \in linked /\ calls[k].server = s
      /\ server[s].hdr \in linked /\ server[s].rkey \in linked
    BY <1>1, <1>3 DEF Sides
<1>5. /\ k \in 1 .. Len(calls) /\ server[s].hdr \in 1 .. Len(calls)
      /\ k \in Call /\ server[s].hdr \in Call /\ server[s].rkey \in Call
    BY <1>1, <1>4, Typed DEF Named
<1>6. key \in Key
  <2>1. calls[k].client \in Client /\ calls[server[s].hdr].client \in Client
      BY <1>1, <1>5, CallTyped
  <2> QED BY <2>1 DEF Key
<1>7. ep \in Endpoint BY <1>2, <1>5 DEF Endpoint
<1>8. /\ table' \in [Server -> [Key -> Endpoint \cup {None}]]
      /\ table'[s][key] = ep
      /\ \A r \in Server, q \in Key : r # s \/ q # key => table'[r][q] = table[r][q]
  <2>1. table \in [Server -> [Key -> Endpoint \cup {None}]] BY <1>1, Typed
  <2> QED BY <1>3, <1>6, <1>7, <2>1
<1>9. /\ Sides' /\ server' \in [Server -> Side] /\ server'[s] = Idle
      /\ \A r \in Server : r # s => server'[r] = server[r]
  <2>1. GoodServer(s, Idle) BY StartTyped DEF GoodServer
  <2> QED BY <1>3, <2>1, ServerMoves
<1>10. TypeOK' BY <1>1, <1>3, <1>8, <1>9 DEF TypeOK
<1>11. Named'
  <2>1. failed' \subseteq 1 .. Len(calls) BY <1>1, <1>3 DEF Named
  <2> QED BY <1>3, <2>1, NamedStep
<1> QED BY <1>2, <1>3, <1>4, <1>6, <1>7, <1>8, <1>9, <1>10, <1>11, StartTyped DEF TInv, AddEffect

LEMMA ServerDisconnectT ==
    ASSUME TInv, NEW s \in Server, NEW key \in Key, ServerDisconnect(s, key)
    PROVE  /\ TInv'
           /\ table[s][key] # None /\ closed' = closed \cup {table[s][key].call}
           /\ table'[s][key] = None
           /\ \A r \in Server, q \in Key : r # s \/ q # key => table'[r][q] = table[r][q]
           /\ UNCHANGED <<calls, client, server, requests, linked, inbox, conn, failed>>
<1>1. TypeOK /\ Named /\ Sides BY DEF TInv
<1>2. /\ table[s][key] # None /\ closed' = closed \cup {table[s][key].call}
      /\ table' = [table EXCEPT ![s][key] = None]
      /\ UNCHANGED <<calls, client, server, requests, linked, inbox, conn, failed,
                     registered, listener, stops, lost>>
    BY DEF ServerDisconnect, lifecycle
<1>3. table \in [Server -> [Key -> Endpoint \cup {None}]] BY <1>1, Typed
<1>4. /\ table' \in [Server -> [Key -> Endpoint \cup {None}]] /\ table'[s][key] = None
      /\ \A r \in Server, q \in Key : r # s \/ q # key => table'[r][q] = table[r][q]
    BY <1>2, <1>3
<1>5. table[s][key].call \in Call
  <2>1. table[s][key] \in Endpoint BY <1>2, <1>3
  <2> QED BY <2>1 DEF Endpoint
<1>6. TypeOK' BY <1>1, <1>2, <1>4, <1>5 DEF TypeOK
<1>7. Named' BY <1>1, <1>2 DEF Named
<1>8. Sides' BY <1>1, <1>2 DEF Sides
<1> QED BY <1>2, <1>4, <1>6, <1>7, <1>8 DEF TInv

LEMMA StopServerT ==
    ASSUME TInv, NEW s \in Server, StopServer(s)
    PROVE  /\ TInv'
           /\ UNCHANGED <<calls, client, server, requests, linked, inbox, conn, table, failed, closed>>
<1>1. TypeOK /\ Named /\ Sides BY DEF TInv
<1>2. /\ Cardinality(failed) + stops < MaxFaults /\ stops' = stops + 1
      /\ registered' = registered \ {s}
      /\ listener' = [listener EXCEPT ![s] = IF @ = "up" THEN "stopping" ELSE @]
      /\ UNCHANGED <<calls, client, server, requests, linked, inbox, conn, table, failed, closed, lost>>
    BY DEF StopServer
<1>3. stops' \in 0 .. MaxFaults BY <1>1, <1>2, Counted, MaxFaultsAssumption
<1>4. listener' \in [Server -> {"up", "stopping", "down"}] BY <1>1, <1>2 DEF TypeOK
<1>5. TypeOK' BY <1>1, <1>2, <1>3, <1>4 DEF TypeOK
<1>6. Named' BY <1>1, <1>2 DEF Named
<1>7. Sides' BY <1>1, <1>2 DEF Sides
<1> QED BY <1>2, <1>5, <1>6, <1>7 DEF TInv

LEMMA StopListenerT ==
    ASSUME TInv, NEW s \in Server, StopListener(s)
    PROVE  /\ TInv'
           /\ \A r \in Server : server'[r].pc = server[r].pc /\ server'[r].call = server[r].call
           /\ server[s].pc = "idle" /\ \A r \in Server : r # s => server'[r] = server[r]
           /\ requests'[s] = << >> /\ \A r \in Server : r # s => requests'[r] = requests[r]
           /\ UNCHANGED <<calls, client, linked, inbox, conn, table, failed, closed>>
<1>1. TypeOK /\ Named /\ Sides BY DEF TInv
<1>2. /\ server[s].pc = "idle" /\ listener' = [listener EXCEPT ![s] = "down"]
      /\ lost' = lost \cup Range(requests[s])
      /\ requests' = [requests EXCEPT ![s] = << >>]
      /\ server' = [server EXCEPT ![s] = Idle]
      /\ UNCHANGED <<calls, client, linked, inbox, conn, table, failed, closed, registered, stops>>
    BY DEF StopListener, Joined
<1>3. requests \in [Server -> Seq(Call)] /\ lost \subseteq Call BY <1>1, Typed
<1>4. Range(requests[s]) \subseteq Call
  <2>1. requests[s] \in Seq(Call) BY <1>3
  <2>2. \A i \in DOMAIN requests[s] : requests[s][i] \in Call BY <2>1
  <2> QED BY <2>2 DEF Range
<1>5. /\ requests' \in [Server -> Seq(Call)] /\ requests'[s] = << >>
      /\ \A r \in Server : r # s => requests'[r] = requests[r]
    BY <1>2, <1>3
<1>6. /\ Sides' /\ server' \in [Server -> Side] /\ server'[s] = Idle
      /\ \A r \in Server : r # s => server'[r] = server[r]
  <2>1. GoodServer(s, Idle) BY StartTyped DEF GoodServer
  <2> QED BY <1>2, <2>1, ServerMoves
<1>7. server[s].call = 0 BY <1>1, <1>2 DEF Sides
<1>8. listener' \in [Server -> {"up", "stopping", "down"}] BY <1>1, <1>2 DEF TypeOK
<1>9. TypeOK' BY <1>1, <1>2, <1>3, <1>4, <1>5, <1>6, <1>8 DEF TypeOK
<1>10. Named'
  <2>1. ASSUME NEW r \in Server, NEW i \in 1 .. Len(requests'[r])
        PROVE  requests'[r][i] \in 1 .. Len(calls') /\ calls'[requests'[r][i]].server = r
      BY <1>1, <1>2, <1>5 DEF Named
  <2> QED BY <1>1, <1>2, <2>1 DEF Named
<1> QED BY <1>2, <1>5, <1>6, <1>7, <1>9, <1>10, StartTyped DEF TInv

LEMMA InitiateServerT ==
    ASSUME TInv, NEW s \in Server, InitiateServer(s)
    PROVE  /\ TInv'
           /\ \A w \in Client \cup Server : inbox'[w] \subseteq inbox[w]
           /\ UNCHANGED <<calls, client, server, requests, linked, conn, table, failed, closed>>
<1>1. TypeOK /\ Named /\ Sides BY DEF TInv
<1>2. /\ registered' = registered \cup {s}
      /\ UNCHANGED <<calls, client, server, requests, linked, conn, table, failed, closed, stops>>
      /\ \/ /\ listener' = [listener EXCEPT ![s] = "up"] /\ inbox' = [inbox EXCEPT ![s] = {}]
            /\ lost' = lost \cup {k \in failed : calls[k].server = s}
         \/ UNCHANGED <<listener, inbox, lost>>
    BY DEF InitiateServer
<1>3. /\ inbox' \in [Client \cup Server -> SUBSET Message]
      /\ \A w \in Client \cup Server : inbox'[w] \subseteq inbox[w]
  <2>1. inbox \in [Client \cup Server -> SUBSET Message] BY <1>1, Typed
  <2> QED BY <1>2, <2>1
<1>4. lost' \subseteq Call
  <2>1. lost \subseteq Call /\ failed \subseteq Call BY <1>1, Typed
  <2> QED BY <1>2, <2>1
<1>5. listener' \in [Server -> {"up", "stopping", "down"}] BY <1>1, <1>2 DEF TypeOK
<1>6. TypeOK' BY <1>1, <1>2, <1>3, <1>4, <1>5 DEF TypeOK, Message
<1>7. Named'
  <2>1. failed' \subseteq 1 .. Len(calls) BY <1>1, <1>2 DEF Named
  <2> QED BY <1>2, <1>3, <2>1, NamedStep
<1>8. Sides' BY <1>1, <1>2 DEF Sides
<1> QED BY <1>2, <1>3, <1>6, <1>7, <1>8 DEF TInv

LEMMA StutterT ==
    ASSUME TInv, UNCHANGED vars
    PROVE  TInv'
<1>1. UNCHANGED <<calls, client, server, requests, linked, inbox, conn, table, failed, closed,
                  registered, listener, stops, lost>>
    BY DEF vars, lifecycle
<1>2. TypeOK' BY <1>1 DEF TInv, TypeOK
<1>3. Named' BY <1>1 DEF TInv, Named
<1>4. Sides' BY <1>1 DEF TInv, Sides
<1> QED BY <1>2, <1>3, <1>4 DEF TInv

LEMMA NextT == TInv /\ [Next]_vars => TInv'
<1> SUFFICES ASSUME TInv, [Next]_vars PROVE TInv' OBVIOUS
<1>1. ASSUME NEW c \in Client, ClientStep(c) PROVE TInv'
    BY <1>1, ClientSendHdrT, ClientRecvHdrT, ClientSendRkeyT, ClientRecvRkeyT DEF ClientStep
<1>2. ASSUME NEW s \in Server, ServerStep(s) PROVE TInv'
    BY <1>2, AcceptT, ServerRecvHdrT, ServerSendHdrT, ServerRecvRkeyT, ServerSendRkeyT, AddT,
       StopListenerT DEF ServerStep
<1> QED BY <1>1, <1>2, ConnectT, ClientFailT, ClientDisconnectT, DropRequestT, ServerFailT,
       StopServerT, InitiateServerT, ServerDisconnectT, StutterT DEF Next

\* Type correctness of handshakes, for every number of clients, servers, calls
\* and faults.  In particular the key an accept thread files an endpoint under
\* is that of clients that exist, whichever messages it has received.
THEOREM HandshakeTypeCorrect == Spec => []TypeOK
<1>1. TInv => TypeOK BY DEF TInv
<1> QED BY <1>1, InitT, NextT, PTL DEF Spec

----------------------------------------------------------------------------
(***************************************************************************)
(* The order of requests                                                   *)
(***************************************************************************)
LEMMA InitO == Init => Ordered
<1> SUFFICES ASSUME Init PROVE Ordered OBVIOUS
<1>1. \A s \in Server : server[s].pc = "idle" /\ requests[s] = << >> /\ Len(requests[s]) = 0
    BY StartTyped DEF Init
<1> QED BY <1>1 DEF Ordered

\* A step that neither takes nor adds a request.
LEMMA OrderedStays ==
    ASSUME Ordered, UNCHANGED <<calls, linked, requests>>,
           \A r \in Server : server'[r].pc # "idle" =>
               server[r].pc # "idle" /\ server'[r].call = server[r].call
    PROVE  Ordered'
BY DEF Ordered

LEMMA ConnectO ==
    ASSUME TInv, Ordered, NEW c \in Client, NEW s \in Server, Connect(c, s)
    PROVE  Ordered'
<1>1. PICK k : k = Len(calls) + 1 OBVIOUS
<1>2. /\ \A j \in 1 .. Len(calls) : calls'[j] = calls[j]
      /\ \A r \in Server : r # s => requests'[r] = requests[r]
      /\ Len(requests'[s]) = Len(requests[s]) + 1 /\ Len(requests[s]) \in Nat
      /\ requests'[s][Len(requests[s]) + 1] = k
      /\ \A i \in 1 .. Len(requests[s]) : requests'[s][i] = requests[s][i]
      /\ UNCHANGED <<server, linked>>
    BY ZenonT(30), <1>1, ConnectT
<1>3. linked \subseteq 1 .. Len(calls) BY DEF TInv, Named
<1>4. \A j \in 1 .. Len(calls) : j < k /\ j \in Nat
  <2>1. Len(calls) \in 0 .. MaxCalls BY Typed DEF TInv
  <2> QED BY <1>1, <2>1
<1>5. \A i \in 1 .. Len(requests[s]) : requests[s][i] \in 1 .. Len(calls) BY DEF TInv, Named
<1>6. ASSUME NEW r \in Server, NEW i \in 1 .. Len(requests'[r]), NEW j \in 1 .. Len(requests'[r]),
             i < j
      PROVE  requests'[r][i] < requests'[r][j]
  <2>1. CASE r # s BY <1>2, <1>6, <2>1 DEF Ordered
  <2>2. CASE r = s
    <3>1. i \in 1 .. Len(requests[s]) /\ (j \in 1 .. Len(requests[s]) \/ j = Len(requests[s]) + 1)
        BY <1>2, <1>6, <2>2
    <3>2. CASE j \in 1 .. Len(requests[s]) BY <1>2, <1>6, <2>2, <3>1, <3>2 DEF Ordered
    <3>3. CASE j = Len(requests[s]) + 1 BY <1>2, <1>4, <1>5, <2>2, <3>1, <3>3
    <3> QED BY <3>1, <3>2, <3>3
  <2> QED BY <2>1, <2>2
<1>7. ASSUME NEW r \in Server, NEW i \in 1 .. Len(requests'[r]), NEW j \in linked',
             calls'[j].server = r
      PROVE  j < requests'[r][i]
  <2>1. j \in linked /\ j \in 1 .. Len(calls) /\ calls[j].server = r BY <1>2, <1>3, <1>7
  <2>2. CASE r # s BY <1>2, <2>1, <2>2 DEF Ordered
  <2>3. CASE r = s
    <3>1. i \in 1 .. Len(requests[s]) \/ i = Len(requests[s]) + 1 BY <1>2, <2>3
    <3>2. CASE i \in 1 .. Len(requests[s]) BY <1>2, <2>1, <2>3, <3>2 DEF Ordered
    <3>3. CASE i = Len(requests[s]) + 1 BY <1>2, <1>4, <2>1, <2>3, <3>3
    <3> QED BY <3>1, <3>2, <3>3
  <2> QED BY <2>2, <2>3
<1>8. ASSUME NEW r \in Server, server'[r].pc # "idle", NEW j \in linked', calls'[j].server = r
      PROVE  j <= server'[r].call
    BY <1>2, <1>3, <1>8 DEF Ordered
<1> QED BY <1>6, <1>7, <1>8 DEF Ordered

\* What is left of the requests is in order, and above the one popped.
LEMMA PoppingOrdered ==
    ASSUME TInv, Ordered, NEW s \in Server, PopConnRequest(s), NEW k, k = Head(requests[s])
    PROVE  /\ \A r \in Server : \A i, j \in 1 .. Len(requests'[r]) :
                  i < j => requests'[r][i] < requests'[r][j]
           /\ \A r \in Server : \A i \in 1 .. Len(requests'[r]) : \A j \in linked :
                  calls[j].server = r => j < requests'[r][i]
           /\ \A i \in 1 .. Len(requests'[s]) : k < requests'[s][i]
           /\ \A j \in linked : calls[j].server = s => j < k
<1>1. /\ Len(requests[s]) \in Nat \ {0} /\ k = requests[s][1]
      /\ \A r \in Server : r # s => requests'[r] = requests[r]
      /\ Len(requests'[s]) = Len(requests[s]) - 1
      /\ \A i \in 1 .. Len(requests'[s]) : requests'[s][i] = requests[s][i + 1]
    BY Popping
<1>2. \A i \in 1 .. Len(requests'[s]) : i + 1 \in 1 .. Len(requests[s]) /\ 1 < i + 1 /\ i \in Nat
    BY <1>1
<1>3. 1 \in 1 .. Len(requests[s]) BY <1>1
<1>4. ASSUME NEW r \in Server, NEW i \in 1 .. Len(requests'[r]), NEW j \in 1 .. Len(requests'[r]),
             i < j
      PROVE  requests'[r][i] < requests'[r][j]
  <2>1. CASE r # s BY <1>1, <1>4, <2>1 DEF Ordered
  <2>2. CASE r = s
    <3>1. i + 1 < j + 1 BY <1>2, <1>4, <2>2
    <3>2. requests[s][i + 1] < requests[s][j + 1] BY <1>2, <2>2, <3>1 DEF Ordered
    <3> QED BY <1>1, <2>2, <3>2
  <2> QED BY <2>1, <2>2
<1>5. ASSUME NEW r \in Server, NEW i \in 1 .. Len(requests'[r]), NEW j \in linked, calls[j].server = r
      PROVE  j < requests'[r][i]
  <2>1. CASE r # s BY <1>1, <1>5, <2>1 DEF Ordered
  <2>2. CASE r = s
    <3>1. j < requests[s][i + 1] BY <1>2, <1>5, <2>2 DEF Ordered
    <3> QED BY <1>1, <2>2, <3>1
  <2> QED BY <2>1, <2>2
<1>6. ASSUME NEW i \in 1 .. Len(requests'[s]) PROVE k < requests'[s][i]
  <2>1. requests[s][1] < requests[s][i + 1] BY <1>2, <1>3 DEF Ordered
  <2> QED BY <1>1, <2>1
<1>7. \A j \in linked : calls[j].server = s => j < k BY <1>1, <1>3 DEF Ordered
<1> QED BY <1>4, <1>5, <1>6, <1>7

LEMMA AcceptO ==
    ASSUME TInv, Ordered, NEW s \in Server, Accept(s)
    PROVE  Ordered'
<1>1. PICK k : k = Head(requests[s]) OBVIOUS
<1>2. /\ server[s].pc = "idle" /\ PopConnRequest(s)
      /\ k \in 1 .. Len(calls) /\ calls[k].server = s /\ linked' = linked \cup {k}
      /\ server'[s].pc = "recvHdr" /\ server'[s].call = k
      /\ \A r \in Server : r # s => server'[r] = server[r]
      /\ UNCHANGED calls
    BY <1>1, AcceptT
<1>3. /\ \A r \in Server : \A i, j \in 1 .. Len(requests'[r]) :
             i < j => requests'[r][i] < requests'[r][j]
      /\ \A r \in Server : \A i \in 1 .. Len(requests'[r]) : \A j \in linked :
             calls[j].server = r => j < requests'[r][i]
      /\ \A i \in 1 .. Len(requests'[s]) : k < requests'[s][i]
      /\ \A j \in linked : calls[j].server = s => j < k
    BY <1>1, <1>2, PoppingOrdered
<1>4. ASSUME NEW r \in Server, NEW i \in 1 .. Len(requests'[r]), NEW j \in linked', calls'[j].server = r
      PROVE  j < requests'[r][i]
    BY <1>2, <1>3, <1>4
<1>5. ASSUME NEW r \in Server, server'[r].pc # "idle", NEW j \in linked', calls'[j].server = r
      PROVE  j <= server'[r].call
  <2>1. k \in Nat /\ \A i \in linked : i \in Nat BY <1>2 DEF TInv, Named
  <2>2. CASE r = s BY <1>2, <1>3, <1>5, <2>1, <2>2
  <2>3. CASE r # s BY <1>2, <1>5, <2>3 DEF Ordered
  <2> QED BY <2>2, <2>3
<1> QED BY <1>3, <1>4, <1>5 DEF Ordered

LEMMA DropRequestO ==
    ASSUME TInv, Ordered, NEW s \in Server, DropRequest(s)
    PROVE  Ordered'
<1>1. PopConnRequest(s) /\ UNCHANGED <<calls, linked, server>> BY DropRequestT
<1>2. /\ \A r \in Server : \A i, j \in 1 .. Len(requests'[r]) :
             i < j => requests'[r][i] < requests'[r][j]
      /\ \A r \in Server : \A i \in 1 .. Len(requests'[r]) : \A j \in linked :
             calls[j].server = r => j < requests'[r][i]
    BY <1>1, PoppingOrdered
<1> QED BY <1>1, <1>2 DEF Ordered

LEMMA StopListenerO ==
    ASSUME TInv, Ordered, NEW s \in Server, StopListener(s)
    PROVE  Ordered'
<1>1. /\ \A r \in Server : server'[r].pc = server[r].pc /\ server'[r].call = server[r].call
      /\ requests'[s] = << >> /\ \A r \in Server : r # s => requests'[r] = requests[r]
      /\ UNCHANGED <<calls, linked>>
    BY StopListenerT
<1>2. 1 .. Len(requests'[s]) = {} BY <1>1
<1> QED BY <1>1, <1>2 DEF Ordered

LEMMA NextO == TInv /\ Ordered /\ [Next]_vars => Ordered'
<1> SUFFICES ASSUME TInv, Ordered, [Next]_vars PROVE Ordered' OBVIOUS
<1>1. ASSUME NEW c \in Client, ClientStep(c) \/ ClientFail(c) PROVE Ordered'
  <2>1. UNCHANGED <<calls, linked, requests, server>>
      BY <1>1 DEF ClientStep, ClientSendHdr, ClientRecvHdr, ClientSendRkey, ClientRecvRkey, ClientFail
  <2> QED BY <2>1, OrderedStays
<1>2. ASSUME NEW s \in Server, ServerStep(s) PROVE Ordered'
  <2>1. CASE Accept(s) BY <2>1, AcceptO
  <2>2. CASE ServerRecvHdr(s) BY <2>2, ServerRecvHdrT, OrderedStays
  <2>3. CASE ServerSendHdr(s) BY <2>3, ServerSendHdrT, OrderedStays
  <2>4. CASE ServerRecvRkey(s) BY <2>4, ServerRecvRkeyT, OrderedStays
  <2>5. CASE ServerSendRkey(s) BY <2>5, ServerSendRkeyT, OrderedStays
  <2>6. CASE Add(s) BY <2>6, AddT, OrderedStays DEF AddEffect
  <2>7. CASE StopListener(s) BY <2>7, StopListenerO
  <2> QED BY <1>2, <2>1, <2>2, <2>3, <2>4, <2>5, <2>6, <2>7 DEF ServerStep
<1>3. ASSUME NEW c \in Client, NEW s \in Server, Connect(c, s) \/ ClientDisconnect(c, s)
      PROVE  Ordered'
    BY <1>3, ConnectO, ClientDisconnectT, OrderedStays
<1>4. ASSUME NEW s \in Server,
             \/ DropRequest(s) \/ ServerFail(s) \/ StopServer(s) \/ InitiateServer(s)
             \/ \E key \in Key : ServerDisconnect(s, key)
      PROVE  Ordered'
  <2>1. CASE DropRequest(s) BY <2>1, DropRequestO
  <2>2. CASE ServerFail(s) BY <2>2, ServerFailT, OrderedStays
  <2>3. CASE StopServer(s) BY <2>3, StopServerT, OrderedStays
  <2>4. CASE InitiateServer(s) BY <2>4, InitiateServerT, OrderedStays
  <2>5. CASE \E key \in Key : ServerDisconnect(s, key) BY <2>5, ServerDisconnectT, OrderedStays
  <2> QED BY <1>4, <2>1, <2>2, <2>3, <2>4, <2>5
<1>5. CASE UNCHANGED vars BY <1>5, OrderedStays DEF vars
<1> QED BY <1>1, <1>2, <1>3, <1>4, <1>5 DEF Next

----------------------------------------------------------------------------
(***************************************************************************)
(* Messages of one call                                                    *)
(***************************************************************************)
\* A failure stays with the worker it happened on.
LEMMA TaintStays ==
    ASSUME TInv, failed \subseteq failed', \A j \in 1 .. Len(calls) : calls'[j] = calls[j]
    PROVE  \A w : Tainted(w) => Tainted(w)'
<1>1. failed \subseteq 1 .. Len(calls) BY DEF TInv, Named
<1> QED BY <1>1 DEF Tainted

\* A step that is not one of call j.
Elsewhere(j) ==
    /\ \/ client'[calls[j].client] = client[calls[j].client]
       \/ client[calls[j].client].call # j /\ client'[calls[j].client].call # j
    /\ \/ server'[calls[j].server].pc = server[calls[j].server].pc
          /\ server'[calls[j].server].call = server[calls[j].server].call
       \/ server[calls[j].server].call # j /\ server'[calls[j].server].call # j
    /\ j \in linked' <=> j \in linked
    /\ \A w \in Client \cup Server : \A m \in inbox'[w] : m \in inbox[w] \/ m[2] # j

LEMMA Others ==
    ASSUME TInv, Messages, NEW j \in 1 .. Len(calls), Elsewhere(j),
           failed \subseteq failed', \A i \in 1 .. Len(calls) : calls'[i] = calls[i]
    PROVE  ClientFine(j)' /\ ServerFine(j)'
<1>1. calls[j].client \in Client /\ calls[j].server \in Server BY CallTyped DEF TInv
<1>2. calls'[j] = calls[j] OBVIOUS
<1>3. /\ Tainted(calls[j].client) => Tainted(calls[j].client)'
      /\ Tainted(calls[j].server) => Tainted(calls[j].server)'
    BY TaintStays
<1>4. \A P : (ClientIn(j, P)' <=> ClientIn(j, P)) /\ (ServerIn(j, P)' <=> ServerIn(j, P))
    BY <1>2 DEF Elsewhere, ClientIn, ServerIn
<1>5. \A w \in Client \cup Server :
          /\ <<"hdr", j>> \in inbox'[w] => <<"hdr", j>> \in inbox[w]
          /\ <<"rkey", j>> \in inbox'[w] => <<"rkey", j>> \in inbox[w]
    BY DEF Elsewhere
<1>6. j \in linked' <=> j \in linked BY DEF Elsewhere
<1>7. ClientFine(j)' BY <1>1, <1>2, <1>3, <1>4, <1>5, <1>6 DEF Messages, ClientFine
<1>8. ServerFine(j)' BY <1>1, <1>2, <1>3, <1>4, <1>5, <1>6 DEF Messages, ServerFine
<1> QED BY <1>7, <1>8

LEMMA MetadataStays ==
    ASSUME TInv, PeerMetadata, UNCHANGED <<conn, table>>,
           failed \subseteq failed', \A i \in 1 .. Len(calls) : calls'[i] = calls[i]
    PROVE  PeerMetadata'
<1>1. \A w : Tainted(w) => Tainted(w)' BY TaintStays
<1> QED BY <1>1 DEF PeerMetadata

\* The calls a step of one side does not touch are all but its own.
LEMMA ClientElsewhere ==
    ASSUME TInv, NEW c \in Client, NEW k \in 1 .. Len(calls), k = client[c].call,
           client'[c].call \in {k, 0}, \A d \in Client : d # c => client'[d] = client[d],
           UNCHANGED <<server, linked>>,
           \A w \in Client \cup Server : \A m \in inbox'[w] : m \in inbox[w] \/ m[2] = k,
           NEW j \in 1 .. Len(calls), j # k
    PROVE  Elsewhere(j)
<1>1. calls[j].client \in Client BY CallTyped DEF TInv
<1>2. CASE calls[j].client = c BY <1>2 DEF Elsewhere
<1>3. CASE calls[j].client # c BY <1>1, <1>3 DEF Elsewhere
<1> QED BY <1>2, <1>3

LEMMA ServerElsewhere ==
    ASSUME TInv, NEW s \in Server, NEW k \in 1 .. Len(calls), k = server[s].call,
           server'[s].call \in {k, 0}, \A r \in Server : r # s => server'[r] = server[r],
           UNCHANGED <<client, linked>>,
           \A w \in Client \cup Server : \A m \in inbox'[w] : m \in inbox[w] \/ m[2] = k,
           NEW j \in 1 .. Len(calls), j # k
    PROVE  Elsewhere(j)
<1>1. calls[j].server \in Server BY CallTyped DEF TInv
<1>2. CASE calls[j].server = s BY <1>2 DEF Elsewhere
<1>3. CASE calls[j].server # s BY <1>1, <1>3 DEF Elsewhere
<1> QED BY <1>2, <1>3

LEMMA ClientSendHdrM ==
    ASSUME TInv, HInv, NEW c \in Client, ClientSendHdr(c)
    PROVE  HInv'
<1>1. PICK k : k = client[c].call OBVIOUS
<1>2. /\ client[c].pc = "sendHdr" /\ k \in linked /\ calls[k].client = c
      /\ client'[c].pc = "recvHdr" /\ client'[c].call = k
      /\ client'[c].hdr = client[c].hdr /\ client'[c].rkey = client[c].rkey
      /\ \A d \in Client : d # c => client'[d] = client[d]
      /\ \A w \in Client \cup Server : \A m \in inbox'[w] :
            m \in inbox[w] \/ (w = calls[k].server /\ m = <<"hdr", k>>)
      /\ UNCHANGED <<calls, server, requests, linked, conn, table, failed, closed>>
    BY <1>1, ClientSendHdrT
<1>3. k \in 1 .. Len(calls) BY <1>2 DEF TInv, Named
<1>4. calls[k].server \in Server /\ calls[k].server # c
    BY <1>3, CallTyped, WorkersAssumption DEF TInv
<1>5. \A w : Tainted(w)' <=> Tainted(w) BY <1>2 DEF Tainted
<1>6. ASSUME NEW j \in 1 .. Len(calls), j # k PROVE ClientFine(j)' /\ ServerFine(j)'
  <2>1. \A w \in Client \cup Server : \A m \in inbox'[w] : m \in inbox[w] \/ m[2] = k BY <1>2
  <2>2. Elsewhere(j) BY <1>1, <1>2, <1>3, <1>6, <2>1, ClientElsewhere
  <2> QED BY <1>2, <2>2, Others DEF HInv
<1>7. /\ <<"hdr", k>> \in inbox'[c] => <<"hdr", k>> \in inbox[c]
      /\ \A w \in {c, calls[k].server} : <<"rkey", k>> \in inbox'[w] => <<"rkey", k>> \in inbox[w]
    BY <1>2, <1>4
<1>8. ClientFine(k) /\ ServerFine(k) BY <1>3 DEF HInv, Messages
<1>9. ClientFine(k)'
    BY <1>1, <1>2, <1>5, <1>7, <1>8 DEF ClientFine, ClientIn, ServerIn
<1>10. ServerFine(k)'
    BY <1>1, <1>2, <1>5, <1>7, <1>8 DEF ServerFine, ClientIn, ServerIn
<1>11. Messages' BY <1>2, <1>6, <1>9, <1>10 DEF Messages
<1>12. Received'
  <2>1. ASSUME NEW d \in Client, ~Tainted(d)', client'[d].pc \in {"sendRkey", "recvRkey"}
        PROVE  client'[d].hdr = client'[d].call
      BY <1>1, <1>2, <1>5, <2>1 DEF HInv, Received
  <2> QED BY <1>2, <1>5, <2>1 DEF HInv, Received
<1>13. PeerMetadata' BY <1>2, MetadataStays DEF HInv
<1> QED BY <1>11, <1>12, <1>13 DEF HInv

LEMMA ClientRecvHdrM ==
    ASSUME TInv, HInv, NEW c \in Client, ClientRecvHdr(c)
    PROVE  HInv'
<1>1. PICK k : k = client[c].call OBVIOUS
<1>2. /\ client[c].pc = "recvHdr" /\ k \in linked /\ calls[k].client = c
      /\ client'[c].pc = "sendRkey" /\ client'[c].call = k
      /\ client'[c].rkey = client[c].rkey
      /\ \A d \in Client : d # c => client'[d] = client[d]
      /\ \A w \in Client \cup Server : inbox'[w] \subseteq inbox[w]
      /\ UNCHANGED <<calls, server, requests, linked, conn, table, failed, closed>>
    BY <1>1, ClientRecvHdrT
<1>3. PICK h \in linked :
          /\ <<"hdr", h>> \in inbox[c] /\ <<"hdr", h>> \notin inbox'[c]
          /\ calls[h].client = c /\ client'[c].hdr = h
    BY <1>1, ClientRecvHdrT
<1>4. k \in 1 .. Len(calls) /\ h \in 1 .. Len(calls) BY <1>2, <1>3 DEF TInv, Named
<1>5. calls[k].server \in Server BY <1>4, CallTyped DEF TInv
<1>6. \A w : Tainted(w)' <=> Tainted(w) BY <1>2 DEF Tainted
<1>7. ASSUME NEW j \in 1 .. Len(calls), j # k PROVE ClientFine(j)' /\ ServerFine(j)'
  <2>1. \A w \in Client \cup Server : \A m \in inbox'[w] : m \in inbox[w] \/ m[2] = k BY <1>2
  <2>2. Elsewhere(j) BY <1>1, <1>2, <1>4, <1>7, <2>1, ClientElsewhere
  <2> QED BY <1>2, <2>2, Others DEF HInv
<1>8. ClientFine(k) /\ ServerFine(k) BY <1>4 DEF HInv, Messages
<1>9. ~Tainted(c) => h = k
  <2>1. ClientFine(h) BY <1>4 DEF HInv, Messages
  <2> QED BY <1>1, <1>3, <2>1 DEF ClientFine, ClientIn
<1>10. \A w \in {c, calls[k].server} : inbox'[w] \subseteq inbox[w] BY <1>2, <1>5
<1>11. ClientFine(k)'
    BY <1>1, <1>2, <1>3, <1>6, <1>8, <1>9, <1>10 DEF ClientFine, ClientIn, ServerIn
<1>12. ServerFine(k)'
    BY <1>1, <1>2, <1>3, <1>6, <1>8, <1>9, <1>10 DEF ServerFine, ClientIn, ServerIn
<1>13. Messages' BY <1>2, <1>7, <1>11, <1>12 DEF Messages
<1>14. Received'
  <2>1. ASSUME NEW d \in Client, ~Tainted(d)', client'[d].pc \in {"sendRkey", "recvRkey"}
        PROVE  client'[d].hdr = client'[d].call
      BY <1>1, <1>2, <1>3, <1>6, <1>9, <2>1 DEF HInv, Received
  <2> QED BY <1>2, <1>6, <2>1 DEF HInv, Received
<1>15. PeerMetadata' BY <1>2, MetadataStays DEF HInv
<1> QED BY <1>13, <1>14, <1>15 DEF HInv

LEMMA ClientSendRkeyM ==
    ASSUME TInv, HInv, NEW c \in Client, ClientSendRkey(c)
    PROVE  HInv'
<1>1. PICK k : k = client[c].call OBVIOUS
<1>2. /\ client[c].pc = "sendRkey" /\ k \in linked /\ calls[k].client = c
      /\ client'[c].pc = "recvRkey" /\ client'[c].call = k
      /\ client'[c].hdr = client[c].hdr /\ client'[c].rkey = client[c].rkey
      /\ \A d \in Client : d # c => client'[d] = client[d]
      /\ \A w \in Client \cup Server : \A m \in inbox'[w] :
            m \in inbox[w] \/ (w = calls[k].server /\ m = <<"rkey", k>>)
      /\ UNCHANGED <<calls, server, requests, linked, conn, table, failed, closed>>
    BY <1>1, ClientSendRkeyT
<1>3. k \in 1 .. Len(calls) BY <1>2 DEF TInv, Named
<1>4. calls[k].server \in Server /\ calls[k].server # c
    BY <1>3, CallTyped, WorkersAssumption DEF TInv
<1>5. \A w : Tainted(w)' <=> Tainted(w) BY <1>2 DEF Tainted
<1>6. ASSUME NEW j \in 1 .. Len(calls), j # k PROVE ClientFine(j)' /\ ServerFine(j)'
  <2>1. \A w \in Client \cup Server : \A m \in inbox'[w] : m \in inbox[w] \/ m[2] = k BY <1>2
  <2>2. Elsewhere(j) BY <1>1, <1>2, <1>3, <1>6, <2>1, ClientElsewhere
  <2> QED BY <1>2, <2>2, Others DEF HInv
<1>7. /\ <<"rkey", k>> \in inbox'[c] => <<"rkey", k>> \in inbox[c]
      /\ \A w \in {c, calls[k].server} : <<"hdr", k>> \in inbox'[w] => <<"hdr", k>> \in inbox[w]
    BY <1>2, <1>4
<1>8. ClientFine(k) /\ ServerFine(k) BY <1>3 DEF HInv, Messages
<1>9. ClientFine(k)'
    BY <1>1, <1>2, <1>5, <1>7, <1>8 DEF ClientFine, ClientIn, ServerIn
<1>10. ServerFine(k)'
    BY <1>1, <1>2, <1>5, <1>7, <1>8 DEF ServerFine, ClientIn, ServerIn
<1>11. Messages' BY <1>2, <1>6, <1>9, <1>10 DEF Messages
<1>12. Received'
  <2>1. ASSUME NEW d \in Client, ~Tainted(d)', client'[d].pc \in {"sendRkey", "recvRkey"}
        PROVE  client'[d].hdr = client'[d].call
      BY <1>1, <1>2, <1>5, <2>1 DEF HInv, Received
  <2> QED BY <1>2, <1>5, <2>1 DEF HInv, Received
<1>13. PeerMetadata' BY <1>2, MetadataStays DEF HInv
<1> QED BY <1>11, <1>12, <1>13 DEF HInv

LEMMA ServerRecvHdrM ==
    ASSUME TInv, HInv, NEW s \in Server, ServerRecvHdr(s)
    PROVE  HInv'
<1>1. PICK k : k = server[s].call OBVIOUS
<1>2. /\ server[s].pc = "recvHdr" /\ k \in linked /\ calls[k].server = s
      /\ server'[s].pc = "sendHdr" /\ server'[s].call = k
      /\ server'[s].rkey = server[s].rkey
      /\ \A r \in Server : r # s => server'[r] = server[r]
      /\ \A w \in Client \cup Server : inbox'[w] \subseteq inbox[w]
      /\ UNCHANGED <<calls, client, requests, linked, conn, table, failed, closed>>
    BY <1>1, ServerRecvHdrT
<1>3. PICK h \in linked :
          /\ <<"hdr", h>> \in inbox[s] /\ <<"hdr", h>> \notin inbox'[s]
          /\ calls[h].server = s /\ server'[s].hdr = h
    BY <1>1, ServerRecvHdrT
<1>4. k \in 1 .. Len(calls) /\ h \in 1 .. Len(calls) BY <1>2, <1>3 DEF TInv, Named
<1>5. calls[k].client \in Client BY <1>4, CallTyped DEF TInv
<1>6. \A w : Tainted(w)' <=> Tainted(w) BY <1>2 DEF Tainted
<1>7. ASSUME NEW j \in 1 .. Len(calls), j # k PROVE ClientFine(j)' /\ ServerFine(j)'
  <2>1. \A w \in Client \cup Server : \A m \in inbox'[w] : m \in inbox[w] \/ m[2] = k BY <1>2
  <2>2. Elsewhere(j) BY <1>1, <1>2, <1>4, <1>7, <2>1, ServerElsewhere
  <2> QED BY <1>2, <2>2, Others DEF HInv
<1>8. ClientFine(k) /\ ServerFine(k) BY <1>4 DEF HInv, Messages
<1>9. ~Tainted(s) => h = k
  <2>1. ServerFine(h) BY <1>4 DEF HInv, Messages
  <2> QED BY <1>1, <1>3, <2>1 DEF ServerFine, ServerIn
<1>10. \A w \in {s, calls[k].client} : inbox'[w] \subseteq inbox[w] BY <1>2, <1>5
<1>11. ClientFine(k)'
    BY <1>1, <1>2, <1>3, <1>6, <1>8, <1>9, <1>10 DEF ClientFine, ClientIn, ServerIn
<1>12. ServerFine(k)'
    BY <1>1, <1>2, <1>3, <1>6, <1>8, <1>9, <1>10 DEF ServerFine, ClientIn, ServerIn
<1>13. Messages' BY <1>2, <1>7, <1>11, <1>12 DEF Messages
<1>14. Received'
  <2>1. ASSUME NEW r \in Server, ~Tainted(r)'
        PROVE  /\ server'[r].pc \in {"sendHdr", "recvRkey", "sendRkey", "add"} =>
                     server'[r].hdr = server'[r].call
               /\ server'[r].pc \in {"sendRkey", "add"} => server'[r].rkey = server'[r].call
      BY <1>1, <1>2, <1>3, <1>6, <1>9, <2>1 DEF HInv, Received
  <2> QED BY <1>2, <1>6, <2>1 DEF HInv, Received
<1>15. PeerMetadata' BY <1>2, MetadataStays DEF HInv
<1> QED BY <1>13, <1>14, <1>15 DEF HInv

LEMMA ServerSendHdrM ==
    ASSUME TInv, HInv, NEW s \in Server, ServerSendHdr(s)
    PROVE  HInv'
<1>1. PICK k : k = server[s].call OBVIOUS
<1>2. /\ server[s].pc = "sendHdr" /\ k \in linked /\ calls[k].server = s
      /\ server'[s].pc = "recvRkey" /\ server'[s].call = k
      /\ server'[s].hdr = server[s].hdr /\ server'[s].rkey = server[s].rkey
      /\ \A r \in Server : r # s => server'[r] = server[r]
      /\ \A w \in Client \cup Server : \A m \in inbox'[w] :
            m \in inbox[w] \/ (w = calls[k].client /\ m = <<"hdr", k>>)
      /\ UNCHANGED <<calls, client, requests, linked, conn, table, failed, closed>>
    BY <1>1, ServerSendHdrT
<1>3. k \in 1 .. Len(calls) BY <1>2 DEF TInv, Named
<1>4. calls[k].client \in Client /\ calls[k].client # s
    BY <1>3, CallTyped, WorkersAssumption DEF TInv
<1>5. \A w : Tainted(w)' <=> Tainted(w) BY <1>2 DEF Tainted
<1>6. ASSUME NEW j \in 1 .. Len(calls), j # k PROVE ClientFine(j)' /\ ServerFine(j)'
  <2>1. \A w \in Client \cup Server : \A m \in inbox'[w] : m \in inbox[w] \/ m[2] = k BY <1>2
  <2>2. Elsewhere(j) BY <1>1, <1>2, <1>3, <1>6, <2>1, ServerElsewhere
  <2> QED BY <1>2, <2>2, Others DEF HInv
<1>7. /\ <<"hdr", k>> \in inbox'[s] => <<"hdr", k>> \in inbox[s]
      /\ \A w \in {s, calls[k].client} : <<"rkey", k>> \in inbox'[w] => <<"rkey", k>> \in inbox[w]
    BY <1>2, <1>4
<1>8. ClientFine(k) /\ ServerFine(k) BY <1>3 DEF HInv, Messages
<1>9. ClientFine(k)'
    BY <1>1, <1>2, <1>5, <1>7, <1>8 DEF ClientFine, ClientIn, ServerIn
<1>10. ServerFine(k)'
    BY <1>1, <1>2, <1>5, <1>7, <1>8 DEF ServerFine, ClientIn, ServerIn
<1>11. Messages' BY <1>2, <1>6, <1>9, <1>10 DEF Messages
<1>12. Received'
  <2>1. ASSUME NEW r \in Server, ~Tainted(r)'
        PROVE  /\ server'[r].pc \in {"sendHdr", "recvRkey", "sendRkey", "add"} =>
                     server'[r].hdr = server'[r].call
               /\ server'[r].pc \in {"sendRkey", "add"} => server'[r].rkey = server'[r].call
      BY <1>1, <1>2, <1>5, <2>1 DEF HInv, Received
  <2> QED BY <1>2, <1>5, <2>1 DEF HInv, Received
<1>13. PeerMetadata' BY <1>2, MetadataStays DEF HInv
<1> QED BY <1>11, <1>12, <1>13 DEF HInv

LEMMA ServerRecvRkeyM ==
    ASSUME TInv, HInv, NEW s \in Server, ServerRecvRkey(s)
    PROVE  HInv'
<1>1. PICK k : k = server[s].call OBVIOUS
<1>2. /\ server[s].pc = "recvRkey" /\ k \in linked /\ calls[k].server = s
      /\ server'[s].pc = "sendRkey" /\ server'[s].call = k
      /\ server'[s].hdr = server[s].hdr
      /\ \A r \in Server : r # s => server'[r] = server[r]
      /\ \A w \in Client \cup Server : inbox'[w] \subseteq inbox[w]
      /\ UNCHANGED <<calls, client, requests, linked, conn, table, failed, closed>>
    BY <1>1, ServerRecvRkeyT
<1>3. PICK h \in linked :
          /\ <<"rkey", h>> \in inbox[s] /\ <<"rkey", h>> \notin inbox'[s]
          /\ calls[h].server = s /\ server'[s].rkey = h
    BY <1>1, ServerRecvRkeyT
<1>4. k \in 1 .. Len(calls) /\ h \in 1 .. Len(calls) BY <1>2, <1>3 DEF TInv, Named
<1>5. calls[k].client \in Client BY <1>4, CallTyped DEF TInv
<1>6. \A w : Tainted(w)' <=> Tainted(w) BY <1>2 DEF Tainted
<1>7. ASSUME NEW j \in 1 .. Len(calls), j # k PROVE ClientFine(j)' /\ ServerFine(j)'
  <2>1. \A w \in Client \cup Server : \A m \in inbox'[w] : m \in inbox[w] \/ m[2] = k BY <1>2
  <2>2. Elsewhere(j) BY <1>1, <1>2, <1>4, <1>7, <2>1, ServerElsewhere
  <2> QED BY <1>2, <2>2, Others DEF HInv
<1>8. ClientFine(k) /\ ServerFine(k) BY <1>4 DEF HInv, Messages
<1>9. ~Tainted(s) => h = k
  <2>1. ServerFine(h) BY <1>4 DEF HInv, Messages
  <2> QED BY <1>1, <1>3, <2>1 DEF ServerFine, ServerIn
<1>10. \A w \in {s, calls[k].client} : inbox'[w] \subseteq inbox[w] BY <1>2, <1>5
<1>11. ClientFine(k)'
    BY <1>1, <1>2, <1>3, <1>6, <1>8, <1>9, <1>10 DEF ClientFine, ClientIn, ServerIn
<1>12. ServerFine(k)'
    BY <1>1, <1>2, <1>3, <1>6, <1>8, <1>9, <1>10 DEF ServerFine, ClientIn, ServerIn
<1>13. Messages' BY <1>2, <1>7, <1>11, <1>12 DEF Messages
<1>14. Received'
  <2>1. ASSUME NEW r \in Server, ~Tainted(r)'
        PROVE  /\ server'[r].pc \in {"sendHdr", "recvRkey", "sendRkey", "add"} =>
                     server'[r].hdr = server'[r].call
               /\ server'[r].pc \in {"sendRkey", "add"} => server'[r].rkey = server'[r].call
      BY <1>1, <1>2, <1>3, <1>6, <1>9, <2>1 DEF HInv, Received
  <2> QED BY <1>2, <1>6, <2>1 DEF HInv, Received
<1>15. PeerMetadata' BY <1>2, MetadataStays DEF HInv
<1> QED BY <1>13, <1>14, <1>15 DEF HInv

LEMMA ServerSendRkeyM ==
    ASSUME TInv, HInv, NEW s \in Server, ServerSendRkey(s)
    PROVE  HInv'
<1>1. PICK k : k = server[s].call OBVIOUS
<1>2. /\ server[s].pc = "sendRkey" /\ k \in linked /\ calls[k].server = s
      /\ server'[s].pc = "add" /\ server'[s].call = k
      /\ server'[s].hdr = server[s].hdr /\ server'[s].rkey = server[s].rkey
      /\ \A r \in Server : r # s => server'[r] = server[r]
      /\ \A w \in Client \cup Server : \A m \in inbox'[w] :
            m \in inbox[w] \/ (w = calls[k].client /\ m = <<"rkey", k>>)
      /\ UNCHANGED <<calls, client, requests, linked, conn, table, failed, closed>>
    BY <1>1, ServerSendRkeyT
<1>3. k \in 1 .. Len(calls) BY <1>2 DEF TInv, Named
<1>4. calls[k].client \in Client /\ calls[k].client # s
    BY <1>3, CallTyped, WorkersAssumption DEF TInv
<1>5. \A w : Tainted(w)' <=> Tainted(w) BY <1>2 DEF Tainted
<1>6. ASSUME NEW j \in 1 .. Len(calls), j # k PROVE ClientFine(j)' /\ ServerFine(j)'
  <2>1. \A w \in Client \cup Server : \A m \in inbox'[w] : m \in inbox[w] \/ m[2] = k BY <1>2
  <2>2. Elsewhere(j) BY <1>1, <1>2, <1>3, <1>6, <2>1, ServerElsewhere
  <2> QED BY <1>2, <2>2, Others DEF HInv
<1>7. /\ <<"rkey", k>> \in inbox'[s] => <<"rkey", k>> \in inbox[s]
      /\ \A w \in {s, calls[k].client} : <<"hdr", k>> \in inbox'[w] => <<"hdr", k>> \in inbox[w]
    BY <1>2, <1>4
<1>8. ClientFine(k) /\ ServerFine(k) BY <1>3 DEF HInv, Messages
<1>9. ClientFine(k)'
    BY <1>1, <1>2, <1>5, <1>7, <1>8 DEF ClientFine, ClientIn, ServerIn
<1>10. ServerFine(k)'
    BY <1>1, <1>2, <1>5, <1>7, <1>8 DEF ServerFine, ClientIn, ServerIn
<1>11. Messages' BY <1>2, <1>6, <1>9, <1>10 DEF Messages
<1>12. Received'
  <2>1. ASSUME NEW r \in Server, ~Tainted(r)'
        PROVE  /\ server'[r].pc \in {"sendHdr", "recvRkey", "sendRkey", "add"} =>
                     server'[r].hdr = server'[r].call
               /\ server'[r].pc \in {"sendRkey", "add"} => server'[r].rkey = server'[r].call
      BY <1>1, <1>2, <1>5, <2>1 DEF HInv, Received
  <2> QED BY <1>2, <1>5, <2>1 DEF HInv, Received
<1>13. PeerMetadata' BY <1>2, MetadataStays DEF HInv
<1> QED BY <1>11, <1>12, <1>13 DEF HInv

LEMMA InitM == Init => HInv
<1> SUFFICES ASSUME Init PROVE HInv OBVIOUS
<1>1. 1 .. Len(calls) = {} BY DEF Init
<1>2. /\ \A c \in Client : client[c].pc = "idle" /\ \A s \in Server : conn[c][s] = None
      /\ \A s \in Server : server[s].pc = "idle" /\ \A key \in Key : table[s][key] = None
    BY StartTyped DEF Init
<1>3. Messages BY <1>1 DEF Messages
<1>4. Received BY <1>2 DEF Received
<1>5. PeerMetadata BY <1>2 DEF PeerMetadata
<1> QED BY <1>3, <1>4, <1>5 DEF HInv

LEMMA ConnectM ==
    ASSUME TInv, HInv, NEW c \in Client, NEW s \in Server, Connect(c, s)
    PROVE  HInv'
<1>1. PICK k : k = Len(calls) + 1 OBVIOUS
<1>2. /\ client[c].pc = "idle"
      /\ k \notin 1 .. Len(calls) /\ 1 .. Len(calls') = 1 .. Len(calls) \cup {k}
      /\ calls'[k] = [client |-> c, server |-> s]
      /\ \A j \in 1 .. Len(calls) : calls'[j] = calls[j]
      /\ client'[c].pc = "sendHdr" /\ client'[c].call = k
      /\ \A d \in Client : d # c => client'[d] = client[d]
      /\ UNCHANGED <<server, linked, inbox, conn, table, failed, closed>>
    BY <1>1, ConnectT
<1>3. client[c].call = 0 BY <1>2 DEF TInv, Sides
<1>4. \A w : Tainted(w) => Tainted(w)' BY <1>2, TaintStays
<1>5. ASSUME NEW j \in 1 .. Len(calls) PROVE ClientFine(j)' /\ ServerFine(j)'
  <2>1. calls[j].client \in Client BY CallTyped DEF TInv
  <2>2. j # 0 /\ j # k BY <1>2
  <2>3. Elsewhere(j)
    <3>1. CASE calls[j].client = c BY <1>2, <1>3, <2>2, <3>1 DEF Elsewhere
    <3>2. CASE calls[j].client # c BY <1>2, <2>1, <3>2 DEF Elsewhere
    <3> QED BY <3>1, <3>2
  <2> QED BY <1>2, <2>3, Others DEF HInv
<1>6. k \notin linked BY <1>2 DEF TInv, Named
<1>7. ClientFine(k)'
  <2>1. <<"hdr", k>> \notin inbox[c] /\ <<"rkey", k>> \notin inbox[c]
    <3>1. \A m \in inbox[c] : m[2] \in linked BY DEF TInv, Named
    <3> QED BY <1>6, <3>1
  <2>2. server[s].call # k
    <3>1. CASE server[s].pc = "idle"
      <4>1. server[s].call = 0 BY <3>1 DEF TInv, Sides
      <4>2. k # 0
        <5>1. Len(calls) \in 0 .. MaxCalls BY Typed DEF TInv
        <5> QED BY <1>1, <5>1
      <4> QED BY <4>1, <4>2
    <3>2. CASE server[s].pc # "idle" BY <1>6, <3>2 DEF TInv, Sides
    <3> QED BY <3>1, <3>2
  <2> QED BY <1>2, <2>1, <2>2 DEF ClientFine, ClientIn, ServerIn
<1>8. ServerFine(k)' BY <1>2, <1>6 DEF ServerFine
<1>9. Messages' BY <1>2, <1>5, <1>7, <1>8 DEF Messages
<1>10. Received'
  <2>1. ASSUME NEW d \in Client, ~Tainted(d)', client'[d].pc \in {"sendRkey", "recvRkey"}
        PROVE  client'[d].hdr = client'[d].call
      BY <1>2, <1>4, <2>1 DEF HInv, Received
  <2> QED BY <1>2, <1>4, <2>1 DEF HInv, Received
<1>11. PeerMetadata' BY <1>2, MetadataStays DEF HInv
<1> QED BY <1>9, <1>10, <1>11 DEF HInv

LEMMA ClientRecvRkeyM ==
    ASSUME TInv, HInv, NEW c \in Client, ClientRecvRkey(c)
    PROVE  HInv'
<1>1. PICK k : k = client[c].call OBVIOUS
<1>2. /\ client[c].pc = "recvRkey" /\ k \in linked /\ calls[k].client = c
      /\ client'[c].pc = "idle" /\ client'[c].call = 0
      /\ \A d \in Client : d # c => client'[d] = client[d]
      /\ \A w \in Client \cup Server : inbox'[w] \subseteq inbox[w]
      /\ \A d \in Client, r \in Server :
            d # c \/ r # calls[k].server => conn'[d][r] = conn[d][r]
      /\ UNCHANGED <<calls, server, requests, linked, table, failed, closed>>
    BY <1>1, ClientRecvRkeyT
<1>3. PICK h \in linked :
          /\ <<"rkey", h>> \in inbox[c] /\ <<"rkey", h>> \notin inbox'[c]
          /\ calls[h].client = c
          /\ conn'[c][calls[k].server] = [call |-> k, hdr |-> client[c].hdr, rkey |-> h]
    BY <1>1, ClientRecvRkeyT
<1>4. k \in 1 .. Len(calls) /\ h \in 1 .. Len(calls) BY <1>2, <1>3 DEF TInv, Named
<1>5. calls[k].server \in Server BY <1>4, CallTyped DEF TInv
<1>6. \A w : Tainted(w)' <=> Tainted(w) BY <1>2 DEF Tainted
<1>7. ASSUME NEW j \in 1 .. Len(calls), j # k PROVE ClientFine(j)' /\ ServerFine(j)'
  <2>1. \A w \in Client \cup Server : \A m \in inbox'[w] : m \in inbox[w] \/ m[2] = k BY <1>2
  <2>2. Elsewhere(j) BY <1>1, <1>2, <1>4, <1>7, <2>1, ClientElsewhere
  <2> QED BY <1>2, <2>2, Others DEF HInv
<1>8. ClientFine(k) /\ ServerFine(k) BY <1>4 DEF HInv, Messages
<1>9. ~Tainted(c) => h = k
  <2>1. ClientFine(h) BY <1>4 DEF HInv, Messages
  <2> QED BY <1>1, <1>3, <2>1 DEF ClientFine, ClientIn
<1>10. \A w \in {c, calls[k].server} : inbox'[w] \subseteq inbox[w] BY <1>2, <1>5
<1>11. ClientFine(k)'
    BY <1>1, <1>2, <1>3, <1>6, <1>8, <1>9, <1>10 DEF ClientFine, ClientIn, ServerIn
<1>12. ServerFine(k)'
    BY <1>1, <1>2, <1>3, <1>6, <1>8, <1>9, <1>10 DEF ServerFine, ClientIn, ServerIn
<1>13. Messages' BY <1>2, <1>7, <1>11, <1>12 DEF Messages
<1>14. Received'
  <2>1. ASSUME NEW d \in Client, ~Tainted(d)', client'[d].pc \in {"sendRkey", "recvRkey"}
        PROVE  client'[d].hdr = client'[d].call
      BY <1>2, <1>6, <2>1 DEF HInv, Received
  <2> QED BY <1>2, <1>6, <2>1 DEF HInv, Received
<1>15. PeerMetadata'
  <2>1. ~Tainted(c) => client[c].hdr = k BY <1>1, <1>2 DEF HInv, Received
  <2>2. ASSUME NEW d \in Client, NEW r \in Server, ~Tainted(d)', conn'[d][r] # None
        PROVE  conn'[d][r].hdr = conn'[d][r].call /\ conn'[d][r].rkey = conn'[d][r].call
    <3>1. CASE d = c /\ r = calls[k].server BY <1>3, <1>6, <1>9, <2>1, <2>2, <3>1
    <3>2. CASE d # c \/ r # calls[k].server
        BY <1>2, <1>6, <2>2, <3>2 DEF HInv, PeerMetadata
    <3> QED BY <3>1, <3>2
  <2>3. ASSUME NEW r \in Server, NEW key \in Key, ~Tainted(r)', table'[r][key] # None
        PROVE  /\ table'[r][key].hdr = table'[r][key].call
               /\ table'[r][key].rkey = table'[r][key].call
      BY <1>2, <1>6, <2>3 DEF HInv, PeerMetadata
  <2> QED BY <2>2, <2>3 DEF PeerMetadata
<1> QED BY <1>13, <1>14, <1>15 DEF HInv

LEMMA ClientFailM ==
    ASSUME TInv, HInv, NEW c \in Client, ClientFail(c)
    PROVE  HInv'
<1>1. PICK k : k = client[c].call OBVIOUS
<1>2. /\ k \in 1 .. Len(calls) /\ calls[k].client = c /\ failed' = failed \cup {k}
      /\ client'[c].pc = "idle" /\ client'[c].call = 0
      /\ \A d \in Client : d # c => client'[d] = client[d]
      /\ \A w \in Client \cup Server : inbox'[w] \subseteq inbox[w]
      /\ UNCHANGED <<calls, server, requests, linked, conn, table, closed>>
    BY <1>1, ClientFailT
<1>3. \A w : Tainted(w) => Tainted(w)' BY <1>2, TaintStays
<1>4. Tainted(calls[k].client)' /\ Tainted(calls[k].server)' BY <1>2 DEF Tainted
<1>5. ASSUME NEW j \in 1 .. Len(calls), j # k PROVE ClientFine(j)' /\ ServerFine(j)'
  <2>1. \A w \in Client \cup Server : \A m \in inbox'[w] : m \in inbox[w] \/ m[2] = k BY <1>2
  <2>2. Elsewhere(j) BY <1>1, <1>2, <1>5, <2>1, ClientElsewhere
  <2> QED BY <1>2, <2>2, Others DEF HInv
<1>6. ClientFine(k)' /\ ServerFine(k)' BY <1>2, <1>4 DEF ClientFine, ServerFine
<1>7. Messages' BY <1>2, <1>5, <1>6 DEF Messages
<1>8. Received'
  <2>1. ASSUME NEW d \in Client, ~Tainted(d)', client'[d].pc \in {"sendRkey", "recvRkey"}
        PROVE  client'[d].hdr = client'[d].call
      BY <1>2, <1>3, <2>1 DEF HInv, Received
  <2> QED BY <1>2, <1>3, <2>1 DEF HInv, Received
<1>9. PeerMetadata' BY <1>2, MetadataStays DEF HInv
<1> QED BY <1>7, <1>8, <1>9 DEF HInv

LEMMA ServerFailM ==
    ASSUME TInv, HInv, NEW s \in Server, ServerFail(s)
    PROVE  HInv'
<1>1. PICK k : k = server[s].call OBVIOUS
<1>2. /\ k \in 1 .. Len(calls) /\ calls[k].server = s /\ failed' = failed \cup {k}
      /\ server'[s].pc = "idle" /\ server'[s].call = 0
      /\ \A r \in Server : r # s => server'[r] = server[r]
      /\ \A w \in Client \cup Server : inbox'[w] \subseteq inbox[w]
      /\ UNCHANGED <<calls, client, requests, linked, conn, table, closed>>
    BY <1>1, ServerFailT
<1>3. \A w : Tainted(w) => Tainted(w)' BY <1>2, TaintStays
<1>4. Tainted(calls[k].client)' /\ Tainted(calls[k].server)' BY <1>2 DEF Tainted
<1>5. ASSUME NEW j \in 1 .. Len(calls), j # k PROVE ClientFine(j)' /\ ServerFine(j)'
  <2>1. \A w \in Client \cup Server : \A m \in inbox'[w] : m \in inbox[w] \/ m[2] = k BY <1>2
  <2>2. Elsewhere(j) BY <1>1, <1>2, <1>5, <2>1, ServerElsewhere
  <2> QED BY <1>2, <2>2, Others DEF HInv
<1>6. ClientFine(k)' /\ ServerFine(k)' BY <1>2, <1>4 DEF ClientFine, ServerFine
<1>7. Messages' BY <1>2, <1>5, <1>6 DEF Messages
<1>8. Received'
  <2>1. ASSUME NEW r \in Server, ~Tainted(r)'
        PROVE  /\ server'[r].pc \in {"sendHdr", "recvRkey", "sendRkey", "add"} =>
                     server'[r].hdr = server'[r].call
               /\ server'[r].pc \in {"sendRkey", "add"} => server'[r].rkey = server'[r].call
      BY <1>2, <1>3, <2>1 DEF HInv, Received
  <2> QED BY <1>2, <1>3, <2>1 DEF HInv, Received
<1>9. PeerMetadata' BY <1>2, MetadataStays DEF HInv
<1> QED BY <1>7, <1>8, <1>9 DEF HInv

\* A step that touches neither side and no message of any call.
LEMMA MessagesStay ==
    ASSUME TInv, Messages, UNCHANGED <<calls, client, linked>>, failed \subseteq failed',
           \A r \in Server : server'[r].pc = server[r].pc /\ server'[r].call = server[r].call,
           \A w \in Client \cup Server : inbox'[w] \subseteq inbox[w]
    PROVE  Messages'
<1>1. ASSUME NEW j \in 1 .. Len(calls) PROVE ClientFine(j)' /\ ServerFine(j)'
  <2>1. calls[j].server \in Server BY CallTyped DEF TInv
  <2>2. Elsewhere(j) BY <2>1 DEF Elsewhere
  <2> QED BY <2>2, Others
<1> QED BY <1>1 DEF Messages

LEMMA ReceivedStays ==
    ASSUME TInv, Received, UNCHANGED <<calls, client>>, failed \subseteq failed',
           \A r \in Server : server'[r] = server[r] \/ server'[r].pc \in {"idle", "recvHdr"}
    PROVE  Received'
<1>1. \A w : Tainted(w) => Tainted(w)' BY TaintStays
<1>2. ASSUME NEW r \in Server, ~Tainted(r)'
      PROVE  /\ server'[r].pc \in {"sendHdr", "recvRkey", "sendRkey", "add"} =>
                   server'[r].hdr = server'[r].call
             /\ server'[r].pc \in {"sendRkey", "add"} => server'[r].rkey = server'[r].call
    BY <1>1, <1>2 DEF Received
<1> QED BY <1>1, <1>2 DEF Received

\* What a client drops cannot be wrong.
LEMMA ClientDisconnectM ==
    ASSUME TInv, HInv, NEW c \in Client, NEW s \in Server, ClientDisconnect(c, s)
    PROVE  HInv'
<1>1. /\ conn'[c][s] = None
      /\ \A d \in Client, r \in Server : d # c \/ r # s => conn'[d][r] = conn[d][r]
      /\ UNCHANGED <<calls, client, server, requests, linked, inbox, table, failed, closed>>
    BY ClientDisconnectT
<1>2. Messages' BY <1>1, MessagesStay DEF HInv
<1>3. Received' BY <1>1, ReceivedStays DEF HInv
<1>4. PeerMetadata'
  <2>1. \A w : Tainted(w)' <=> Tainted(w) BY <1>1 DEF Tainted
  <2>2. ASSUME NEW d \in Client, NEW r \in Server, ~Tainted(d)', conn'[d][r] # None
        PROVE  conn'[d][r].hdr = conn'[d][r].call /\ conn'[d][r].rkey = conn'[d][r].call
      BY <1>1, <2>1, <2>2 DEF HInv, PeerMetadata
  <2>3. ASSUME NEW r \in Server, NEW key \in Key, ~Tainted(r)', table'[r][key] # None
        PROVE  /\ table'[r][key].hdr = table'[r][key].call
               /\ table'[r][key].rkey = table'[r][key].call
      BY <1>1, <2>1, <2>3 DEF HInv, PeerMetadata
  <2> QED BY <2>2, <2>3 DEF PeerMetadata
<1> QED BY <1>2, <1>3, <1>4 DEF HInv

LEMMA AcceptM ==
    ASSUME TInv, Ordered, HInv, NEW s \in Server, Accept(s)
    PROVE  HInv'
<1>1. PICK k : k = Head(requests[s]) OBVIOUS
<1>2. /\ server[s].pc = "idle" /\ PopConnRequest(s)
      /\ k \in 1 .. Len(calls) /\ calls[k].server = s /\ linked' = linked \cup {k}
      /\ server'[s].pc = "recvHdr" /\ server'[s].call = k
      /\ \A r \in Server : r # s => server'[r] = server[r]
      /\ UNCHANGED <<calls, client, inbox, conn, table, failed, closed>>
    BY <1>1, AcceptT
<1>3. k \notin linked
  <2>1. k \in linked => k < k BY <1>1, <1>2, PoppingOrdered
  <2>2. ~(k < k) BY <1>2
  <2> QED BY <2>1, <2>2
<1>4. server[s].call = 0 BY <1>2 DEF TInv, Sides
<1>5. \A w : Tainted(w)' <=> Tainted(w) BY <1>2 DEF Tainted
<1>6. ASSUME NEW j \in 1 .. Len(calls), j # k PROVE ClientFine(j)' /\ ServerFine(j)'
  <2>1. calls[j].server \in Server /\ j # 0 BY CallTyped DEF TInv
  <2>2. j \in linked' <=> j \in linked BY <1>2, <1>6
  <2>3. Elsewhere(j)
    <3>1. CASE calls[j].server = s BY <1>2, <1>4, <1>6, <2>1, <2>2, <3>1 DEF Elsewhere
    <3>2. CASE calls[j].server # s BY <1>2, <2>1, <2>2, <3>2 DEF Elsewhere
    <3> QED BY <3>1, <3>2
  <2> QED BY <1>2, <2>3, Others DEF HInv
<1>7. calls[k].client \in Client BY <1>2, CallTyped DEF TInv
<1>8. \A w \in Client \cup Server : <<"hdr", k>> \notin inbox[w] /\ <<"rkey", k>> \notin inbox[w]
  <2>1. \A w \in Client \cup Server : \A m \in inbox[w] : m[2] \in linked BY DEF TInv, Named
  <2> QED BY <1>3, <2>1
<1>9. ClientFine(k)'
  <2>1. ClientFine(k) BY <1>2 DEF HInv, Messages
  <2> QED BY <1>2, <1>3, <1>5, <1>7, <1>8, <2>1 DEF ClientFine, ClientIn, ServerIn
<1>10. ServerFine(k)'
  <2>1. client[calls[k].client].call = k => client[calls[k].client].pc \in {"idle", "sendHdr"}
      BY <1>3, <1>7 DEF TInv, Sides
  <2> QED BY <1>2, <1>7, <1>8, <2>1 DEF ServerFine, ClientIn, ServerIn
<1>11. Messages' BY <1>2, <1>6, <1>9, <1>10 DEF Messages
<1>12. Received' BY <1>2, ReceivedStays DEF HInv
<1>13. PeerMetadata' BY <1>2, MetadataStays DEF HInv
<1> QED BY <1>11, <1>12, <1>13 DEF HInv

LEMMA DropRequestM ==
    ASSUME TInv, HInv, NEW s \in Server, DropRequest(s)
    PROVE  HInv'
<1>1. PICK k : k = Head(requests[s]) OBVIOUS
<1>2. /\ failed' = failed \cup {k}
      /\ UNCHANGED <<calls, client, server, linked, inbox, conn, table, closed>>
    BY <1>1, DropRequestT
<1> QED BY <1>2, MessagesStay, ReceivedStays, MetadataStays DEF HInv

LEMMA AddM ==
    ASSUME TInv, HInv, NEW s \in Server, Add(s)
    PROVE  HInv'
<1>1. PICK k : k = server[s].call OBVIOUS
<1>2. PICK key : key = <<Ip[calls[k].client], Port[calls[server[s].hdr].client]>> OBVIOUS
<1>a. AddEffect(s, k, key) BY <1>1, <1>2, AddT
<1>3. /\ server[s].pc = "add" /\ k \in linked /\ calls[k].server = s /\ key \in Key
      /\ table'[s][key] = [call |-> k, hdr |-> server[s].hdr, rkey |-> server[s].rkey]
      /\ table'[s][key] \in Endpoint
      /\ \A r \in Server, q \in Key : r # s \/ q # key => table'[r][q] = table[r][q]
      /\ server'[s].pc = "idle" /\ server'[s].call = 0
      /\ \A r \in Server : r # s => server'[r] = server[r]
      /\ UNCHANGED <<calls, client, requests, linked, inbox, conn, failed, closed>>
    BY <1>a DEF AddEffect
<1>4. k \in 1 .. Len(calls) BY <1>3 DEF TInv, Named
<1>5. calls[k].client \in Client BY <1>4, CallTyped DEF TInv
<1>6. \A w : Tainted(w)' <=> Tainted(w) BY <1>3 DEF Tainted
<1>7. ASSUME NEW j \in 1 .. Len(calls), j # k PROVE ClientFine(j)' /\ ServerFine(j)'
  <2>1. \A w \in Client \cup Server : \A m \in inbox'[w] : m \in inbox[w] \/ m[2] = k BY <1>3
  <2>2. Elsewhere(j) BY <1>1, <1>3, <1>4, <1>7, <2>1, ServerElsewhere
  <2> QED BY <1>3, <2>2, Others DEF HInv
<1>8. ClientFine(k) /\ ServerFine(k) BY <1>4 DEF HInv, Messages
<1>9. ClientFine(k)'
    BY <1>1, <1>3, <1>5, <1>6, <1>8 DEF ClientFine, ClientIn, ServerIn
<1>10. ServerFine(k)'
    BY <1>1, <1>3, <1>5, <1>6, <1>8 DEF ServerFine, ClientIn, ServerIn
<1>11. Messages' BY <1>3, <1>7, <1>9, <1>10 DEF Messages
<1>12. Received' BY <1>3, ReceivedStays DEF HInv
<1>13. PeerMetadata'
  <2>1. ~Tainted(s) => server[s].hdr = k /\ server[s].rkey = k BY <1>1, <1>3 DEF HInv, Received
  <2>2. ASSUME NEW d \in Client, NEW r \in Server, ~Tainted(d)', conn'[d][r] # None
        PROVE  conn'[d][r].hdr = conn'[d][r].call /\ conn'[d][r].rkey = conn'[d][r].call
      BY <1>3, <1>6, <2>2 DEF HInv, PeerMetadata
  <2>3. ASSUME NEW r \in Server, NEW q \in Key, ~Tainted(r)', table'[r][q] # None
        PROVE  /\ table'[r][q].hdr = table'[r][q].call
               /\ table'[r][q].rkey = table'[r][q].call
    <3>1. CASE r = s /\ q = key BY <1>3, <1>6, <2>1, <2>3, <3>1
    <3>2. CASE r # s \/ q # key BY <1>3, <1>6, <2>3, <3>2 DEF HInv, PeerMetadata
    <3> QED BY <3>1, <3>2
  <2> QED BY <2>2, <2>3 DEF PeerMetadata
<1> QED BY <1>11, <1>12, <1>13 DEF HInv

LEMMA ServerDisconnectM ==
    ASSUME TInv, HInv, NEW s \in Server, NEW key \in Key, ServerDisconnect(s, key)
    PROVE  HInv'
<1>1. /\ table'[s][key] = None
      /\ \A r \in Server, q \in Key : r # s \/ q # key => table'[r][q] = table[r][q]
      /\ UNCHANGED <<calls, client, server, requests, linked, inbox, conn, failed>>
    BY ServerDisconnectT
<1>2. Messages' BY <1>1, MessagesStay DEF HInv
<1>3. Received' BY <1>1, ReceivedStays DEF HInv
<1>4. PeerMetadata'
  <2>1. \A w : Tainted(w)' <=> Tainted(w) BY <1>1 DEF Tainted
  <2>2. ASSUME NEW d \in Client, NEW r \in Server, ~Tainted(d)', conn'[d][r] # None
        PROVE  conn'[d][r].hdr = conn'[d][r].call /\ conn'[d][r].rkey = conn'[d][r].call
      BY <1>1, <2>1, <2>2 DEF HInv, PeerMetadata
  <2>3. ASSUME NEW r \in Server, NEW q \in Key, ~Tainted(r)', table'[r][q] # None
        PROVE  /\ table'[r][q].hdr = table'[r][q].call
               /\ table'[r][q].rkey = table'[r][q].call
      BY <1>1, <2>1, <2>3 DEF HInv, PeerMetadata
  <2> QED BY <2>2, <2>3 DEF PeerMetadata
<1> QED BY <1>2, <1>3, <1>4 DEF HInv

LEMMA StopListenerM ==
    ASSUME TInv, HInv, NEW s \in Server, StopListener(s)
    PROVE  HInv'
<1>1. /\ \A r \in Server : server'[r].pc = server[r].pc /\ server'[r].call = server[r].call
      /\ server[s].pc = "idle" /\ \A r \in Server : r # s => server'[r] = server[r]
      /\ UNCHANGED <<calls, client, linked, inbox, conn, table, failed, closed>>
    BY StopListenerT
<1> QED BY <1>1, MessagesStay, ReceivedStays, MetadataStays DEF HInv

LEMMA NextM == TInv /\ Ordered /\ HInv /\ [Next]_vars => HInv'
<1> SUFFICES ASSUME TInv, Ordered, HInv, [Next]_vars PROVE HInv' OBVIOUS
<1>1. ASSUME NEW c \in Client, ClientStep(c) PROVE HInv'
    BY <1>1, ClientSendHdrM, ClientRecvHdrM, ClientSendRkeyM, ClientRecvRkeyM DEF ClientStep
<1>2. ASSUME NEW s \in Server, ServerStep(s) PROVE HInv'
    BY <1>2, AcceptM, ServerRecvHdrM, ServerSendHdrM, ServerRecvRkeyM, ServerSendRkeyM, AddM,
       StopListenerM DEF ServerStep
<1>3. ASSUME NEW s \in Server, StopServer(s) \/ InitiateServer(s) PROVE HInv'
  <2>1. /\ \A w \in Client \cup Server : inbox'[w] \subseteq inbox[w]
        /\ UNCHANGED <<calls, client, server, requests, linked, conn, table, failed, closed>>
      BY <1>3, StopServerT, InitiateServerT
  <2> QED BY <2>1, MessagesStay, ReceivedStays, MetadataStays DEF HInv
<1>4. CASE UNCHANGED vars
  <2>1. UNCHANGED <<calls, client, server, linked, inbox, conn, table, failed>> BY <1>4 DEF vars
  <2> QED BY <2>1, MessagesStay, ReceivedStays, MetadataStays DEF HInv
<1> QED BY <1>1, <1>2, <1>3, <1>4, ConnectM, ClientFailM, ClientDisconnectM, DropRequestM,
       ServerFailM, ServerDisconnectM DEF Next

\* For every number of clients, servers, calls and faults, and although tags
\* name no peer and receives no endpoint: an endpoint carries the base, size and
\* rkey of the process it is connected to, on every worker no handshake has
\* failed on, also when the process at the other end has seen failures.
THEOREM EndpointsAddressTheirPeer == Spec => []PeerMetadata
<1> DEFINE I == TInv /\ Ordered /\ HInv
<1>1. Init => I BY InitT, InitO, InitM
<1>2. I /\ [Next]_vars => I' BY NextT, NextO, NextM
<1>3. I => PeerMetadata BY DEF HInv
<1> QED BY <1>1, <1>2, <1>3, PTL DEF Spec

----------------------------------------------------------------------------
(***************************************************************************)
(* What the server's table has                                             *)
(***************************************************************************)
LEMMA LatestStays ==
    ASSUME Latest, UNCHANGED <<calls, conn>>,
           \A d \in Client : client'[d].pc # "idle" =>
               client[d].pc # "idle" /\ client'[d].call = client[d].call
    PROVE  Latest'
BY DEF Latest

LEMMA ConnectL ==
    ASSUME TInv, Latest, NEW c \in Client, NEW s \in Server, Connect(c, s)
    PROVE  Latest'
<1>1. PICK k : k = Len(calls) + 1 OBVIOUS
<1>2. /\ conn[c][s] = None
      /\ k \notin 1 .. Len(calls) /\ 1 .. Len(calls') = 1 .. Len(calls) \cup {k}
      /\ calls'[k] = [client |-> c, server |-> s]
      /\ \A j \in 1 .. Len(calls) : calls'[j] = calls[j]
      /\ client'[c].pc = "sendHdr" /\ client'[c].call = k
      /\ \A d \in Client : d # c => client'[d] = client[d]
      /\ UNCHANGED conn
    BY <1>1, ConnectT
<1>3. \A j \in 1 .. Len(calls') : j <= k
  <2>1. Len(calls) \in 0 .. MaxCalls BY Typed DEF TInv
  <2> QED BY <1>1, <1>2, <2>1
<1>4. ASSUME NEW d \in Client, NEW r \in Server, conn'[d][r] # None, NEW j \in 1 .. Len(calls'),
             calls'[j] = [client |-> d, server |-> r]
      PROVE  j <= conn'[d][r].call
  <2>1. j # k BY <1>2, <1>4
  <2> QED BY <1>2, <1>4, <2>1 DEF Latest
<1>5. ASSUME NEW d \in Client, client'[d].pc # "idle"
      PROVE  /\ conn'[d][calls'[client'[d].call].server] = None
             /\ \A j \in 1 .. Len(calls') : calls'[j].client = d => j <= client'[d].call
  <2>1. CASE d = c BY <1>2, <1>3, <2>1
  <2>2. CASE d # c
    <3>1. client'[d] = client[d] /\ client[d].call \in 1 .. Len(calls)
        BY <1>2, <1>5, <2>2 DEF TInv, Sides
    <3> QED BY <1>2, <1>5, <2>2, <3>1 DEF Latest
  <2> QED BY <2>1, <2>2
<1> QED BY <1>4, <1>5 DEF Latest

LEMMA ClientRecvRkeyL ==
    ASSUME TInv, Latest, NEW c \in Client, ClientRecvRkey(c)
    PROVE  Latest'
<1>1. PICK k : k = client[c].call OBVIOUS
<1>2. /\ client[c].pc = "recvRkey" /\ k \in linked /\ calls[k].client = c
      /\ client'[c].pc = "idle"
      /\ \A d \in Client : d # c => client'[d] = client[d]
      /\ \A d \in Client, r \in Server :
            d # c \/ r # calls[k].server => conn'[d][r] = conn[d][r]
      /\ UNCHANGED calls
    BY <1>1, ClientRecvRkeyT
<1>3. ASSUME NEW d \in Client, NEW r \in Server, conn'[d][r] # None, NEW j \in 1 .. Len(calls'),
             calls'[j] = [client |-> d, server |-> r]
      PROVE  j <= conn'[d][r].call
  <2>1. CASE d = c /\ r = calls[k].server
    <3>1. conn'[d][r].call = k
      <4>1. PICK h \in linked :
                /\ <<"rkey", h>> \in inbox[c] /\ <<"rkey", h>> \notin inbox'[c]
                /\ calls[h].client = c
                /\ conn'[c][calls[k].server] = [call |-> k, hdr |-> client[c].hdr, rkey |-> h]
          BY <1>1, ClientRecvRkeyT
      <4> QED BY <2>1, <4>1
    <3>2. calls[j].client = c /\ j \in 1 .. Len(calls) BY <1>2, <1>3, <2>1
    <3> QED BY <1>1, <1>2, <3>1, <3>2 DEF Latest
  <2>2. CASE d # c \/ r # calls[k].server BY <1>2, <1>3, <2>2 DEF Latest
  <2> QED BY <2>1, <2>2
<1>4. ASSUME NEW d \in Client, client'[d].pc # "idle"
      PROVE  /\ conn'[d][calls'[client'[d].call].server] = None
             /\ \A j \in 1 .. Len(calls') : calls'[j].client = d => j <= client'[d].call
  <2>1. d # c /\ client'[d] = client[d] BY <1>2, <1>4
  <2>2. client[d].call \in 1 .. Len(calls) BY <1>4, <2>1 DEF TInv, Sides
  <2>3. calls[client[d].call].server \in Server BY <2>2, CallTyped DEF TInv
  <2> QED BY <1>2, <1>4, <2>1, <2>3 DEF Latest
<1> QED BY <1>3, <1>4 DEF Latest

LEMMA ClientDisconnectL ==
    ASSUME TInv, Latest, NEW c \in Client, NEW s \in Server, ClientDisconnect(c, s)
    PROVE  Latest'
<1>1. /\ client[c].pc = "idle" /\ conn'[c][s] = None
      /\ \A d \in Client, r \in Server : d # c \/ r # s => conn'[d][r] = conn[d][r]
      /\ UNCHANGED <<calls, client>>
    BY ClientDisconnectT
<1>2. ASSUME NEW d \in Client, NEW r \in Server, conn'[d][r] # None, NEW j \in 1 .. Len(calls'),
             calls'[j] = [client |-> d, server |-> r]
      PROVE  j <= conn'[d][r].call
    BY <1>1, <1>2 DEF Latest
<1>3. ASSUME NEW d \in Client, client'[d].pc # "idle"
      PROVE  /\ conn'[d][calls'[client'[d].call].server] = None
             /\ \A j \in 1 .. Len(calls') : calls'[j].client = d => j <= client'[d].call
  <2>1. d # c /\ client[d].call \in 1 .. Len(calls) BY <1>1, <1>3 DEF TInv, Sides
  <2>2. calls[client[d].call].server \in Server BY <2>1, CallTyped DEF TInv
  <2> QED BY <1>1, <1>3, <2>1, <2>2 DEF Latest
<1> QED BY <1>2, <1>3 DEF Latest

LEMMA NextL == TInv /\ Latest /\ [Next]_vars => Latest'
<1> SUFFICES ASSUME TInv, Latest, [Next]_vars PROVE Latest' OBVIOUS
<1>1. ASSUME NEW c \in Client, ClientStep(c) PROVE Latest'
  <2>1. CASE ClientSendHdr(c) BY <2>1, ClientSendHdrT, LatestStays
  <2>2. CASE ClientRecvHdr(c) BY <2>2, ClientRecvHdrT, LatestStays
  <2>3. CASE ClientSendRkey(c) BY <2>3, ClientSendRkeyT, LatestStays
  <2>4. CASE ClientRecvRkey(c) BY <2>4, ClientRecvRkeyL
  <2> QED BY <1>1, <2>1, <2>2, <2>3, <2>4 DEF ClientStep
<1>2. ASSUME NEW c \in Client, ClientFail(c) PROVE Latest' BY <1>2, ClientFailT, LatestStays
<1>3. ASSUME NEW s \in Server,
             \/ ServerStep(s) \/ DropRequest(s) \/ ServerFail(s) \/ StopServer(s) \/ InitiateServer(s)
             \/ \E key \in Key : ServerDisconnect(s, key)
      PROVE  Latest'
  <2>1. UNCHANGED <<calls, client, conn>>
      BY <1>3 DEF ServerStep, Accept, ServerRecvHdr, ServerSendHdr, ServerRecvRkey, ServerSendRkey,
         Add, StopListener, DropRequest, ServerFail, StopServer, InitiateServer, ServerDisconnect
  <2> QED BY <2>1, LatestStays
<1>4. CASE UNCHANGED vars BY <1>4, LatestStays DEF vars
<1> QED BY <1>1, <1>2, <1>3, <1>4, ConnectL, ClientDisconnectL DEF Next

\* One call in Served.
ServedCall(k) ==
    /\ ~Tainted(calls[k].server)
    /\ server[calls[k].server].call # k
    /\ k \notin closed
    /\ \A j \in linked : calls[j] = calls[k] => j <= k
    =>
    /\ table[calls[k].server][KeyOf(calls[k].client)] # None
    /\ table[calls[k].server][KeyOf(calls[k].client)].call = k

LEMMA ServedStays ==
    ASSUME TInv, Served, UNCHANGED <<linked, closed, table>>, failed \subseteq failed',
           \A j \in 1 .. Len(calls) : calls'[j] = calls[j],
           \A r \in Server : server'[r].call = server[r].call
    PROVE  Served'
<1>1. \A w : Tainted(w) => Tainted(w)' BY TaintStays
<1>2. linked \subseteq 1 .. Len(calls) BY DEF TInv, Named
<1>3. ASSUME NEW k \in linked PROVE ServedCall(k)'
  <2>1. k \in 1 .. Len(calls) /\ calls[k].server \in Server BY <1>2, CallTyped DEF TInv
  <2>2. ServedCall(k) BY DEF Served, ServedCall
  <2> QED BY <1>1, <1>2, <2>1, <2>2 DEF ServedCall, KeyOf
<1> QED BY <1>3 DEF Served, ServedCall

LEMMA AcceptS ==
    ASSUME TInv, Served, NEW s \in Server, Accept(s)
    PROVE  Served'
<1>1. PICK k : k = Head(requests[s]) OBVIOUS
<1>2. /\ server[s].pc = "idle"
      /\ k \in 1 .. Len(calls) /\ calls[k].server = s /\ linked' = linked \cup {k}
      /\ server'[s].call = k
      /\ \A r \in Server : r # s => server'[r] = server[r]
      /\ UNCHANGED <<calls, table, failed, closed>>
    BY <1>1, AcceptT
<1>3. server[s].call = 0 BY <1>2 DEF TInv, Sides
<1>4. \A w : Tainted(w)' <=> Tainted(w) BY <1>2 DEF Tainted
<1>5. ASSUME NEW j \in linked' PROVE ServedCall(j)'
  <2>1. CASE j = k BY <1>2, <2>1 DEF ServedCall
  <2>2. CASE j # k
    <3>1. j \in linked /\ j \in 1 .. Len(calls) BY <1>2, <2>2 DEF TInv, Named
    <3>2. calls[j].server \in Server /\ j # 0 BY <3>1, CallTyped DEF TInv
    <3>3. ServedCall(j) BY <3>1 DEF Served, ServedCall
    <3>4. server'[calls[j].server].call # j => server[calls[j].server].call # j
        BY <1>2, <1>3, <3>2
    <3> QED BY <1>2, <1>4, <3>3, <3>4 DEF ServedCall, KeyOf
  <2> QED BY <2>1, <2>2
<1> QED BY <1>5 DEF Served, ServedCall

LEMMA ServerFailS ==
    ASSUME TInv, Served, NEW s \in Server, ServerFail(s)
    PROVE  Served'
<1>1. PICK k : k = server[s].call OBVIOUS
<1>2. /\ k \in 1 .. Len(calls) /\ calls[k].server = s /\ failed' = failed \cup {k}
      /\ \A r \in Server : r # s => server'[r] = server[r]
      /\ UNCHANGED <<calls, linked, table, closed>>
    BY <1>1, ServerFailT
<1>3. \A w : Tainted(w) => Tainted(w)' BY <1>2, TaintStays
<1>4. Tainted(s)' BY <1>2 DEF Tainted
<1>5. ASSUME NEW j \in linked' PROVE ServedCall(j)'
  <2>1. j \in linked /\ j \in 1 .. Len(calls) BY <1>2 DEF TInv, Named
  <2>2. calls[j].server \in Server BY <2>1, CallTyped DEF TInv
  <2>3. CASE calls[j].server = s BY <1>2, <1>4, <2>3 DEF ServedCall
  <2>4. CASE calls[j].server # s
    <3>1. ServedCall(j) BY <2>1 DEF Served, ServedCall
    <3> QED BY <1>2, <1>3, <2>2, <2>4, <3>1 DEF ServedCall, KeyOf
  <2> QED BY <2>3, <2>4
<1> QED BY <1>5 DEF Served, ServedCall

LEMMA ServerDisconnectS ==
    ASSUME TInv, Served, NEW s \in Server, NEW key \in Key, ServerDisconnect(s, key)
    PROVE  Served'
<1>1. /\ closed' = closed \cup {table[s][key].call}
      /\ \A r \in Server, q \in Key : r # s \/ q # key => table'[r][q] = table[r][q]
      /\ UNCHANGED <<calls, server, linked, failed>>
    BY ServerDisconnectT
<1>2. \A w : Tainted(w)' <=> Tainted(w) BY <1>1 DEF Tainted
<1>3. ASSUME NEW j \in linked' PROVE ServedCall(j)'
  <2>1. j \in linked /\ j \in 1 .. Len(calls) BY <1>1 DEF TInv, Named
  <2>2. calls[j].server \in Server /\ calls[j].client \in Client BY <2>1, CallTyped DEF TInv
  <2>3. KeyOf(calls[j].client) \in Key BY <2>2 DEF Key, KeyOf
  <2>4. ServedCall(j) BY <2>1 DEF Served, ServedCall
  <2>5. CASE calls[j].server = s /\ KeyOf(calls[j].client) = key
      BY <1>1, <1>2, <2>4, <2>5 DEF ServedCall
  <2>6. CASE calls[j].server # s \/ KeyOf(calls[j].client) # key
    <3>1. table'[calls[j].server][KeyOf(calls[j].client)] = table[calls[j].server][KeyOf(calls[j].client)]
        BY <1>1, <2>2, <2>3, <2>6
    <3> QED BY <1>1, <1>2, <2>4, <3>1 DEF ServedCall, KeyOf
  <2> QED BY <2>5, <2>6
<1> QED BY <1>3 DEF Served, ServedCall

LEMMA AddS ==
    ASSUME TInv, Ordered, Received, Served, DistinctKeys, NEW s \in Server, Add(s)
    PROVE  Served'
<1>1. PICK k : k = server[s].call OBVIOUS
<1>2. PICK key : key = <<Ip[calls[k].client], Port[calls[server[s].hdr].client]>> OBVIOUS
<1>a. AddEffect(s, k, key) BY <1>1, <1>2, AddT
<1>3. /\ server[s].pc = "add" /\ k \in linked /\ calls[k].server = s /\ key \in Key
      /\ table'[s][key] = [call |-> k, hdr |-> server[s].hdr, rkey |-> server[s].rkey]
      /\ table'[s][key] \in Endpoint
      /\ \A r \in Server, q \in Key : r # s \/ q # key => table'[r][q] = table[r][q]
      /\ server'[s].pc = "idle" /\ server'[s].call = 0
      /\ \A r \in Server : r # s => server'[r] = server[r]
      /\ UNCHANGED <<calls, client, requests, linked, inbox, conn, failed, closed>>
    BY <1>a DEF AddEffect
<1>4. \A w : Tainted(w)' <=> Tainted(w) BY <1>3 DEF Tainted
<1>5. k \in 1 .. Len(calls) BY <1>3 DEF TInv, Named
<1>6. calls[k] \in [client : Client, server : Server] BY <1>5, CallTyped DEF TInv
<1>7. ~Tainted(s) => key = KeyOf(calls[k].client)
    BY <1>1, <1>2, <1>3 DEF Received, KeyOf
<1>8. ASSUME NEW j \in linked' PROVE ServedCall(j)'
  <2>1. j \in linked /\ j \in 1 .. Len(calls) BY <1>3 DEF TInv, Named
  <2>2. calls[j] \in [client : Client, server : Server] BY <2>1, CallTyped DEF TInv
  <2>3. KeyOf(calls[j].client) \in Key BY <2>2 DEF Key, KeyOf
  <2>4. ServedCall(j) BY <2>1 DEF Served, ServedCall
  <2>5. CASE calls[j].server # s
    <3>1. table'[calls[j].server][KeyOf(calls[j].client)] = table[calls[j].server][KeyOf(calls[j].client)]
        BY <1>3, <2>2, <2>3, <2>5
    <3>2. server'[calls[j].server] = server[calls[j].server] BY <1>3, <2>2, <2>5
    <3> QED BY <1>3, <1>4, <2>4, <3>1, <3>2 DEF ServedCall, KeyOf
  <2>6. CASE j = k
    <3>1. table'[s][key] # None /\ table'[s][key].call = k BY <1>3, NoneAssumption
    <3> QED BY <1>3, <1>4, <1>7, <2>6, <3>1 DEF ServedCall, KeyOf
  <2>7. CASE calls[j].server = s /\ j # k
    <3> SUFFICES ASSUME ~Tainted(s), j \notin closed,
                        \A i \in linked : calls[i] = calls[j] => i <= j
                 PROVE  /\ table'[s][KeyOf(calls[j].client)] # None
                        /\ table'[s][KeyOf(calls[j].client)].call = j
        BY <1>3, <1>4, <2>7 DEF ServedCall, KeyOf
    <3>1. KeyOf(calls[j].client) # key
      <4> SUFFICES ASSUME KeyOf(calls[j].client) = key PROVE FALSE OBVIOUS
      <4>1. calls[j].client = calls[k].client BY <1>6, <1>7, <2>2 DEF DistinctKeys
      <4>2. calls[k] = calls[j] BY <1>3, <1>6, <2>2, <2>7, <4>1
      <4>3. k <= j BY <1>3, <4>2
      <4>4. j <= k BY <1>1, <1>3, <2>1, <2>7 DEF Ordered
      <4> QED BY <1>5, <2>1, <2>7, <4>3, <4>4
    <3>2. table'[s][KeyOf(calls[j].client)] = table[s][KeyOf(calls[j].client)]
        BY <1>3, <2>3, <3>1
    <3> QED BY <1>1, <2>4, <2>7, <3>2 DEF ServedCall
  <2> QED BY <2>5, <2>6, <2>7
<1> QED BY <1>8 DEF Served, ServedCall

LEMMA NextS == DistinctKeys /\ TInv /\ Ordered /\ Received /\ Served /\ [Next]_vars => Served'
<1> SUFFICES ASSUME DistinctKeys, TInv, Ordered, Received, Served, [Next]_vars PROVE Served'
    OBVIOUS
<1>1. ASSUME NEW c \in Client, ClientStep(c) PROVE Served'
  <2>1. UNCHANGED <<calls, linked, closed, table, failed, server>>
      BY <1>1 DEF ClientStep, ClientSendHdr, ClientRecvHdr, ClientSendRkey, ClientRecvRkey
  <2> QED BY <2>1, ServedStays
<1>2. ASSUME NEW c \in Client, ClientFail(c) PROVE Served' BY <1>2, ClientFailT, ServedStays
<1>3. ASSUME NEW c \in Client, NEW s \in Server, Connect(c, s) \/ ClientDisconnect(c, s)
      PROVE  Served'
    BY <1>3, ConnectT, ClientDisconnectT, ServedStays
<1>4. ASSUME NEW s \in Server, ServerStep(s) PROVE Served'
  <2>1. CASE Accept(s) BY <2>1, AcceptS
  <2>2. CASE ServerRecvHdr(s) BY <2>2, ServerRecvHdrT, ServedStays
  <2>3. CASE ServerSendHdr(s) BY <2>3, ServerSendHdrT, ServedStays
  <2>4. CASE ServerRecvRkey(s) BY <2>4, ServerRecvRkeyT, ServedStays
  <2>5. CASE ServerSendRkey(s) BY <2>5, ServerSendRkeyT, ServedStays
  <2>6. CASE Add(s) BY <2>6, AddS
  <2>7. CASE StopListener(s) BY <2>7, StopListenerT, ServedStays
  <2> QED BY <1>4, <2>1, <2>2, <2>3, <2>4, <2>5, <2>6, <2>7 DEF ServerStep
<1>5. ASSUME NEW s \in Server, DropRequest(s) \/ StopServer(s) \/ InitiateServer(s) PROVE Served'
    BY <1>5, DropRequestT, StopServerT, InitiateServerT, ServedStays
<1>6. CASE UNCHANGED vars BY <1>6, ServedStays DEF vars
<1> QED BY <1>1, <1>2, <1>3, <1>4, <1>5, <1>6, ServerFailS, ServerDisconnectS DEF Next

LEMMA InitL == Init => Latest /\ Served
<1> SUFFICES ASSUME Init PROVE Latest /\ Served OBVIOUS
<1>1. \A c \in Client : client[c].pc = "idle" /\ \A s \in Server : conn[c][s] = None
    BY StartTyped DEF Init
<1>2. linked = {} BY DEF Init
<1> QED BY <1>1, <1>2 DEF Latest, Served

\* For every number of clients, servers, calls and faults, if no two clients have
\* the same address and listen port: a connection a client holds is the one the
\* server has under that key once it has finished with the call, unless its
\* application has removed it or a handshake has failed there.
THEOREM ServerHasTheConnection == DistinctKeys => (Spec => []TableAgrees)
<1> SUFFICES ASSUME DistinctKeys PROVE Spec => []TableAgrees OBVIOUS
<1> DEFINE I == TInv /\ Ordered /\ HInv /\ Latest /\ Served
<1>1. Init => I BY InitT, InitO, InitM, InitL
<1>2. I /\ [Next]_vars => I' BY NextT, NextO, NextM, NextL, NextS DEF HInv
<1>3. I => TableAgrees
  <2> SUFFICES ASSUME I, NEW c \in Client, NEW s \in Server, conn[c][s] # None, ~Tainted(s),
                      server[s].call # conn[c][s].call, conn[c][s].call \notin closed
               PROVE  /\ table[s][KeyOf(c)] # None
                      /\ table[s][KeyOf(c)].call = conn[c][s].call
      BY DEF TableAgrees
  <2>1. PICK k : k = conn[c][s].call OBVIOUS
  <2>2. k \in linked /\ calls[k] = [client |-> c, server |-> s] BY <2>1 DEF TInv, Named
  <2>3. linked \subseteq 1 .. Len(calls) BY DEF TInv, Named
  <2>4. \A j \in linked : calls[j] = calls[k] => j <= k BY <2>1, <2>2, <2>3 DEF Latest
  <2>5. calls[k].client = c /\ calls[k].server = s BY <2>2
  <2> QED BY <2>1, <2>2, <2>4, <2>5 DEF Served
<1> QED
  <2> HIDE DEF I
  <2> QED BY <1>1, <1>2, <1>3, PTL DEF Spec
=============================================================================
