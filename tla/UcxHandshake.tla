---------------------------- MODULE UcxHandshake ----------------------------
(***************************************************************************)
(* Establishing UCX connections: UCXClient::connect in client processes and *)
(* the accept thread of each UCXServer (ucx_client.cpp, ucx_server.cpp, the *)
(* tag messages of ucx_endpoint.cpp).                                      *)
(*                                                                         *)
(* Client and server exchange a header (base, size, rkey_len, listen_port)  *)
(* and a packed rkey as tagged messages.  A tag names the kind of message   *)
(* and nothing else, and a receive is posted on the worker, not on the      *)
(* endpoint: it takes any message of its kind that has reached the process. *)
(* What keeps handshakes apart is only that a client connects once at a     *)
(* time, a server serves one request at a time, and a client cannot send    *)
(* before the server has created its endpoint.                             *)
(*                                                                         *)
(* A server process may stop listening and listen again.  The new UCXServer *)
(* has a worker of its own; the table of endpoints outlives the old one.    *)
(*                                                                         *)
(* Messages are named by kind and call; header and rkey of a call stand for *)
(* the memory of the side that sent them.  The endpoints are created        *)
(* without UCX error handling, so a peer that fails is not noticed: a       *)
(* receive waits for ever.  One client of a process connects at a time      *)
(* because all of them share a worker of thread mode SINGLE.               *)
(***************************************************************************)
EXTENDS Integers, Sequences, FiniteSets, Functions

CONSTANTS Client,     \* client processes: their shared UCXClient::global_ctx_
          Server,     \* server processes
          Peers,      \* the servers each client's application connects to
          Ip,         \* the address of each client, as the server sees it
          Port,       \* g_ucx_listen_port of each client's process
          MaxCalls,   \* bound: connect calls of a behaviour
          MaxFaults,  \* bound: calls whose handshake fails, and stopped servers
          None        \* no endpoint

ASSUME PeersAssumption == Peers \in [Client -> SUBSET Server]
ASSUME IpAssumption == DOMAIN Ip = Client
ASSUME PortAssumption == DOMAIN Port = Client
ASSUME MaxCallsAssumption == MaxCalls \in Nat
ASSUME MaxFaultsAssumption == MaxFaults \in Nat
ASSUME WorkersAssumption == Client \cap Server = {}

VARIABLES
    calls,     \* client and server of each connect call made so far
    client,    \* where each client is, its call and the header it received
    server,    \* where each accept thread is, likewise
    registered, \* processes with a UCXServer in servers_
    listener,  \* the UCX listener of each process
    stops,     \* stopServer calls made so far
    requests,  \* pending_conn_reqs_ of each server
    linked,    \* calls for which the server has created its endpoint
    inbox,     \* tag messages sent to a worker and not received: <<kind, call>>
    conn,      \* each client's endpoint to each server, if any
    table,     \* each server's ucx_endpoint_map
    failed,    \* calls whose handshake failed on one side
    lost,      \* calls whose server's worker is gone or has dropped them
    closed     \* calls whose endpoint the server's application has removed

lifecycle == <<registered, listener, stops, lost>>
vars == <<calls, client, server, requests, linked, inbox, conn, table, failed, closed, lifecycle>>

Call == 1 .. MaxCalls
Key == {<<Ip[c], Port[d]>> : c \in Client, d \in Client}
KeyOf(c) == <<Ip[c], Port[c]>>

\* An endpoint: the call its ucp_ep belongs to, and the calls whose header and
\* rkey setRemoteMemInfo gave it.
Endpoint == [call : Call, hdr : Call, rkey : Call]

ASSUME NoneAssumption == None \notin Endpoint

Idle == [pc |-> "idle", call |-> 0, hdr |-> 0, rkey |-> 0]

\* The servers listen.
Init ==
    /\ calls = <<>>
    /\ client = [c \in Client |-> Idle]
    /\ server = [s \in Server |-> Idle]
    /\ requests = [s \in Server |-> <<>>]
    /\ linked = {}
    /\ inbox = [w \in Client \cup Server |-> {}]
    /\ conn = [c \in Client |-> [s \in Server |-> None]]
    /\ table = [s \in Server |-> [key \in Key |-> None]]
    /\ failed = {} /\ closed = {} /\ lost = {}
    /\ registered = Server
    /\ listener = [s \in Server |-> "up"]
    /\ stops = 0

----------------------------------------------------------------------------
(***************************************************************************)
(* tagSend and tagRecv                                                     *)
(***************************************************************************)
\* A message reaches the peer's worker; that of a handshake the peer has left
\* may be lost instead.
TagSend(w, kind, k) ==
    \/ k \notin lost /\ inbox' = [inbox EXCEPT ![w] = @ \cup {<<kind, k>>}]
    \/ k \in failed \cup lost /\ UNCHANGED inbox

\* The messages a receive of this kind can match.
Matching(w, kind) == {m \in inbox[w] : m[1] = kind}

Take(w, m) == inbox' = [inbox EXCEPT ![w] = @ \ {m}]

\* A receive that fails has taken a message or not.  One that completes at once,
\* because the message was there before it was posted, is such a failure when
\* UCX does not call back: the length stays 0.
Abandon(w, kind) == UNCHANGED inbox \/ \E m \in Matching(w, kind) : Take(w, m)

\* The handshake of call k ends in an error on one side.
Fails(k) ==
    /\ k \in failed \/ Cardinality(failed) + stops < MaxFaults
    /\ failed' = failed \cup {k}

\* The kind of message a side at pc is receiving.
Receives(pc) == CASE pc = "recvHdr" -> "hdr" [] pc = "recvRkey" -> "rkey" [] OTHER -> "none"

\* The listener's callback, run by the server's progress, and its consumer.
OnConnectRequest(s, k) == requests' = [requests EXCEPT ![s] = Append(@, k)]

PopConnRequest(s) ==
    /\ requests[s] # <<>>
    /\ requests' = [requests EXCEPT ![s] = Tail(@)]

----------------------------------------------------------------------------
(***************************************************************************)
(* UCXClient::connect, called by Communicator::connectTo when the client    *)
(* has no endpoint to the server                                           *)
(***************************************************************************)
Connect(c, s) ==
    LET k == Len(calls) + 1
    IN  /\ client[c].pc = "idle"
        /\ conn[c][s] = None
        /\ s \in Peers[c] /\ listener[s] # "down"
        /\ k <= MaxCalls
        /\ calls' = Append(calls, [client |-> c, server |-> s])
        /\ OnConnectRequest(s, k)
        /\ client' = [client EXCEPT ![c] = [Idle EXCEPT !.pc = "sendHdr", !.call = k]]
        /\ UNCHANGED <<server, linked, inbox, conn, table, failed, closed, lifecycle>>

\* A send completes only when the server has created its endpoint.
ClientSendHdr(c) ==
    LET k == client[c].call
    IN  /\ client[c].pc = "sendHdr"
        /\ k \in linked
        /\ TagSend(calls[k].server, "hdr", k)
        /\ client' = [client EXCEPT ![c].pc = "recvHdr"]
        /\ UNCHANGED <<calls, server, requests, linked, conn, table, failed, closed, lifecycle>>

ClientRecvHdr(c) ==
    /\ client[c].pc = "recvHdr"
    /\ \E m \in Matching(c, "hdr") :
          /\ Take(c, m)
          /\ client' = [client EXCEPT ![c].pc = "sendRkey", ![c].hdr = m[2]]
    /\ UNCHANGED <<calls, server, requests, linked, conn, table, failed, closed, lifecycle>>

ClientSendRkey(c) ==
    LET k == client[c].call
    IN  /\ client[c].pc = "sendRkey"
        /\ TagSend(calls[k].server, "rkey", k)
        /\ client' = [client EXCEPT ![c].pc = "recvRkey"]
        /\ UNCHANGED <<calls, server, requests, linked, conn, table, failed, closed, lifecycle>>

\* With setRemoteMemInfo, and _addEndpoint in initiateConnectionAsClient.
ClientRecvRkey(c) ==
    LET k == client[c].call
    IN  /\ client[c].pc = "recvRkey"
        /\ \E m \in Matching(c, "rkey") :
              /\ Take(c, m)
              /\ conn' = [conn EXCEPT ![c][calls[k].server] =
                              [call |-> k, hdr |-> client[c].hdr, rkey |-> m[2]]]
        /\ client' = [client EXCEPT ![c] = Idle]
        /\ UNCHANGED <<calls, server, requests, linked, table, failed, closed, lifecycle>>

\* Any of the early returns after the endpoint exists: export, a send, a
\* receive, a length that does not match, setRemoteMemInfo.
ClientFail(c) ==
    /\ client[c].pc # "idle"
    /\ Abandon(c, Receives(client[c].pc))
    /\ Fails(client[c].call)
    /\ client' = [client EXCEPT ![c] = Idle]
    /\ UNCHANGED <<calls, server, requests, linked, conn, table, closed, lifecycle>>

\* Communicator::disConnect at the client.  Nothing tells the server.
ClientDisconnect(c, s) ==
    /\ client[c].pc = "idle"
    /\ conn[c][s] # None
    /\ conn' = [conn EXCEPT ![c][s] = None]
    /\ UNCHANGED <<calls, client, server, requests, linked, inbox, table, failed, closed, lifecycle>>

----------------------------------------------------------------------------
(***************************************************************************)
(* The accept thread of UCXServer::listen                                  *)
(***************************************************************************)
\* popConnRequest, and an endpoint for the request.
Accept(s) ==
    LET k == Head(requests[s])
    IN  /\ server[s].pc = "idle" /\ listener[s] = "up"
        /\ PopConnRequest(s)
        /\ linked' = linked \cup {k}
        /\ server' = [server EXCEPT ![s] = [Idle EXCEPT !.pc = "recvHdr", !.call = k]]
        /\ UNCHANGED <<calls, client, inbox, conn, table, failed, closed, lifecycle>>

\* The peer's address cannot be queried or ucp_ep_create fails: the request is
\* dropped, and not rejected.
DropRequest(s) ==
    /\ server[s].pc = "idle" /\ listener[s] = "up"
    /\ PopConnRequest(s)
    /\ Fails(Head(requests[s]))
    /\ UNCHANGED <<calls, client, server, linked, inbox, conn, table, closed, lifecycle>>

\* Receive first, then send.
ServerRecvHdr(s) ==
    /\ server[s].pc = "recvHdr"
    /\ \E m \in Matching(s, "hdr") :
          /\ Take(s, m)
          /\ server' = [server EXCEPT ![s].pc = "sendHdr", ![s].hdr = m[2]]
    /\ UNCHANGED <<calls, client, requests, linked, conn, table, failed, closed, lifecycle>>

ServerSendHdr(s) ==
    LET k == server[s].call
    IN  /\ server[s].pc = "sendHdr"
        /\ TagSend(calls[k].client, "hdr", k)
        /\ server' = [server EXCEPT ![s].pc = "recvRkey"]
        /\ UNCHANGED <<calls, client, requests, linked, conn, table, failed, closed, lifecycle>>

MutServerRecvRkey(s) ==
    /\ server[s].pc = "recvRkey"
    /\ \E m \in Matching(s, "rkey") :
          /\ Take(s, m)
          /\ server' = [server EXCEPT ![s].pc = "sendRkey"]
    /\ UNCHANGED <<calls, client, requests, linked, conn, table, failed, closed, lifecycle>>
ServerRecvRkey(s) ==
    /\ server[s].pc = "recvRkey"
    /\ \E m \in Matching(s, "rkey") :
          /\ Take(s, m)
          /\ server' = [server EXCEPT ![s].pc = "sendRkey", ![s].rkey = m[2]]
    /\ UNCHANGED <<calls, client, requests, linked, conn, table, failed, closed, lifecycle>>

MutServerSendRkey(s) ==
    LET k == server[s].call
    IN  /\ server[s].pc = "sendRkey"
        /\ inbox' = [inbox EXCEPT ![calls[k].client] = @ \cup {<<"hdr", k>>, <<"rkey", k>>}]
        /\ server' = [server EXCEPT ![s].pc = "add"]
        /\ UNCHANGED <<calls, client, requests, linked, conn, table, failed, closed, lifecycle>>
ServerSendRkey(s) ==
    LET k == server[s].call
    IN  /\ server[s].pc = "sendRkey"
        /\ TagSend(calls[k].client, "rkey", k)
        /\ server' = [server EXCEPT ![s].pc = "add"]
        /\ UNCHANGED <<calls, client, requests, linked, conn, table, failed, closed, lifecycle>>

\* _addEndpoint replaces the endpoint its key had.
MutReplace(s, key, ep) == IF table[s][key] = None THEN ep ELSE table[s][key]
Replace(s, key, ep) == ep

\* setRemoteMemInfo and _addEndpoint: the key is the address of the connection
\* request with the listen port of the header received.
Add(s) ==
    LET k == server[s].call
        key == <<Ip[calls[k].client], Port[calls[server[s].hdr].client]>>
        ep == [call |-> k, hdr |-> server[s].hdr, rkey |-> server[s].rkey]
    IN  /\ server[s].pc = "add"
        /\ table' = [table EXCEPT ![s][key] = Replace(s, key, ep)]
        /\ server' = [server EXCEPT ![s] = Idle]
        /\ UNCHANGED <<calls, client, requests, linked, inbox, conn, failed, closed, lifecycle>>

\* Any of the error paths after the endpoint exists: the endpoint is closed and
\* the thread serves the next request.
ServerFail(s) ==
    /\ server[s].pc # "idle"
    /\ Abandon(s, Receives(server[s].pc))
    /\ Fails(server[s].call)
    /\ server' = [server EXCEPT ![s] = Idle]
    /\ UNCHANGED <<calls, client, requests, linked, conn, table, closed, lifecycle>>

\* Communicator::disConnect at the server, on a thread of the application.
ServerDisconnect(s, key) ==
    /\ table[s][key] # None
    /\ closed' = closed \cup {table[s][key].call}
    /\ table' = [table EXCEPT ![s][key] = None]
    /\ UNCHANGED <<calls, client, server, requests, linked, inbox, conn, failed, lifecycle>>

----------------------------------------------------------------------------
(***************************************************************************)
(* ConnManager::initiateServer and stopServer                              *)
(***************************************************************************)
\* stopServer forgets the UCXServer, and stopListen tells the accept thread.
StopServer(s) ==
    /\ s \in registered
    /\ Cardinality(failed) + stops < MaxFaults
    /\ stops' = stops + 1
    /\ registered' = registered \ {s}
    /\ listener' = [listener EXCEPT ![s] = IF @ = "up" THEN "stopping" ELSE @]
    /\ UNCHANGED <<calls, client, server, requests, linked, inbox, conn, table, failed, closed, lost>>

\* stopListen joins the accept thread, which looks at accept_running_ between two
\* handshakes,
MutJoined(s) == TRUE
Joined(s) == server[s].pc = "idle"

\* and destroys the listener; the requests nobody popped are cleared.
StopListener(s) ==
    /\ listener[s] = "stopping"
    /\ Joined(s)
    /\ listener' = [listener EXCEPT ![s] = "down"]
    /\ lost' = lost \cup Range(requests[s])
    /\ requests' = [requests EXCEPT ![s] = <<>>]
    /\ server' = [server EXCEPT ![s] = Idle]
    /\ UNCHANGED <<calls, client, linked, inbox, conn, table, failed, closed, registered, stops>>

\* A new UCXServer with a new worker.  While the old listener has the address,
\* listen fails; initiateServer returns SUCCESS all the same, and the UCXServer
\* that does not listen stays in servers_.
InitiateServer(s) ==
    /\ s \notin registered
    /\ registered' = registered \cup {s}
    /\ IF listener[s] = "down"
       THEN /\ listener' = [listener EXCEPT ![s] = "up"]
            /\ inbox' = [inbox EXCEPT ![s] = {}]
            /\ lost' = lost \cup {k \in failed : calls[k].server = s}
       ELSE UNCHANGED <<listener, inbox, lost>>
    /\ UNCHANGED <<calls, client, server, requests, linked, conn, table, failed, closed, stops>>

----------------------------------------------------------------------------
ClientStep(c) == ClientSendHdr(c) \/ ClientRecvHdr(c) \/ ClientSendRkey(c) \/ ClientRecvRkey(c)

ServerStep(s) ==
    Accept(s) \/ ServerRecvHdr(s) \/ ServerSendHdr(s) \/ ServerRecvRkey(s) \/ ServerSendRkey(s)
        \/ Add(s) \/ StopListener(s)

Next ==
    \/ \E c \in Client :
          \/ ClientStep(c) \/ ClientFail(c)
          \/ \E s \in Server : Connect(c, s) \/ ClientDisconnect(c, s)
    \/ \E s \in Server :
          \/ ServerStep(s) \/ DropRequest(s) \/ ServerFail(s)
          \/ StopServer(s) \/ InitiateServer(s)
          \/ \E key \in Key : ServerDisconnect(s, key)

Spec == Init /\ [][Next]_vars

\* The thread in a connect call and the accept threads are scheduled and make
\* progress on their workers; nothing has to fail.
FairSpec ==
    /\ Spec
    /\ \A c \in Client : WF_vars(ClientStep(c))
    /\ \A s \in Server : WF_vars(ServerStep(s))

----------------------------------------------------------------------------
Side == [pc : {"idle", "sendHdr", "recvHdr", "sendRkey", "recvRkey", "add"},
         call : 0 .. MaxCalls, hdr : 0 .. MaxCalls, rkey : 0 .. MaxCalls]

TypeOK ==
    /\ calls \in Seq([client : Client, server : Server]) /\ Len(calls) <= MaxCalls
    /\ client \in [Client -> Side] /\ server \in [Server -> Side]
    /\ requests \in [Server -> Seq(Call)]
    /\ UNION {linked, failed, closed, lost} \subseteq Call
    /\ registered \subseteq Server /\ stops \in 0 .. MaxFaults
    /\ listener \in [Server -> {"up", "stopping", "down"}]
    /\ inbox \in [Client \cup Server -> SUBSET ({"hdr", "rkey"} \X Call)]
    /\ conn \in [Client -> [Server -> Endpoint \cup {None}]]
    /\ table \in [Server -> [Key -> Endpoint \cup {None}]]

\* A handshake failed on this worker, and may have left messages on it.
Tainted(w) == \E k \in failed : w \in {calls[k].client, calls[k].server}

\* Tags carry no peer and receives no endpoint; an endpoint nevertheless
\* addresses the memory of the peer it is connected to, on every worker no
\* handshake has failed on, whatever happens on the others.
PeerMetadata ==
    LET Right(ep) == ep # None => ep.hdr = ep.call /\ ep.rkey = ep.call
    IN  /\ \A c \in Client, s \in Server : Tainted(c) \/ Right(conn[c][s])
        /\ \A s \in Server, key \in Key : Tainted(s) \/ Right(table[s][key])

\* A connection that a client holds is the one its server has under the client's
\* address and listen port, once the accept thread has finished with it, also
\* when the server was never told that the client's connection before was
\* closed.
TableAgrees ==
    \A c \in Client, s \in Server :
        LET ep == conn[c][s]
        IN  (/\ ep # None
             /\ ~Tainted(s)
             /\ server[s].call # ep.call
             /\ ep.call \notin closed)
            =>
            table[s][KeyOf(c)] # None /\ table[s][KeyOf(c)].call = ep.call

\* As long as no handshake fails, every connect call returns that a stopping
\* server has not left in its queue, the one it was serving included, and every
\* stopServer call returns: clients queue at a server, the accept thread ends
\* between two handshakes, and no two sides wait for each other.
ConnectsReturn ==
    /\ \A c \in Client : (client[c].pc # "idle")
                             ~> (client[c].pc = "idle" \/ client[c].call \in lost \/ failed # {})
    /\ \A s \in Server : (listener[s] = "stopping") ~> (listener[s] = "down" \/ failed # {})
=============================================================================
