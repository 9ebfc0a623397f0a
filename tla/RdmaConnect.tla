---------------------------- MODULE RdmaConnect ----------------------------
(***************************************************************************)
(* Establishing RDMA connections: RDMAClient::connect in any number of      *)
(* client processes and the listen loop of one RDMAServer (rdma_client.cpp, *)
(* rdma_server.cpp).                                                       *)
(*                                                                         *)
(* A connect call draws one conn_id and keeps it over its retries; attempt  *)
(* <<k, n>> is the n-th try of call k and stands for its cm_id.  When the   *)
(* connection manager reports ESTABLISHED the client dials the metadata     *)
(* socket and sends conn_id and buffer metadata; the server, which serves   *)
(* one connection at a time, answers with its own.                         *)
(*                                                                         *)
(* The connection manager is modelled from its use: it queues events in     *)
(* one channel for the whole server, an id that is destroyed takes its      *)
(* unread events with it, and an attempt whose other side is gone ends in   *)
(* an error event.  The metadata of an attempt is the attempt itself.       *)
(***************************************************************************)
EXTENDS Integers, Sequences, FiniteSets, Functions

CONSTANTS Client,     \* client processes
          KeyOf,      \* the ip and listen port the server knows a client by
          Tries,      \* max_retry_times of each call's RDMAClient
          Serials,    \* may clients overlap (FALSE), or not (TRUE)?
          MaxCalls,   \* bound: connect calls of a behaviour
          None        \* no attempt

ASSUME KeyOfAssumption == DOMAIN KeyOf = Client
ASSUME MaxCallsAssumption == MaxCalls \in Nat
ASSUME TriesAssumption == Tries \in [1 .. MaxCalls -> Nat \ {0}]
ASSUME SerialsAssumption == Serials \subseteq BOOLEAN

VARIABLES
    serial,    \* clients connect, disconnect and stop one at a time
    caller,    \* the client of each call made so far
    client,    \* where each client is, its call and its try
    cliIds,    \* attempts whose cm_id exists at the client
    srvIds,    \* accepted attempts whose endpoint exists at the server
    accepted,  \* attempts the server has answered
    channel,   \* events the server has not read: <<kind, attempt>>
    srv,       \* where the listen loop is, and the attempt it serves
    backlog,   \* metadata sockets the server has not accepted, by call
    pending,   \* g_pending_meta_fd: accepted sockets, by call
    sock,      \* what the client has written to the socket of a call
    answer,    \* the server metadata on the socket of a call
    remote,    \* remote_metadata_attr of the server's endpoints, as a call
    bound,     \* g_bound_by_cmid
    table      \* the server's rdma_endpoint_map

vars == <<serial, caller, client, cliIds, srvIds, accepted, channel, srv, backlog, pending, sock,
          answer, remote, bound, table>>

Call == 1 .. MaxCalls
Attempt == UNION {{<<k, n>> : n \in 1 .. Tries[k]} : k \in Call}
Key == {KeyOf[c] : c \in Client}

ASSUME NoneAssumption == None \notin Attempt /\ None \notin Call

Try(c) == <<client[c].call, client[c].try>>
Owner(a) == caller[a[1]]

\* The server has bound its addresses and waits for events.
Init ==
    /\ serial \in Serials
    /\ caller = <<>>
    /\ client = [c \in Client |-> [pc |-> "idle", call |-> 0, try |-> 0]]
    /\ cliIds = {} /\ srvIds = {} /\ accepted = {}
    /\ channel = <<>>
    /\ srv = [pc |-> "loop", at |-> None]
    /\ backlog = <<>> /\ pending = {}
    /\ sock = [k \in Call |-> "unused"]
    /\ answer = [k \in Call |-> None]
    /\ remote = [a \in Attempt |-> None]
    /\ bound = {}
    /\ table = [k \in Key |-> None]

----------------------------------------------------------------------------
(***************************************************************************)
(* RDMAClient::connect                                                     *)
(***************************************************************************)
Connecting(c) == client[c].pc \notin {"idle", "ok"}
MayStart(c) == serial => \A d \in Client \ {c} : ~Connecting(d)

At(c, label) == client' = [client EXCEPT ![c].pc = label]

\* Destroying the client's cm_id tells the server, if it has accepted.
Release(c) ==
    LET a == Try(c)
    IN  /\ cliIds' = cliIds \ {a}
        /\ channel' = IF a \in cliIds \cap srvIds
                      THEN Append(channel, <<IF client[c].pc = "wait" THEN "failed" ELSE "disconnected", a>>)
                      ELSE channel

Connect(c) ==
    /\ client[c].pc = "idle"
    /\ MayStart(c)
    /\ Len(caller) < MaxCalls
    /\ UNCHANGED serial
    /\ caller' = Append(caller, c)
    /\ client' = [client EXCEPT ![c] = [pc |-> "request", call |-> Len(caller) + 1, try |-> 1]]
    /\ UNCHANGED <<cliIds, srvIds, accepted, channel, srv, backlog, pending, sock, answer, remote,
                   bound, table>>

\* The label retry: another try with the same conn_id, or the call fails.
MutRetry(c) ==
    /\ Release(c)
    /\ client' = IF client[c].try <= Tries[client[c].call]
                 THEN [client EXCEPT ![c].pc = "request", ![c].try = @ + 1]
                 ELSE [client EXCEPT ![c].pc = "idle"]
Retry(c) ==
    /\ Release(c)
    /\ client' = IF client[c].try < Tries[client[c].call]
                 THEN [client EXCEPT ![c].pc = "request", ![c].try = @ + 1]
                 ELSE [client EXCEPT ![c].pc = "idle"]

\* Address, route and resources, then rdma_connect.
Request(c) ==
    /\ client[c].pc = "request"
    /\ \/ /\ cliIds' = cliIds \cup {Try(c)}
          /\ channel' = Append(channel, <<"request", Try(c)>>)
          /\ At(c, "wait")
       \/ Retry(c)                                            \* no address or route
       \/ At(c, "idle") /\ UNCHANGED <<cliIds, channel>>      \* no resources
    /\ UNCHANGED <<serial, caller, srvIds, accepted, srv, backlog, pending, sock, answer, remote, bound, table>>

\* ESTABLISHED at the client, and from there at the server.
Established(c) ==
    /\ client[c].pc = "wait"
    /\ Try(c) \in accepted
    /\ channel' = IF Try(c) \in srvIds THEN Append(channel, <<"established", Try(c)>>) ELSE channel
    /\ At(c, "dial")
    /\ UNCHANGED <<serial, caller, cliIds, srvIds, accepted, srv, backlog, pending, sock, answer, remote,
                   bound, table>>

\* Any other event: rejected, unreachable, timed out.
NotEstablished(c) ==
    /\ client[c].pc = "wait"
    /\ Retry(c)
    /\ UNCHANGED <<serial, caller, srvIds, accepted, srv, backlog, pending, sock, answer, remote, bound, table>>

\* exchangeMetaData dials and writes; a failure on the way ends the call.
Dial(c) ==
    /\ client[c].pc = "dial"
    /\ \E written \in {"nothing", "hello", "all"} :
          /\ sock' = [sock EXCEPT ![client[c].call] = written]
          /\ backlog' = Append(backlog, client[c].call)
          /\ IF written = "all"
             THEN At(c, "reply") /\ UNCHANGED <<cliIds, channel>>
             ELSE At(c, "idle") /\ Release(c)
    /\ UNCHANGED <<serial, caller, srvIds, accepted, srv, pending, answer, remote, bound, table>>

DialFails(c) ==
    /\ client[c].pc = "dial"
    /\ At(c, "idle") /\ Release(c)
    /\ UNCHANGED <<serial, caller, srvIds, accepted, srv, backlog, pending, sock, answer, remote, bound, table>>

\* The server's reply and metadata, or the end of the socket.
Reply(c) ==
    LET k == client[c].call
    IN  /\ client[c].pc = "reply"
        /\ sock[k] \in {"answered", "closed"}
        /\ IF sock[k] = "answered" /\ answer[k][1] = k
           THEN At(c, "ok") /\ UNCHANGED <<cliIds, channel>>
           ELSE At(c, "idle") /\ Release(c)
        /\ UNCHANGED <<serial, caller, srvIds, accepted, srv, backlog, pending, sock, answer, remote, bound,
                       table>>

\* The endpoint is destroyed: closeEndpoint, cleanRdmaResources.
Disconnect(c) ==
    /\ client[c].pc = "ok"
    /\ MayStart(c)
    /\ At(c, "idle") /\ Release(c)
    /\ UNCHANGED <<serial, caller, srvIds, accepted, srv, backlog, pending, sock, answer, remote, bound, table>>

\* The client process dies; a socket the server has yet to answer stays as it is.
Crash(c) ==
    /\ client[c].pc \in {"wait", "dial", "reply"}
    /\ MayStart(c)
    /\ At(c, "idle") /\ Release(c)
    /\ UNCHANGED <<serial, caller, srvIds, accepted, srv, backlog, pending, sock, answer, remote, bound, table>>

----------------------------------------------------------------------------
(***************************************************************************)
(* RDMAServer::listen                                                      *)
(***************************************************************************)
Events(kind) == {e \in Range(channel) : e[1] = kind}

\* What is left of the channel q when the id of attempt a is destroyed: the
\* events of other attempts, in their order.
Kept(q, a) == {i \in DOMAIN q : q[i][2] # a}
Place(q, a, i) == Cardinality({h \in Kept(q, a) : h <= i})
Without(q, a) ==
    [j \in 1 .. Cardinality(Kept(q, a)) |-> q[CHOOSE i \in Kept(q, a) : Place(q, a, i) = j]]

\* CONNECT_REQUEST: handleConnection up to rdma_accept.
TakeRequest ==
    LET a == Head(channel)[2]
    IN  /\ srv.pc = "loop"
        /\ channel # <<>> /\ Head(channel)[1] = "request"
        /\ \/ /\ accepted' = accepted \cup {a}
              /\ srvIds' = srvIds \cup {a}
              /\ channel' = IF a \in cliIds THEN Tail(channel)
                            ELSE Append(Tail(channel), <<"failed", a>>)
              /\ srv' = [pc |-> "accept", at |-> a]
           \/ channel' = Tail(channel) /\ UNCHANGED <<accepted, srvIds, srv>>     \* no resources
        /\ UNCHANGED <<serial, caller, client, cliIds, backlog, pending, sock, answer, remote, bound, table>>

\* The endpoint under construction is destroyed, and the loop goes on.
MutGiveUp(q) ==
    /\ channel' = q
    /\ srv' = [pc |-> "loop", at |-> None]
    /\ UNCHANGED srvIds
GiveUp(q) ==
    /\ srvIds' = srvIds \ {srv.at}
    /\ channel' = Without(q, srv.at)
    /\ srv' = [pc |-> "loop", at |-> None]

\* The rest of handleConnection takes the next event of the channel, of
\* whatever attempt, for its own; any but ESTABLISHED ends the attempt.
TakeEstablished ==
    /\ srv.pc = "accept"
    /\ channel # <<>>
    /\ IF Head(channel)[1] = "established"
       THEN /\ channel' = Tail(channel)
            /\ srv' = [srv EXCEPT !.pc = "meta"]
            /\ UNCHANGED srvIds
       ELSE GiveUp(Tail(channel))
    /\ UNCHANGED <<serial, caller, client, cliIds, accepted, backlog, pending, sock, answer, remote, bound, table>>

\* popMetaFd_(id): the accepted sockets that carry this conn_id.
MutPopMetaFd(id) == pending
PopMetaFd(id) == pending \cap {id}

\* pushMetaFd_
MutPushMetaFd(k) == UNCHANGED pending
PushMetaFd(k) == pending' = pending \cup {k}

\* A socket is accepted and its hello read; it waits for its conn_id's turn.
AcceptMeta ==
    LET k == Head(backlog)
    IN  /\ srv.pc = "meta"
        /\ PopMetaFd(srv.at[1]) = {}
        /\ backlog # <<>>
        /\ backlog' = Tail(backlog)
        /\ IF sock[k] = "nothing"
           THEN sock' = [sock EXCEPT ![k] = "closed"] /\ UNCHANGED pending
           ELSE PushMetaFd(k) /\ UNCHANGED sock
        /\ UNCHANGED <<serial, caller, client, cliIds, srvIds, accepted, channel, srv, answer, remote, bound, table>>

\* The rest of exchangeMetaData on the socket popped.  Writing to a client that
\* is gone may fail.
ExchangeMeta ==
    /\ srv.pc = "meta"
    /\ \E k \in PopMetaFd(srv.at[1]) :
          /\ pending' = pending \ {k}
          /\ \/ /\ sock[k] = "all"
                /\ remote' = [remote EXCEPT ![srv.at] = k]
                /\ answer' = [answer EXCEPT ![k] = srv.at]
                /\ sock' = [sock EXCEPT ![k] = "answered"]
                /\ srv' = [srv EXCEPT !.pc = "add"]
                /\ UNCHANGED <<srvIds, channel>>
             \/ /\ sock[k] # "all" \/ srv.at \notin cliIds
                /\ sock' = [sock EXCEPT ![k] = "closed"]
                /\ GiveUp(channel)
                /\ UNCHANGED <<remote, answer>>
    /\ UNCHANGED <<serial, caller, client, cliIds, accepted, backlog, bound, table>>

\* transitionExtraQPsToRTS, bindCmid_, and the endpoint replaces the one its
\* key had.
MutReplace(key, a) == IF table[key] = None THEN a ELSE table[key]
Replace(key, a) == a

Add ==
    LET key == KeyOf[Owner(srv.at)]
        old == table[key]
    IN  /\ srv.pc = "add"
        /\ bound' = bound \cup {srv.at}
        /\ table' = [table EXCEPT ![key] = Replace(key, srv.at)]
        /\ srvIds' = srvIds \ {old}
        /\ channel' = Without(channel, old)
        /\ srv' = [pc |-> "loop", at |-> None]
        /\ UNCHANGED <<serial, caller, client, cliIds, accepted, backlog, pending, sock, answer, remote>>

\* DISCONNECTED, with takeBind_ and _removeEndpointIfMatch.
TakeDisconnected ==
    LET a == Head(channel)[2]
        key == KeyOf[Owner(a)]
        match == a \in bound /\ table[key] = a
    IN  /\ srv.pc = "loop"
        /\ channel # <<>> /\ Head(channel)[1] = "disconnected"
        /\ bound' = bound \ {a}
        /\ table' = IF match THEN [table EXCEPT ![key] = None] ELSE table
        /\ srvIds' = IF match THEN srvIds \ {a} ELSE srvIds
        /\ channel' = IF match THEN Without(Tail(channel), a) ELSE Tail(channel)
        /\ UNCHANGED <<serial, caller, client, cliIds, accepted, srv, backlog, pending, sock, answer, remote>>

----------------------------------------------------------------------------
ClientStep(c) ==
    Request(c) \/ Established(c) \/ NotEstablished(c) \/ Dial(c) \/ DialFails(c) \/ Reply(c)

ServerStep ==
    TakeRequest \/ TakeEstablished \/ AcceptMeta \/ ExchangeMeta \/ Add \/ TakeDisconnected

Next ==
    \/ \E c \in Client : Connect(c) \/ ClientStep(c) \/ Disconnect(c) \/ Crash(c)
    \/ ServerStep

Spec == Init /\ [][Next]_vars

\* The listen thread and the threads in a connect call are scheduled, and the
\* connection manager ends every wait of a client, by its timeout at the latest.
FairSpec == Spec /\ WF_vars(ServerStep) /\ \A c \in Client : WF_vars(ClientStep(c))

----------------------------------------------------------------------------
TypeOK ==
    /\ serial \in Serials
    /\ caller \in Seq(Client) /\ Len(caller) <= MaxCalls
    /\ client \in [Client -> [pc : {"idle", "request", "wait", "dial", "reply", "ok"},
                              call : 0 .. MaxCalls, try : Nat]]
    /\ cliIds \subseteq Attempt
    /\ srvIds \subseteq accepted /\ accepted \subseteq Attempt
    /\ channel \in Seq({"request", "established", "failed", "disconnected"} \X Attempt)
    /\ srv \in [pc : {"loop", "accept", "meta", "add"}, at : Attempt \cup {None}]
    /\ backlog \in Seq(Call) /\ pending \subseteq Call
    /\ sock \in [Call -> {"unused", "nothing", "hello", "all", "answered", "closed"}]
    /\ answer \in [Call -> Attempt \cup {None}]
    /\ remote \in [Attempt -> Call \cup {None}]
    /\ bound \subseteq Attempt
    /\ table \in [Key -> Attempt \cup {None}]

\* handleConnection never looks at whose event it reads; an ESTABLISHED in the
\* channel is nevertheless always that of the connection being accepted, since
\* an attempt given up takes its unread events with it.
EstablishedIsOurs ==
    \A e \in Events("established") : srv.pc = "accept" /\ srv.at = e[2]

\* The two endpoints of a connection hold each other's metadata, however
\* retries, abandoned sockets and other clients' sockets mix on the metadata
\* port.
MetadataMatches ==
    /\ \A key \in Key : table[key] # None => remote[table[key]] = table[key][1]
    /\ \A c \in Client : client[c].pc = "ok" =>
           answer[client[c].call] = Try(c) /\ remote[Try(c)] = client[c].call

\* A connection that a client holds is in the server's table, as soon as the
\* server has finished with it, also when the server missed the end of the
\* client's connection before ("replace").
ServerKnows ==
    \A c \in Client : (client[c].pc = "ok" /\ srv.at # Try(c)) => table[KeyOf[c]] = Try(c)

\* The listen loop gets back to its events, unless the client it is serving has
\* given up or died in the middle.
ServerReturns ==
    \A a \in Attempt : (srv.at = a) ~> (srv.at # a \/ a \notin cliIds)

\* Every connect call returns while the clients keep out of each other's way:
\* no event of another client gets between a request and its ESTABLISHED.
ConnectReturns == \A c \in Client : (serial /\ Connecting(c)) ~> ~Connecting(c)
=============================================================================
