---------------------------- MODULE ConnManager ----------------------------
(***************************************************************************)
(* The endpoint table of one process: ConnManager's rdma_endpoint_map       *)
(* (conn_manager.cpp, net.h), used by application threads through           *)
(* Communicator and by the listen thread of RDMAServer.                     *)
(*                                                                         *)
(* The map holds shared entries; an entry holds an endpoint and the mutex   *)
(* under which calls use it.  withEndpoint looks the entry up under the map *)
(* mutex, releases that, and then locks the entry.  Removing an endpoint is *)
(* done in three steps (erase the entry, take the endpoint out of it under  *)
(* its mutex, destroy the endpoint), and so interleaves with all of this.   *)
(*                                                                         *)
(* Endpoints are numbered in the order in which they are created; the       *)
(* number is the endpoint's conn_id_.  A new entry takes the number of the  *)
(* endpoint it is created for.                                             *)
(***************************************************************************)
EXTENDS Integers, Sequences, FiniteSets, FiniteSetsExt

CONSTANTS Key,        \* peers: ip and port
          App,        \* application threads
          Connector,  \* application threads that call connectTo
          Server,     \* the listen thread
          Role,       \* per key the sides that establish its connections
          MaxEps,     \* bound: endpoints of a behaviour
          None        \* no entry, endpoint or thread

ASSUME ConnectorAssumption == Connector \subseteq App
ASSUME ServerAssumption == Server \notin App
ASSUME RoleAssumption == Role \in [Key -> SUBSET {"client", "server"}]
ASSUME MaxEpsAssumption == MaxEps \in Nat
ASSUME ConnNoneAssumption == None \notin Nat \cup Key \cup App \cup {Server}

VARIABLES
    map,      \* rdma_endpoint_map: the entry of each key
    mapLock,  \* holder of rdma_endpoint_map_mutex while it waits for an entry
    entry,    \* the endpoint in each entry
    holder,   \* the thread that has locked each entry
    live,     \* endpoints created and not destroyed
    keyOf,    \* the key of each endpoint created so far
    bound,    \* g_bound_by_cmid: server connections whose cm_id is bound
    gone,     \* connections the peer has dropped or disConnect has erased
    dropped,  \* connections the peer has dropped
    thread    \* where each thread is

vars == <<map, mapLock, entry, holder, live, keyOf, bound, gone, dropped, thread>>

Thread == App \cup {Server}
Ep == 1 .. MaxEps
Op == {"use", "connect", "disconnect", "accept", "event"}
At == {"lock", "use", "dial", "erase", "unhook", "destroy", "add", "match", "matchLock"}

\* A thread in a call: the entry it looked up, the endpoint it uses, adds or
\* matches, and the endpoint it has taken out to destroy.
Idle == [at |-> "idle", op |-> "none", key |-> None, ref |-> None, ep |-> None, old |-> None]
Frame == [at : At, op : Op, key : Key, ref : Ep \cup {None}, ep : Ep \cup {None}, old : Ep \cup {None}]

Init ==
    /\ map = [k \in Key |-> None]
    /\ mapLock = None
    /\ entry = [e \in Ep |-> None]
    /\ holder = [e \in Ep |-> None]
    /\ live = {}
    /\ keyOf = <<>>
    /\ bound = {}
    /\ gone = {}
    /\ dropped = {}
    /\ thread = [t \in Thread |-> Idle]

----------------------------------------------------------------------------
Goto(t, at) == thread' = [thread EXCEPT ![t].at = at]
Return(t) == thread' = [thread EXCEPT ![t] = Idle]

\* What follows _removeEndpoint: the listen thread adds the new endpoint.
Removed(t) == IF thread[t].op = "accept" THEN Goto(t, "add") ELSE Return(t)

\* genConnId64
MutNewEp == 0
NewEp == Len(keyOf) + 1

\* A connection for key k is established and thread t has its endpoint.
Create(t, op, at, k) ==
    /\ Len(keyOf) < MaxEps
    /\ keyOf' = Append(keyOf, k)
    /\ live' = live \cup {NewEp}
    /\ thread' = [thread EXCEPT ![t] =
           [at |-> at, op |-> op, key |-> k, ref |-> None, ep |-> NewEp, old |-> None]]

----------------------------------------------------------------------------
(***************************************************************************)
(* Application threads                                                     *)
(***************************************************************************)

\* withEndpoint finds the entry.  put, get and the others call it twice, first
\* from checkConn; only the second lookup is used.
Lookup(t, op, k) ==
    /\ thread[t] = Idle
    /\ mapLock = None
    /\ map[k] # None
    /\ thread' = [thread EXCEPT ![t] =
           [at |-> "lock", op |-> op, key |-> k, ref |-> map[k], ep |-> None, old |-> None]]
    /\ UNCHANGED <<map, mapLock, entry, holder, live, keyOf, bound, gone, dropped>>

MayConnect(t, k) == t \in Connector /\ "client" \in Role[k]

\* connectTo finds no entry.
ConnectNew(t, k) ==
    /\ thread[t] = Idle
    /\ mapLock = None
    /\ map[k] = None
    /\ MayConnect(t, k)
    /\ thread' = [thread EXCEPT ![t] =
           [at |-> "dial", op |-> "connect", key |-> k, ref |-> None, ep |-> None, old |-> None]]
    /\ UNCHANGED <<map, mapLock, entry, holder, live, keyOf, bound, gone, dropped>>

Call(t, k) ==
    \/ Lookup(t, "use", k)
    \/ Lookup(t, "disconnect", k)
    \/ MayConnect(t, k) /\ Lookup(t, "connect", k)
    \/ ConnectNew(t, k)

\* Second half of withEndpoint.  A call that uses the endpoint keeps the mutex;
\* checkConn, for connectTo and disConnect, only learns whether there is one.
LockEntry(t) ==
    LET f == thread[t]
        found == entry[f.ref] # None
    IN  /\ f.at = "lock"
        /\ holder[f.ref] = None
        /\ \/ /\ f.op = "use" /\ found
              /\ holder' = [holder EXCEPT ![f.ref] = t]
              /\ thread' = [thread EXCEPT ![t].at = "use", ![t].ep = entry[f.ref]]
           \/ f.op = "connect" /\ found /\ Return(t) /\ UNCHANGED holder
           \/ f.op = "connect" /\ ~found /\ Goto(t, "dial") /\ UNCHANGED holder
           \/ f.op = "disconnect" /\ found /\ Goto(t, "erase") /\ UNCHANGED holder
           \/ f.op # "connect" /\ ~found /\ Return(t) /\ UNCHANGED holder
        /\ UNCHANGED <<map, mapLock, entry, live, keyOf, bound, gone, dropped>>

\* The operation on the endpoint ends.
MutFinishUse(t) ==
    /\ thread[t].at = "use"
    /\ Return(t)
    /\ UNCHANGED <<map, mapLock, entry, holder, live, keyOf, bound, gone, dropped>>
FinishUse(t) ==
    /\ thread[t].at = "use"
    /\ holder' = [holder EXCEPT ![thread[t].ref] = None]
    /\ Return(t)
    /\ UNCHANGED <<map, mapLock, entry, live, keyOf, bound, gone, dropped>>

\* initiateConnectionAsClient
Dial(t) ==
    /\ thread[t].at = "dial"
    /\ Create(t, "connect", "add", thread[t].key)
    /\ UNCHANGED <<map, mapLock, entry, holder, bound, gone, dropped>>

DialFails(t) ==
    /\ thread[t].at = "dial"
    /\ Return(t)
    /\ UNCHANGED <<map, mapLock, entry, holder, live, keyOf, bound, gone, dropped>>

----------------------------------------------------------------------------
(***************************************************************************)
(* _addEndpoint, _removeEndpoint, _removeEndpointIfMatch                   *)
(***************************************************************************)

\* An endpoint that is still in the key's entry is overwritten and so
\* destroyed; the entry's mutex is not taken.
Add(t) ==
    LET f == thread[t]
        e == IF map[f.key] = None THEN f.ep ELSE map[f.key]
    IN  /\ f.at = "add"
        /\ mapLock = None
        /\ map' = [map EXCEPT ![f.key] = e]
        /\ entry' = [entry EXCEPT ![e] = f.ep]
        /\ live' = live \ {entry[e]}
        /\ Return(t)
        /\ UNCHANGED <<mapLock, holder, keyOf, bound, gone, dropped>>

Erase(t) ==
    LET f == thread[t]
    IN  /\ f.at = "erase"
        /\ mapLock = None
        /\ IF map[f.key] = None
           THEN Removed(t) /\ UNCHANGED <<map, gone>>
           ELSE /\ map' = [map EXCEPT ![f.key] = None]
                /\ gone' = IF f.op = "disconnect" THEN gone \cup {entry[map[f.key]]} ELSE gone
                /\ thread' = [thread EXCEPT ![t].at = "unhook", ![t].ref = map[f.key]]
        /\ UNCHANGED <<mapLock, entry, holder, live, keyOf, bound, dropped>>

\* The endpoint is taken out of the erased entry under the entry's mutex.
MutUnhook(t) ==
    LET f == thread[t]
    IN  /\ f.at = "unhook"
        /\ entry' = [entry EXCEPT ![f.ref] = None]
        /\ thread' = [thread EXCEPT ![t].at = "destroy", ![t].old = entry[f.ref]]
        /\ UNCHANGED <<map, mapLock, holder, live, keyOf, bound, gone, dropped>>
Unhook(t) ==
    LET f == thread[t]
    IN  /\ f.at = "unhook"
        /\ holder[f.ref] = None
        /\ entry' = [entry EXCEPT ![f.ref] = None]
        /\ thread' = [thread EXCEPT ![t].at = "destroy", ![t].old = entry[f.ref]]
        /\ UNCHANGED <<map, mapLock, holder, live, keyOf, bound, gone, dropped>>

\* to_delete.reset()
Destroy(t) ==
    /\ thread[t].at = "destroy"
    /\ live' = live \ {thread[t].old}
    /\ Removed(t)
    /\ UNCHANGED <<map, mapLock, entry, holder, keyOf, bound, gone, dropped>>

\* _removeEndpointIfMatch: the map mutex is kept while waiting for the entry's.
Match(t) ==
    LET f == thread[t]
    IN  /\ f.at = "match"
        /\ mapLock = None
        /\ IF map[f.key] = None
           THEN Return(t) /\ UNCHANGED mapLock
           ELSE /\ mapLock' = t
                /\ thread' = [thread EXCEPT ![t].at = "matchLock", ![t].ref = map[f.key]]
        /\ UNCHANGED <<map, entry, holder, live, keyOf, bound, gone, dropped>>

\* The endpoint in the entry is the one the event is about.
MutSameConn(f) == TRUE
SameConn(f) == entry[f.ref] = f.ep

MatchLock(t) ==
    LET f == thread[t]
    IN  /\ f.at = "matchLock"
        /\ holder[f.ref] = None
        /\ mapLock' = None
        /\ map' = IF SameConn(f) \/ entry[f.ref] = None THEN [map EXCEPT ![f.key] = None] ELSE map
        /\ IF SameConn(f)
           THEN /\ entry' = [entry EXCEPT ![f.ref] = None]
                /\ thread' = [thread EXCEPT ![t].at = "destroy", ![t].old = entry[f.ref]]
           ELSE Return(t) /\ UNCHANGED entry
        /\ UNCHANGED <<holder, live, keyOf, bound, gone, dropped>>

----------------------------------------------------------------------------
(***************************************************************************)
(* The listen thread                                                       *)
(***************************************************************************)

\* CONNECT_REQUEST, handshake and bindCmid_; then the endpoint of the key is
\* removed and the new one added.
Request(k) ==
    /\ thread[Server] = Idle
    /\ "server" \in Role[k]
    /\ Create(Server, "accept", "erase", k)
    /\ bound' = bound \cup {NewEp}
    /\ UNCHANGED <<map, mapLock, entry, holder, gone, dropped>>

\* The peer of a server connection goes away.
PeerDrops(c) ==
    /\ c \in bound
    /\ c \notin dropped
    /\ dropped' = dropped \cup {c}
    /\ gone' = gone \cup {c}
    /\ UNCHANGED <<map, mapLock, entry, holder, live, keyOf, bound, thread>>

\* DISCONNECTED, which takeBind_ maps to a key and a connection.
Disconnected(c) ==
    /\ thread[Server] = Idle
    /\ c \in bound \cap dropped
    /\ bound' = bound \ {c}
    /\ thread' = [thread EXCEPT ![Server] =
           [at |-> "match", op |-> "event", key |-> keyOf[c], ref |-> None, ep |-> c, old |-> None]]
    /\ UNCHANGED <<map, mapLock, entry, holder, live, keyOf, gone, dropped>>

----------------------------------------------------------------------------
\* A thread in a call goes on.
Step(t) ==
    \/ LockEntry(t) \/ FinishUse(t) \/ Dial(t) \/ DialFails(t)
    \/ Add(t) \/ Erase(t) \/ Unhook(t) \/ Destroy(t)
    \/ Match(t) \/ MatchLock(t)

Next ==
    \/ \E t \in App, k \in Key : Call(t, k)
    \/ \E t \in Thread : Step(t)
    \/ \E k \in Key : Request(k)
    \/ \E c \in Ep : PeerDrops(c) \/ Disconnected(c)

Spec == Init /\ [][Next]_vars

\* Every thread in a call is scheduled, and an operation on an endpoint ends.
FairSpec == Spec /\ \A t \in Thread : WF_vars(Step(t))

----------------------------------------------------------------------------
TypeOK ==
    /\ map \in [Key -> Ep \cup {None}]
    /\ mapLock \in {None, Server}
    /\ entry \in [Ep -> Ep \cup {None}]
    /\ holder \in [Ep -> App \cup {None}]
    /\ live \subseteq Ep
    /\ keyOf \in Seq(Key) /\ Len(keyOf) <= MaxEps
    /\ bound \subseteq Ep
    /\ dropped \subseteq gone /\ gone \subseteq Ep
    /\ thread \in [Thread -> Frame \cup {Idle}]

\* A call that is running on an endpoint has it to itself and the endpoint is
\* not destroyed under it, whatever other threads remove, replace or
\* disconnect: "ep is used by one call at a time" (EndpointEntry, net.h).
UseIsSafe ==
    \A t \in App : thread[t].at = "use" =>
        /\ thread[t].ep \in live
        /\ \A u \in App : thread[u].at = "use" /\ thread[u].ep = thread[t].ep => u = t

\* The newest connection of a key stays reachable unless the peer dropped it or
\* the application disconnected it: neither a late DISCONNECTED of an earlier
\* connection nor a removal under way takes it out of the map.
LatestReachable ==
    \A k \in Key :
        LET cs == {c \in DOMAIN keyOf : keyOf[c] = k}
            newest == Max(cs)
        IN  ( /\ cs # {}
              /\ newest \notin gone
              /\ \A t \in Thread : ~(thread[t].op \in {"connect", "accept"} /\ thread[t].ep = newest) )
            => map[k] # None /\ entry[map[k]] = newest

\* An endpoint of the table, or of a call that will add it.
Kept(c) ==
    \/ \E k \in Key : map[k] # None /\ entry[map[k]] = c
    \/ \E t \in Thread : thread[t].op \in {"connect", "accept"} /\ thread[t].ep = c

\* An endpoint that has left the table is destroyed in the end, its queue pairs
\* and registered memory with it, however many calls still hold its entry.
RemovedIsDestroyed == \A c \in Ep : (c \in live /\ ~Kept(c)) ~> (c \notin live)
=============================================================================
