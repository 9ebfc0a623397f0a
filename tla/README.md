# TLA+ models of HMC

HMC moves data between processes: a registered buffer per process, one-sided
RDMA (or UCX, or device peer-to-peer) transfers between the buffers, a TCP/UDS
control plane beside them, and a Python layer with collectives on top. The
modules here model the parts in which threads, processes and the NIC
interleave. Line numbers are those of the files under `src/`.

## 1. Inventory

| Part | State | Operations | Hard behaviour |
|---|---|---|---|
| UHM transfer, `RDMAEndpoint::uhm_send/uhm_recv` (`src/src/network/rdma_endpoint.cpp`) | two halves of the registered buffer, `uhm_buffer_state.state[2]` and `length` on both sides, signaled requests not yet waited for | one call on each side | each word of `state` is written by the program and by the peer's RDMA writes; unsignaled writes; several queue pairs |
| Completion waits, `waitWrId`, `waitWrIdMulti`, `put/get/putNB/getNB/wait` (`rdma_endpoint.cpp`, `communicator.cpp`) | completion queue, `completed_wr_ids_`, `inflight_ep_`, the entry mutex and `cq_poll_mu_` | blocking and non-blocking transfers, waits for one id or a list | threads poll each other's completions; error completions; timeouts |
| Pipelined transfers, `writeDataPipeline/readDataPipeline` | window, signal interval, send-queue slots | one call, repeated | slots are freed only by signaled completions |
| Control plane, `CtrlSocketManager` (`socket_ctrl.cpp`) | `id_to_conn_`, listening sockets, descriptors | `start`, `stop`, `connectTcp/Uds`, accept loop with HELLO, `send`, `recv`, `close` | connect call against accept thread; descriptor used after the lock is released; kernel reuse of descriptors |
| Endpoint table, `ConnManager`, `Communicator::connectTo/disConnect/checkConn` (`conn_manager.cpp`, `net.h`) | map of entries, mutex of each entry, endpoints, `g_bound_by_cmid` | add, remove, remove on DISCONNECTED, call through `withEndpoint` | calls on an endpoint that another thread removes or replaces; late events |
| RDMA handshake, `RDMAServer`, `RDMAClient` | CM event channel, metadata sockets, `g_pending_meta_fd`, retries | `connect`, `listen`, `exchangeMetaData` | one event channel for all clients; clients that give up or die in the middle |
| Python collectives (`hmc/collective.py`) | send and receive regions, connections, barriers, tags | `alltoall`, direct and ring | ranks in different calls write into each other's buffers |
| UCX connections (`ucx_client.cpp`, `ucx_server.cpp`, `conn_manager.cpp`) | pending connection requests, worker with unreceived tag messages, registered server, listener | `connect`, `listen` and its accept thread, tag send/recv, `initiateServer`, `stopServer` | tags name no peer and receives no endpoint; no timeout; a server stopped while it serves |
| UCX transfers (`ucx_endpoint.cpp`, `communicator.cpp`) | `inflight_ep_` of the process, `inflight_` and `next_wrid_` of each endpoint, requests | `put/get/putNB/getNB`, waits for one id or a list, `disConnect` | one id goes through two tables under two mutexes; ids of two endpoints coincide; a wait that gives up; raw endpoint pointers |
| P2P backend, ConnBuffer, memory backends, resource manager, bindings, applications | see `PROJECT.json` | | none or little of their own |

How they interact: `Communicator` finds an endpoint through `ConnManager` and
runs a transfer on it under the entry's mutex; non-blocking transfers leave the
endpoint in `inflight_ep_` and are waited for without the mutex. The listen
thread of `RDMAServer` adds and removes endpoints of the same table.
`connectTo` sets up a control connection and a data connection. The collectives
call `connect`, `put_remote`, `get_remote`, `ctrl_send`, `ctrl_recv` and the
barriers of `torch.distributed`.

What makes each part correct:

- UHM: a half is never written while it is unread, what is copied out is what
  was sent, both calls end.
- Waits: SUCCESS only for what was executed, no completion lost, every wait ends.
- Pipeline: SUCCESS only when everything was executed, the send queue never full.
- Control plane: no descriptor leaked, both ranks keep the same connection,
  messages arrive whole.
- Endpoint table: no call on a destroyed endpoint, the newest connection
  reachable, removed endpoints destroyed.
- Handshake: both ends hold each other's metadata, the server's table follows
  the clients, nobody waits for ever.
- UCX transfers: SUCCESS only for what is done, every request in one place and
  never used after it is freed, waits find the endpoint alive.
- Collectives: every rank returns with the blocks of its call, and connects in an
  order under which the connect calls are safe.

`PROJECT.json` lists the hazards line by line with the property that covers each.

## 2. Modules

Definitions named `Mut...` are seeded faults: each stands before the definition
it is a faulty form of and is used by no action. `MC...` modules only give
values to constants.

**UhmTransfer** One `uhm_send` and one `uhm_recv`. `pc` is the place in each
call, `chunk` is `current_chunk`, `sq` the posted work requests of a side,
`pending`/`since` the signal window. `SendStart`, `SendPrefillFirst`,
`SendBootWait`, `SendData`, `SendFlag`, `SendPrefillNext`, and on the other side
`RecvStart`, `RecvPoll`, `RecvReset0/1`, `RecvChunk`, `RecvGrant`, are the
stretches of the two loops between points at which the other side or the NIC can
be observed; posts and waits may fail. The NIC executes the requests of a queue
pair in order and reads the source when it executes. The content of a half is
the number of a chunk.
**UhmChannel** is what the double buffer promises: a counter of posted and of
copied chunks, never more than two apart. `UhmTransfer` implements it.

**CqWait** Threads on one endpoint. A call is a post and the steps of the wait:
look into `completed_wr_ids_` (`Check`), take `cq_poll_mu_` (`Lock`), look again
and take everything off the queue (`Poll`), hand on what is others'. `usage` is
the set of calls an application restricts itself to. Queue pairs may break.

**RdmaPipeline** The loop of a pipelined call, and calls in sequence, also after
calls that failed: what these posted stays on the send queues, and `fails` counts
them until a wait succeeds. Work requests are numbered per queue pair; `signals`
are the completions to come, and `freed` follows the rule that a polled
completion frees the slots of all earlier requests of its queue pair. A queue
pair may go to the error state (`QpFails`); a wait may time out or meet an error
after it has polled any number of completions.

**CtrlSocket** All ranks' `CtrlSocketManager`. A connection is a number with two
ends; descriptors are given out lowest first, as the kernel does; a message is
two writes to the descriptor `send` looked up. With `Serial` the application does
not overlap two calls for one peer; without it threads of a rank may send, close
and dial the same peer at once.

**ConnManager** One process: application threads in `withEndpoint`, `connectTo`
and `disConnect`, and the listen thread. Erasing an entry, taking its endpoint
out and destroying it are separate steps, since other threads run in between.

**RdmaConnect** Any number of clients and one server. An attempt stands for a
`cm_id`, a call for its `conn_id_`. `TakeRequest`, `TakeEstablished`,
`AcceptMeta`, `ExchangeMeta`, `Add`, `TakeDisconnected` are the steps of
`listen`, between which it blocks. The connection manager is modelled from its
use: one queue of events, from which destroying an id removes that id's.

**UcxHandshake** Any number of clients and UCX servers. `inbox` holds the tag
messages that have reached a worker, named by kind and connect call; a receive
takes any of its kind. The steps of the two sides are the sends and receives of
`UCXClient::connect` and of the accept thread; `ClientFail`, `ServerFail` and
`DropRequest` are their error returns. UCX is modelled from its use: a client's
first send completes when the server has created its endpoint, and a side that
leaves is not noticed by the other. `InitiateServer`, `StopServer` and
`StopListener` are the life of a server in the table of `ConnManager`:
`stopServer` tells the accept thread and joins it before the server is dropped;
requests still queued are lost with it, and the address may be listened on again.

**UcxWait** Application threads of one process with several UCX endpoints.
`inflightEp` and `inflight` are the two tables a wr_id goes through, each access
to one of them a step: `PutNB` files the request and `Record` the endpoint, `Wait`
and `WaitList` look the endpoints up, `Take` and `TakeAll` take the requests out,
`Drive`, `Poll` and `Timeout` are the loops that drive the shared worker.
`DisConnect` and `Close` take an endpoint out and destroy it. `usage` is the set
of calls an application restricts itself to: "mix" transfers to several peers at
once, "rude" disconnects with transfers outstanding, "fail" requests that end in
an error, "retry" a wait repeated after it gave up. A transfer is done when UCX
completes its request, which for a put says that the source may be reused.

**Collective** `alltoall` over `W` ranks. A block's content is its call, sender
and addressee. A connect call adds the caller's endpoint; the peer's listen
thread adds the other end later (`Adopt`), as in RdmaConnect. The constant `Ucx`
says which pairs put over UCX (`conn="auto"` chooses by the kind of memory,
`hmc/collective.py:185-189`): there `writeData` returns when `ucp_put_nbx` has
completed locally and nothing flushes the endpoint (`ucx_endpoint.cpp:490-497`),
so the chunk is in `flying` until `Land` puts it into the peer's region. Over RDMA
the completion waited for says that it is there.

The modules stand for different views of one process. RdmaConnect supplies what
ConnManager takes as one step (`Create`, `Request`) and what Collective takes as
`Dialed`/`Adopt`. Collective's `ConnectsSafely` establishes, for the direct
algorithm, the usage under which RdmaConnect claims that connect calls return
(`serial`) and ConnManager that calls are safe (one connecting side per pair).
UcxHandshake ends where UcxWait begins: with endpoints in the table.

## 3. Runs

| Run | Question | Result |
|---|---|---|
| UhmTransfer | flow control, contents, completion, refinement of UhmChannel | holds |
| UhmIntact | is every received chunk intact for all settings? | no: a refill overtakes an unsignaled data write |
| CqWait | do waits report the truth, keep completions, return? | holds for blocking calls, lists and single non-blocking transfers |
| CqWaitOverlap | does overlapping `put_nb` + `wait(id)` work? | no: `waitWrId` drops the rest of a batch |
| RdmaPipeline | delivery and slots, one queue pair, calls after failed ones | holds |
| CtrlSocket | descriptors, pairing, framing when calls for a peer do not overlap | holds |
| CtrlThreads | framing when they do | no: header and payload are two unlocked writes |
| ConnManager | use, reachability, destruction when one side of a pair connects | holds |
| RdmaConnect | metadata, events, table, return of loop and calls | holds |
| UcxHandshake | memory and tables of UCX connections; do connect calls, handshakes and `stopServer` return? | holds |
| UcxWait | do UCX waits report the truth, own their requests, find their endpoint alive? | holds for the usages of the run |
| Collective | blocks put over RDMA (direct), connection order, return | holds |

The three runs that find a violation are described under `findings` with the
sentence of the repository they contradict.

What the properties leave out, on purpose:

- `MetCompletes` begins when the receiver has stored CAN_WRITE for the second
  time (738-739) and the sender has posted no flag. Before that a flag can be
  erased and both calls hang; a sender that starts before `uhm_recv` hangs too.
- `Paired` is checked with one dialing rank per pair. With
  `Dials = {<<1, 2>>, <<2, 1>>}` TLC finds each rank with a dead socket. The ring
  with two ranks dials that way. It is also checked with `Serial`: with
  `Serial = FALSE` two threads of one rank that dial the same peer break it in
  eight states, since the calls take no lock while they dial
  (`socket_ctrl.cpp:208-270`) and the peer accepts in the order of dialing, not of
  registering. `include/hmc.h:130` calls connect thread-safe.
- `DirectExchanges` speaks of the direct algorithm and of the blocks a rank gets
  from itself and over RDMA. Asked of all blocks, TLC finds a call that returns
  while a chunk put over UCX, the default between CPU, NVIDIA and AMD memory, is
  still on its way: the last barrier (`hmc/collective.py:361`) follows the return
  of the put, not the arrival. For the ring TLC finds calls
  that return with blocks of another sender (`hmc/collective.py:441`), against
  what `apps/python_app/collective.py:74` asserts of it.
- `SuccessMeansDone` is checked for transfers to one peer at a time. With `{nb,
  wait, mix}` or `{nb, list, mix}` TLC finds SUCCESS for a transfer still under
  way: wr_ids of two endpoints coincide and the second overwrites the first in
  `inflight_ep_` (`communicator.cpp:79`). With `{nb, list, fail}` it finds
  SUCCESS for a failed one: `waitWrIdMulti` frees what has ended without looking
  at its status.
- `WaitsOnLive` is checked for applications that wait before they disconnect.
  With `{nb, wait, rude}` TLC finds a wait on a destroyed endpoint
  (`communicator.cpp:128`).
  `RequestsOwned` holds, and is proved, for all of these usages.
- `SlotsSuffice` is claimed while the send queue `Fits`: it has room for an
  unsignaled tail, the window of the call, and a window for each call that has
  failed since a wait last succeeded. The defaults (interval 16, window 64, 128
  slots) fit as long as no call fails, since 15 + 64 <= 128; after one that timed
  out 15 + 2 * 64 is above 128, and the next call can find the queue full and fail
  too. `HMC_RDMA_MAX_WR=16` with its default window of 32 never fits. The run has
  settings of both kinds, in which `PostFull` happens.
- `CompletionsKept` speaks of behaviours without a broken queue pair: successful
  completions behind an error in a batch are dropped (`rdma_endpoint.cpp:1190`).
  No property says that the ids a list wait has removed before it returns
  NOT_FOUND can be waited for again (`communicator.cpp:141`); they cannot.
- `AllDelivered` is checked with one queue pair. With `NumQPs = 2` TLC finds a
  call that succeeds before unsignaled chunks of the other queue pair are done.
- `ServerReturns` exempts a client that has given up: a client that dies between
  ESTABLISHED and its hello leaves the server in `accept` for ever.
  `ConnectReturns` speaks of clients that do not overlap.
- `UseIsSafe` is checked with one connecting side per pair. With
  `Role = [k \in Key |-> {"client", "server"}]` TLC finds `_addEndpoint`
  destroying an endpoint that a call is using.
- `PeerMetadata` and `TableAgrees` exempt workers on which a handshake has
  failed. Without the exemption TLC finds a message of the failed handshake taken
  by the next one, on either side. `ConnectsReturn` speaks of behaviours without
  a failure: after one the accept thread can wait for ever. It exempts connect
  calls whose request is in the queue of a server that stops: nobody answers
  them. `initiateServer` also returns SUCCESS for a server that does not listen.
- `CallsReturn` exempts a rank that raises. A put can raise after the last
  connection round, because the barrier does not wait for the listen threads.

### Bounds

- UhmTransfer: four chunks use each half twice, so that every word goes through
  a whole cycle and a late grant can meet the next use; two queue pairs give
  overtaking; signal settings 1/1 and 2/2 give the serialized and a batched
  sender; room for one chunk gives the rejected size.
- CqWait: two threads and three requests on two queue pairs, one of which may
  break: a batch can hold a completion of the poller, one of the other thread
  and an error.
- RdmaPipeline: sizes 1, 4, 7 with five slots; windows that fit after failed
  calls, that fill the slots exactly after one or when none has failed, and one
  above the send queue; intervals below, at and above the window; twelve posts
  allow several calls in a row. With the bound of `Fits` one slot smaller TLC
  finds a full queue, with and without a failed call.
- CtrlSocket: rank 2 is dialed by 1 and by 3, two connections, so that one
  descriptor can be given to another peer; two messages by two writers.
- ConnManager: three endpoints on two keys: a connection, its successor under
  the same key, and another peer's.
- RdmaConnect: two clients, three calls, the second with a retry: a client can
  return after a lost DISCONNECTED and meet another client's attempt.
- UcxHandshake: two clients and two servers, so that a message of either can
  be mistaken for the other's; three calls allow a reconnect beside another
  client, or a server stopped and started again in between; one failure or stop
  (`MaxFaults`) is enough to leave a message behind. With `MaxFaults = 2` the
  invariants were explored too (1.8 million states, no error). `Peers` says who
  calls whom. The
  clients share an address and differ in their ports, the case in which the key
  depends on the header.
- UcxWait: two endpoints, two threads, three transfers: ids of the endpoints
  coincide, one thread waits while another posts, waits or disconnects, and a
  list has two ids one of which another thread has taken. Four transfers were
  explored as well (1.83 million states under symmetry, no error).
- Collective: three ranks are the least with a rank that is neither neighbour of
  a round; two calls give overlap of calls; two chunks per block (direct). The
  puts of rank 1 to rank 0 go over UCX, so that a late chunk meets calls that end
  and begin; a late chunk touches its own block only, and with late chunks in both
  directions the run takes too long. The ring's puts, to the right, arrive at
  once in this run; the theorems hold for every `Ucx`.

`MaxOps`, `MaxPosts`, `MaxConns`, `MaxMsgs`, `MaxEps`, `MaxCalls`, `MaxFaults` only bound
behaviours. Runs say `CHECK_DEADLOCK FALSE` since behaviours end when the bounds
are used up.

### Fairness

Weak fairness only: threads inside a call of the library are scheduled, the NIC
executes what is posted (UhmTransfer, CqWait), mutexes are eventually given to a
waiter (CqWait, ConnManager; the critical sections are short), the listen thread
runs, and the connection manager ends a client's wait by its timeout
(RdmaConnect). The accept threads of UCX servers run, and so does a call of
`stopServer`; no failure is fair. In Collective every rank makes the same calls,
as a collective requires. UcxWait states no fairness: its properties are
invariants. Nothing is assumed about when an application starts a call, fails,
disconnects or dies.

## 4. Proofs

Each proof module holds the theorems of one component and the inductive
invariant they need. The constants are arbitrary within the assumptions the
component's module states (bounds are natural numbers, `None` is not one of the
values it stands beside). Where the code keeps a promise only to callers that
follow a rule, the rule is a named hypothesis of the theorem; section 3 says
what happens without it.

`UhmTransferProofs`, for all numbers of chunks and queue pairs and all settings:

- `TypeCorrect`, `FlowControlHolds` (`FlowControl`) and
  `TransferImplementsChannel` (every step is a step of UhmChannel or a stutter).
  `FlowControl` alone is not inductive: the word a side reads was written by a
  request posted long ago. `IInv` adds where each kind of request may be: the
  bootstrap only before the first chunk, at most the last two flags
  (`FlagsCurrent`) and grants (`GrantsCurrent`) outstanding, a grant only for a
  flag that has arrived (`GrantedSent`, `GrantingSent`), and what the words
  therefore mean (`SenderWord`, `ReceiverWord`). There is one lemma per action.
- `NeverAnOlderChunk` (`RightOrOvertaken`) and `SerializedIsIntact`
  (`IntactWhenSerialized`) are about contents. `DInv` follows a chunk from the
  sender's half (`Prefilled`) through the queue pair, where its data precedes its
  flag (`DataBeforeFlag`), to the receiver's half, where it stays until granted
  back (`Delivered`). With signal settings 1/1 at most one data write is
  outstanding (`OneByOne`), so that the refill cannot overtake it.

`RdmaEndpointProofs` extends CqWait and RdmaPipeline, the two views of an RDMA
endpoint's data path. For all numbers of threads, queue pairs and requests:

- `CqTypeCorrect`, `SuccessIsGenuine`, `NoWakeupIsMissed`, for all usages. The
  invariant says that successful completions, stored ids and the ids a wait has
  already struck off were executed (`Genuine`), and that only the holder of
  `cq_poll_mu_` polls (`PollerPolls`), without which a completion could be stored
  behind a polling thread's back.
- `NoCompletionIsLost` (`CompletionsKept`) under `Tidy`: the application waits for
  lists, or has one transfer outstanding at a time. `waitWrId` drops the rest of
  a batch, so the proof has to show that there is no rest (`Alone`), or that
  every poller keeps it (`Kinds`).

- `PipelineTypeCorrect` for any number of queue pairs; for one queue pair and all
  sizes, settings and slots `DeliveredOnSuccess` (`AllDelivered`) and `NeverFull`
  (`SlotsSuffice`), over any sequence of calls, the failed ones included.
  `Occupied` relates the occupied slots to the unsignaled tail, the windows of the
  calls that failed and the window: at most `Interval - 1 + max_inflight * fails +
  inflight_posts`. Hence the hypothesis `Fits`, `Interval - 1 + max_inflight *
  (fails + 1) <= max_wr`.

`UcxWaitProofs`, for all sets of endpoints and threads and numbers of transfers:

- `UcxTypeCorrect` and `RequestsHaveOneOwner` (`RequestsOwned`), for all usages.
  The invariant needs more than the places of the requests (`Sole`): a wait erases
  one id from one table, so that two requests of an endpoint must have two ids,
  and a request must be filed only at the endpoint that issued it (`Ids`); and a
  thread must come to a wait with empty hands, and hold one request in `Drive`
  (`Places`). `TakingOut` and `LettingGo` are the two ways a request changes hands.
- `SuccessIsDone` (`SuccessMeansDone`) and `WaitsFindLiveEndpoints`
  (`WaitsOnLive`) under `Orderly`: transfers to one peer at a time, waits before
  `disConnect`, lists only where no request fails. `OInv` says that then the
  entry of a wr_id in `inflight_ep_` is that of the transfer the waiting thread
  means (`Recorded`), that nobody else can find it (`Apart`), and that no endpoint
  is closed that somebody posts to or waits for (`Closing`).

`CtrlSocketProofs`, for all sets of ranks, choices of who dials whom, and numbers
of connections and messages:

- `CtrlTypeCorrect` and `SocketsHaveOneOwner` (`EndsOwned`), for all applications.
  `Held` adds to the types that the kernel and `id_to_conn_` agree about every end:
  what is registered is open, and what is pending is open and not registered
  (`Ends`); that a descriptor names one open end of a rank (`Descriptors`); and
  that a connection is queued once, after the ones dialed before it (`Dialed`).
  Every step either decides about one pending end (`Settles`) or closes some
  (`Closes`), and each has one lemma per conjunct. That the kernel has a free
  descriptor for a new socket is a counting argument: fewer ends are open than
  there are numbers.
- `RanksKeepOneConnection` (`Paired`) under `OneDialer` and `Serial`: one rank of a
  pair calls connect, and no two calls for one peer overlap. Without `OneDialer`
  each of two ranks may register the socket it dialed and close the one it
  accepted; without `Serial` two connect calls of the dialer may register in the
  other order than they dialed. With both the ranks keep the first socket dialed,
  the dialer since its calls are sequential and the acceptor since the backlog is
  a queue (`First`).
- `FramesArriveWhole` (`FramesIntact`) under `Serial`: the application does not
  overlap two calls for one peer. A sender looks its descriptor up once and
  writes to it twice, so the proof has to show that it still names the same
  connection at the second write (`Writers`), and that the bytes between two
  ranks are headers followed by their payloads, of which the last may be missing
  while its sender is between the two (`Channels`).

`ConnManagerProofs`, for all sets of keys and threads and numbers of endpoints:

- `ConnTypeCorrect`, for all roles.
- `CallsAreSafe` (`UseIsSafe`) and `NewestStaysReachable` (`LatestReachable`) under
  `OneAdder`: one thread of one side establishes the connections of a key. Without
  it `_addEndpoint` replaces the endpoint inside an entry. With it an entry holds
  the endpoint it was created for (`Own`), an endpoint on the way to its
  destruction is in no entry (`Dying`), and whoever uses one holds its entry
  (`Using`). For reachability the endpoint about to be added is the newest of its
  key (`AddsNewest`).

`CollectiveProofs`, for all numbers of ranks, chunks and calls:
`CollectiveTypeCorrect`, `RoundsConnectSafely` (`ConnectsSafely`) and
`DirectAlltoallExchanges` (`DirectExchanges`). The barriers are the clock: a direct
call enters `W` of them, so the barriers a rank has entered tell its call and
round (`Clock`), and a rank outside a barrier is never ahead of another
(`Barriers`). From that follow who may be dialing whom (`Dialing`), and that a
block of the next call cannot arrive before the region has been read (`Sent`,
`Blocks`). `Ucx` is arbitrary: in the direct algorithm only pairs that use it have
chunks in flight (`Flying`), so what lands late is never a block the theorem
speaks of.

`UcxHandshakeProofs`, for all numbers of clients, servers, calls and faults:

- `HandshakeTypeCorrect`, and `EndpointsAddressTheirPeer` (`PeerMetadata`). The tags
  name no peer, so the proof shows that there is never a choice: each of the four
  messages of a call is sent once, and on a worker without failures the side that
  receives it cannot leave the call without it. `ClientFine(k)` and
  `ServerFine(k)` say, for each message of call k, where the two sides are while
  it is in the inbox. Requests are served in the order of the calls (`Ordered`).
- `ServerHasTheConnection` (`TableAgrees`) under `DistinctKeys`: no two clients
  have the same address and listen port, which two processes on a host cannot
  have. It adds that a client's connection is its latest call (`Latest`) and that
  the server's table has the latest call it has served (`Served`).

`RdmaConnectProofs`, for all sets of clients and numbers of calls and tries:

- `ConnectTypeCorrect`, `EstablishedEventsAreOurs` (`EstablishedIsOurs`) and
  `EndpointsExchangeMetadata` (`MetadataMatches`). `handleConnection` takes the next
  event of the channel for its own. The proof shows that it is: a client waits in
  an accepted attempt only while the server waits for that attempt (`Waiting`),
  and its ESTABLISHED is in the channel once (`Once`). A client past that wait
  makes no other attempt in the call (`Past`), so that what arrives on the
  socket of a call is about its current attempt (`Exchanged`). `WithoutFacts` says
  what destroying an id leaves of the channel.
- `ServerKnowsItsClients` (`ServerKnows`) under `DistinctKeys`: no two clients have
  the same address and listen port. While the server serves an established
  attempt the client has no other accepted one (`Alone`); a connection has ended
  at the client before its DISCONNECTED reaches the server (`Ended`); an answered
  attempt the client still has is in the table or about to be added (`Known`).

Only model-checked:

- liveness (`MetCompletes`, `WaitsReturn`, `RemovedIsDestroyed`, `ServerReturns`,
  `ConnectReturns`, `ConnectsReturn`, `CallsReturn`), which the prover cannot do
  under fairness;
- what TLC finds when the hypotheses above are dropped (section 3).

## 5. Not modelled

The P2P backend (copies between device contexts of one process, no protocol);
`stopServer` of the RDMA backend, which raises SIGINT and leaves the rest to a
handler that exits the process; typed control messages, silent peers and a
failing `bind`; the field `chunk_bytes` of the UHM bootstrap, which is stored apart
from `length` (a bootstrap that lands between the receiver's two stores would
leave it 0 and the receiver with half the buffer as its chunk, which differs from
the sender's only when `HMC_UHM_CHUNK` makes that smaller); two UHM transfers in a row and the slots of the UHM applications;
two RDMA endpoints behind one `inflight_ep_` (UcxWait has the same table for
UCX); the completion queue's 256 entries; the bounds arithmetic of `ConnBuffer`;
memory backends, device discovery, bindings and applications (vendor calls and
I/O without a protocol).

## 6. Plan

Done, in order of importance: UhmTransfer with UhmChannel, CqWait, RdmaPipeline,
CtrlSocket, ConnManager, RdmaConnect, UcxHandshake with its servers' lifecycle,
UcxWait, Collective; proofs of every invariant the passing runs check and of the
refinement of UhmChannel.

Next models:

1. UhmTransfer with a second transfer on the same endpoints.
2. CtrlSocket with peers that connect and send nothing, and redialing after the
   peer has closed.
3. The bound of the completion queue in CqWait.
4. The slots of the UHM applications, and the bounds of `ConnBuffer` with
   wrap-around.

Next theorems: an abstract endpoint table that ConnManager implements, and an
abstract channel per pair of ranks that CtrlSocket implements under `OneDialer` and
`Serial`.
