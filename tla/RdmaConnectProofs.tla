------------------------- MODULE RdmaConnectProofs -------------------------
(***************************************************************************)
(* RDMA connection set-up for every number of clients, calls and retries,   *)
(* although the server reads one channel of events for all of them and      *)
(* never looks at whose event it reads: the endpoints of a connection hold   *)
(* each other's metadata, and the server has the connections its clients     *)
(* have.                                                                   *)
(*                                                                         *)
(* The argument is that an ESTABLISHED can only be that of the attempt       *)
(* being accepted.  A client waits for it in an accepted attempt only while  *)
(* the server waits for it too; the server leaves by reading it or by        *)
(* destroying the attempt, which takes the event out of the channel.         *)
(***************************************************************************)
EXTENDS RdmaConnect, TLAPS, FiniteSetTheorems

\* Who made which call; a client is in its latest one.
Calls ==
    /\ \A c \in Client :
          /\ client[c].call \in 0 .. Len(caller)
          /\ client[c].pc # "idle" => client[c].call # 0
          /\ client[c].call # 0 => /\ caller[client[c].call] = c
                                   /\ client[c].try \in 1 .. Tries[client[c].call]
    /\ \A k \in 1 .. Len(caller) : k <= client[caller[k]].call

\* The listen loop serves an attempt, or none.
Serves == srv.pc = "loop" <=> srv.at = None

TInv == TypeOK /\ Calls /\ Serves

\* Attempt a has been made: its client is in it or has gone past it.
Made(a) ==
    /\ a[1] \in 1 .. Len(caller)
    /\ a[1] = client[Owner(a)].call =>
          a[2] <= client[Owner(a)].try /\ (client[Owner(a)].pc = "request" => a[2] # client[Owner(a)].try)

\* The client has gone past the wait for ESTABLISHED in a, and makes no other
\* attempt in that call.
Past(a) ==
    a[1] = client[Owner(a)].call =>
        client[Owner(a)].try = a[2] /\ client[Owner(a)].pc \in {"dial", "reply", "ok", "idle"}

\* Events, endpoints and answers are about attempts that were made.
Attempts ==
    /\ \A a \in accepted : Made(a)
    /\ \A i \in 1 .. Len(channel) : Made(channel[i][2])
    /\ srv.pc # "loop" => srv.at \in srvIds
    /\ \A k \in Call : answer[k] # None => answer[k] \in accepted

\* The client has an id for the attempt it is in, and no other.
Ids ==
    /\ \A a \in cliIds :
          /\ a[1] \in 1 .. Len(caller)
          /\ a = Try(Owner(a))
          /\ client[Owner(a)].pc \in {"wait", "dial", "reply", "ok"}
    /\ \A c \in Client : client[c].pc \in {"wait", "dial", "reply", "ok"} => Try(c) \in cliIds

\* A client that waits in an attempt the server has is the one being served.
Waiting ==
    \A c \in Client :
        client[c].pc = "wait" /\ Try(c) \in srvIds => srv.pc = "accept" /\ srv.at = Try(c)

\* ESTABLISHED is in the channel once, while its attempt is being accepted.
EstablishedAt(i) == channel[i][1] = "established"
Once ==
    /\ \A i \in 1 .. Len(channel) : EstablishedAt(i) =>
          srv.pc = "accept" /\ srv.at = channel[i][2] /\ Past(srv.at)
    /\ \A i, j \in 1 .. Len(channel) : EstablishedAt(i) /\ EstablishedAt(j) => i = j

\* What the sockets have carried.
Exchanged ==
    /\ srv.pc \in {"meta", "add"} => Past(srv.at)
    /\ srv.pc = "add" => remote[srv.at] # None
    /\ \A a \in Attempt : remote[a] \in {None, a[1]}
    /\ \A key \in Key : table[key] # None => remote[table[key]] # None
    /\ \A k \in Call :
          /\ sock[k] = "answered" => answer[k] # None
          /\ answer[k] # None => answer[k][1] = k /\ remote[answer[k]] # None /\ Past(answer[k])
    /\ \A c \in Client : client[c].pc = "ok" => answer[client[c].call] # None

EInv == Attempts /\ Ids /\ Waiting /\ Once /\ Exchanged

\* While the server serves an established attempt, or is about to, the client
\* has no other attempt that was accepted.
Confirmed == srv.pc \in {"meta", "add"} \/ \E i \in 1 .. Len(channel) : EstablishedAt(i)
Alone ==
    Confirmed =>
        \A a \in cliIds \cap accepted : Owner(a) = Owner(srv.at) => a = srv.at

\* A connection has ended at the client before the server learns it.
Ended == \A i \in 1 .. Len(channel) : channel[i][1] = "disconnected" => channel[i][2] \notin cliIds

\* An answered attempt that the client has is in the table, or about to be.
Known ==
    \A a \in cliIds : answer[a[1]] = a =>
        (srv.pc = "add" /\ srv.at = a) \/ table[KeyOf[Owner(a)]] = a

SInv == Alone /\ Ended /\ Known

\* No two clients have the same ip and listen port.
DistinctKeys == \A c, d \in Client : KeyOf[c] = KeyOf[d] => c = d

----------------------------------------------------------------------------
(***************************************************************************)
(* What is left of a channel                                               *)
(***************************************************************************)
Event == {"request", "established", "failed", "disconnected"} \X Attempt

\* The places of the members of a finite set of numbers are 1 up to its size.
LEMMA Places ==
    ASSUME NEW K \in SUBSET Nat, IsFiniteSet(K)
    PROVE  /\ Cardinality(K) \in Nat
           /\ \A j \in 1 .. Cardinality(K) : \E i \in K : Cardinality({h \in K : h <= i}) = j
<1> DEFINE R(i) == {h \in K : h <= i}
           n == Cardinality(K)
           f == [i \in K |-> Cardinality(R(i))]
<1>1. n \in Nat
  BY FS_CardinalityType
<1>2. ASSUME NEW i \in K
      PROVE  IsFiniteSet(R(i)) /\ Cardinality(R(i)) \in 1 .. n
  <2>1. R(i) \subseteq K OBVIOUS
  <2>2. IsFiniteSet(R(i)) /\ Cardinality(R(i)) <= n
    BY <2>1, FS_Subset
  <2>3. Cardinality(R(i)) \in Nat
    BY <2>2, FS_CardinalityType
  <2>4. i \in R(i) BY <1>1
  <2>5. Cardinality(R(i)) # 0
    BY <2>2, <2>4, FS_EmptySet
  <2> QED BY <1>1, <2>2, <2>3, <2>5
<1>3. ASSUME NEW i \in K, NEW j \in K, i < j
      PROVE  Cardinality(R(i)) < Cardinality(R(j))
  <2>0. i \in Nat /\ j \in Nat /\ \A h \in K : h \in Nat OBVIOUS
  <2>1. j \in R(j) /\ \A h \in R(i) : h \in R(j) /\ h # j BY <1>3, <2>0
  <2>2. IsFiniteSet(R(j)) /\ Cardinality(R(j)) \in Nat BY <1>2
  <2>3. /\ IsFiniteSet(R(j) \ {j})
        /\ Cardinality(R(j) \ {j}) = Cardinality(R(j)) - 1
    BY <2>1, <2>2, FS_RemoveElement
  <2>4. Cardinality(R(i)) <= Cardinality(R(j) \ {j})
    <3>1. R(i) \in SUBSET (R(j) \ {j}) BY <2>1
    <3> HIDE DEF R
    <3> QED BY <2>3, <3>1, FS_Subset
  <2>5. Cardinality(R(i)) \in Nat BY <1>2
  <2> QED BY <2>2, <2>3, <2>4, <2>5
<1>4. f \in Injection(K, 1 .. n)
  <2>1. f \in [K -> 1 .. n] BY <1>2
  <2>2. ASSUME NEW i \in K, NEW j \in K, f[i] = f[j] PROVE i = j
    <3>1. i \in Nat /\ j \in Nat OBVIOUS
    <3>2. Cardinality(R(i)) = Cardinality(R(j)) BY <2>2
    <3>3. Cardinality(R(i)) \in Nat /\ Cardinality(R(j)) \in Nat BY <1>2
    <3>4. ~(i < j) BY <1>3, <3>2, <3>3
    <3>5. ~(j < i) BY <1>3, <3>2, <3>3
    <3> QED BY <3>1, <3>4, <3>5
  <2> HIDE DEF f
  <2> QED BY <2>1, <2>2 DEF Injection, IsInjective
<1>5. IsFiniteSet(1 .. n) /\ Cardinality(1 .. n) = n
  BY <1>1, FS_Interval
<1>6. f \in Surjection(K, 1 .. n)
  <2> HIDE DEF f, R
  <2> QED BY <1>4, <1>5, FS_Injection
<1>7. ASSUME NEW j \in 1 .. n PROVE \E i \in K : Cardinality(R(i)) = j
  <2>1. \E i \in K : f[i] = j
    <3> HIDE DEF f, R
    <3> QED BY <1>6 DEF Surjection
  <2> QED BY <2>1
<1> QED BY <1>1, <1>7

\* The events of r are events of q, each at a place of its own.
Within(r, q) ==
    \E f \in [1 .. Len(r) -> 1 .. Len(q)] :
        /\ \A i \in 1 .. Len(r) : r[i] = q[f[i]]
        /\ \A i, j \in 1 .. Len(r) : f[i] = f[j] => i = j

\* What Without leaves is of other attempts.
LEMMA WithoutFacts ==
    ASSUME NEW q \in Seq(Event), NEW a
    PROVE  /\ Without(q, a) \in Seq(Event)
           /\ Within(Without(q, a), q)
           /\ \A i \in 1 .. Len(Without(q, a)) : Without(q, a)[i][2] # a
<1> DEFINE K == Kept(q, a)
           n == Cardinality(K)
           C(j) == CHOOSE i \in K : Place(q, a, i) = j
           f == [j \in 1 .. n |-> C(j)]
           r == Without(q, a)
<1>1. K \subseteq 1 .. Len(q) /\ Len(q) \in Nat BY DEF Kept
<1>2. IsFiniteSet(K)
  <2>1. IsFiniteSet(1 .. Len(q)) BY <1>1, FS_Interval
  <2> QED BY <1>1, <2>1, FS_Subset
<1>3. n \in Nat /\ \A j \in 1 .. n : \E i \in K : Place(q, a, i) = j
  <2>1. K \in SUBSET Nat BY <1>1
  <2> HIDE DEF K
  <2>2. n \in Nat /\ \A j \in 1 .. n : \E i \in K : Cardinality({h \in K : h <= i}) = j
    BY <1>2, <2>1, Places
  <2> USE DEF K
  <2> QED BY <2>2 DEF Place
<1>4. \A j \in 1 .. n : C(j) \in K /\ Place(q, a, C(j)) = j
  BY <1>3
<1>5. f \in [1 .. n -> K]
  BY <1>4
<1>6. r = [j \in 1 .. n |-> q[f[j]]]
  BY DEF Without
<1>7. \A i, j \in 1 .. n : f[i] = f[j] => i = j
  BY <1>4
<1>8. \A i \in K : i \in 1 .. Len(q) /\ q[i][2] # a /\ q[i] \in Event
  BY <1>1 DEF Kept
<1> HIDE DEF K, n, C, f, r
<1>9. r \in Seq(Event) /\ Len(r) = n
  BY <1>3, <1>5, <1>6, <1>8
<1>10. \A i \in 1 .. n : f[i] \in K /\ r[i] = q[f[i]]
  BY <1>5, <1>6
<1>11. f \in [1 .. Len(r) -> 1 .. Len(q)]
  BY <1>5, <1>8, <1>9
<1>12. Within(r, q)
  BY <1>7, <1>9, <1>10, <1>11 DEF Within
<1>13. \A i \in 1 .. Len(r) : r[i][2] # a
  BY <1>8, <1>9, <1>10
<1> QED BY <1>9, <1>12, <1>13 DEF r

----------------------------------------------------------------------------
(***************************************************************************)
(* What the steps do to the state                                          *)
(***************************************************************************)
USE KeyOfAssumption, MaxCallsAssumption, TriesAssumption, SerialsAssumption, NoneAssumption

Labels == {"idle", "request", "wait", "dial", "reply", "ok"}
Side == [pc : Labels, call : 0 .. MaxCalls, try : Nat]

LEMMA AttemptFacts ==
    /\ \A k \in Call : \A n \in 1 .. Tries[k] : <<k, n>> \in Attempt
    /\ \A a \in Attempt : /\ a = <<a[1], a[2]>> /\ a # None
                          /\ a[1] \in Call /\ a[2] \in 1 .. Tries[a[1]] /\ a[2] \in Nat
<1>1. \A k \in Call : Tries[k] \in Nat BY DEF Call
<1> QED BY <1>1 DEF Attempt

\* The attempt a client is in.
LEMMA InCall ==
    ASSUME TypeOK, Calls, NEW c \in Client, client[c].pc # "idle"
    PROVE  /\ client[c].call \in Call /\ client[c].call \in 1 .. Len(caller)
           /\ Try(c) \in Attempt
           /\ Try(c)[1] = client[c].call /\ Try(c)[2] = client[c].try
           /\ Owner(Try(c)) = c
<1>1. client[c].call \in 1 .. Len(caller) /\ client[c].try \in 1 .. Tries[client[c].call]
      /\ caller[client[c].call] = c
  BY DEF TypeOK, Calls
<1>2. client[c].call \in Call
  BY <1>1 DEF TypeOK, Call
<1> QED BY <1>1, <1>2, AttemptFacts DEF Try, Owner

\* The client goes on to p, in try n.
Moves(c, p, n) ==
    /\ \A d \in Client \ {c} : client'[d] = client[d]
    /\ client'[c].pc = p /\ client'[c].call = client[c].call /\ client'[c].try = n

\* rdma_connect.
Asks(c) ==
    /\ client[c].pc = "request" /\ Moves(c, "wait", client[c].try)
    /\ cliIds' = cliIds \cup {Try(c)}
    /\ channel' = Append(channel, <<"request", Try(c)>>)
    /\ sock' = sock

\* The id of the attempt is destroyed, for the next try or for good.
Leaves(c) ==
    /\ \/ Moves(c, "idle", client[c].try)
       \/ /\ client[c].pc \in {"request", "wait"}
          /\ Moves(c, "request", client[c].try + 1)
    /\ cliIds' = cliIds \ {Try(c)}
    /\ \/ channel' = channel
       \/ /\ Try(c) \in cliIds
          /\ \E kind \in {"failed", "disconnected"} : channel' = Append(channel, <<kind, Try(c)>>)

\* ESTABLISHED.
Hears(c) ==
    /\ client[c].pc = "wait" /\ Moves(c, "dial", client[c].try)
    /\ cliIds' = cliIds
    /\ channel' = IF Try(c) \in srvIds THEN Append(channel, <<"established", Try(c)>>) ELSE channel
    /\ sock' = sock

\* A step of the call that touches neither id nor channel.
Goes(c) ==
    /\ cliIds' = cliIds /\ channel' = channel
    /\ \/ client[c].pc = "request" /\ Moves(c, "idle", client[c].try)
       \/ client[c].pc = "dial" /\ Moves(c, "reply", client[c].try)
       \/ /\ client[c].pc = "reply" /\ Moves(c, "ok", client[c].try)
          /\ sock[client[c].call] = "answered"

SrvVars == <<serial, caller, srvIds, accepted, srv, pending, answer, remote, bound, table>>

\* What a client does is one of the four.
ClientEffect(c) ==
    /\ UNCHANGED SrvVars
    /\ client[c].pc # "idle"
    /\ \A k \in Call : sock'[k] = "answered" => sock[k] = "answered"
    /\ client' \in [Client -> Side] /\ client'[c].try \in 1 .. Tries[client[c].call]
    /\ channel' \in Seq(Event) /\ backlog' \in Seq(Call)
    /\ sock' \in [Call -> {"unused", "nothing", "hello", "all", "answered", "closed"}]
    /\ Asks(c) \/ Leaves(c) \/ Hears(c) \/ Goes(c)

LEMMA AtFacts ==
    ASSUME client \in [Client -> Side], NEW c \in Client, NEW p \in Labels, At(c, p)
    PROVE  client' \in [Client -> Side] /\ Moves(c, p, client[c].try)
BY DEF At, Moves, Side

LEMMA RetryFacts ==
    ASSUME TypeOK, Calls, NEW c \in Client, client[c].pc \in {"request", "wait"}, Retry(c)
    PROVE  /\ client' \in [Client -> Side] /\ client'[c].try \in 1 .. Tries[client[c].call]
           /\ Moves(c, "idle", client[c].try) \/ Moves(c, "request", client[c].try + 1)
<1>1. client \in [Client -> Side] BY DEF TypeOK, Side, Labels
<1>2. client[c].call \in Call /\ client[c].try \in 1 .. Tries[client[c].call]
  BY InCall DEF Calls
<1>3. Tries[client[c].call] \in Nat BY <1>2 DEF Call
<1>4. CASE client[c].try < Tries[client[c].call]
  <2>1. client' = [client EXCEPT ![c].pc = "request", ![c].try = @ + 1]
    BY <1>4 DEF Retry
  <2>2. PICK y \in Side : y = client[c] BY <1>1
  <2>3. client' = [client EXCEPT ![c] = [pc |-> "request", call |-> y.call, try |-> y.try + 1]]
    BY <2>1, <2>2, <1>1 DEF Side
  <2> QED BY <1>1, <1>2, <1>3, <1>4, <2>2, <2>3 DEF Moves, Side, Labels
<1>5. CASE ~(client[c].try < Tries[client[c].call])
  <2>1. At(c, "idle") BY <1>5 DEF Retry, At
  <2> QED BY <1>1, <1>2, <2>1, AtFacts DEF Labels, Moves
<1> QED BY <1>4, <1>5

LEMMA ReleaseFacts ==
    ASSUME TypeOK, Calls, NEW c \in Client, client[c].pc # "idle", Release(c)
    PROVE  /\ cliIds' = cliIds \ {Try(c)}
           /\ \/ channel' = channel
              \/ /\ Try(c) \in cliIds
                 /\ \E kind \in {"failed", "disconnected"} : channel' = Append(channel, <<kind, Try(c)>>)
           /\ channel' \in Seq(Event)
<1>1. Try(c) \in Attempt BY InCall
<1>2. channel \in Seq(Event) BY DEF TypeOK, Event
<1>3. \A kind \in {"failed", "disconnected"} : Append(channel, <<kind, Try(c)>>) \in Seq(Event)
  BY <1>1, <1>2 DEF Event
<1> QED BY <1>2, <1>3 DEF Release

LEMMA ClientSteps ==
    ASSUME TypeOK, Calls, NEW c \in Client, ClientStep(c) \/ Disconnect(c) \/ Crash(c)
    PROVE  ClientEffect(c)
<1> USE InCall DEF SrvVars
<1>1. /\ client \in [Client -> Side] /\ channel \in Seq(Event) /\ backlog \in Seq(Call)
      /\ sock \in [Call -> {"unused", "nothing", "hello", "all", "answered", "closed"}]
  BY DEF TypeOK, Side, Labels, Event
<1>2. client[c].pc # "idle"
  BY DEF ClientStep, Request, Established, NotEstablished, Dial, DialFails, Reply, Disconnect, Crash
<1>3. /\ client[c].call \in Call /\ Try(c) \in Attempt
      /\ client[c].try \in 1 .. Tries[client[c].call]
  BY <1>2 DEF Calls
<1>4. \A kind \in {"request", "established"} : Append(channel, <<kind, Try(c)>>) \in Seq(Event)
  BY <1>1, <1>3 DEF Event
<1>5. ASSUME At(c, "idle"), Release(c), UNCHANGED SrvVars, UNCHANGED <<sock, backlog>>
      PROVE  ClientEffect(c)
  BY <1>1, <1>2, <1>3, <1>5, AtFacts, ReleaseFacts DEF ClientEffect, Leaves, Labels, Moves
<1>6. ASSUME Retry(c), client[c].pc \in {"request", "wait"}, UNCHANGED SrvVars,
             UNCHANGED <<sock, backlog>>
      PROVE  ClientEffect(c)
  <2>1. Release(c) BY <1>6 DEF Retry
  <2> QED BY <1>1, <1>2, <1>3, <1>6, <2>1, RetryFacts, ReleaseFacts DEF ClientEffect, Leaves
<1>7. CASE Request(c)
  <2>1. client[c].pc = "request" /\ UNCHANGED SrvVars /\ UNCHANGED <<sock, backlog>>
    BY <1>7 DEF Request
  <2>2. CASE /\ cliIds' = cliIds \cup {Try(c)}
             /\ channel' = Append(channel, <<"request", Try(c)>>)
             /\ At(c, "wait")
    BY <1>1, <1>2, <1>3, <1>4, <2>1, <2>2, AtFacts DEF ClientEffect, Asks, Labels, Moves
  <2>3. CASE Retry(c)
    BY <1>6, <2>1, <2>3
  <2>4. CASE At(c, "idle") /\ UNCHANGED <<cliIds, channel>>
    BY <1>1, <1>2, <1>3, <2>1, <2>4, AtFacts DEF ClientEffect, Goes, Labels, Moves
  <2> QED BY <1>7, <2>2, <2>3, <2>4 DEF Request
<1>8. CASE Established(c)
  <2>1. /\ client[c].pc = "wait" /\ UNCHANGED SrvVars /\ UNCHANGED <<sock, backlog, cliIds>>
        /\ channel' = IF Try(c) \in srvIds THEN Append(channel, <<"established", Try(c)>>)
                      ELSE channel
        /\ At(c, "dial")
    BY <1>8 DEF Established
  <2>2. channel' \in Seq(Event) BY <1>1, <1>4, <2>1
  <2> QED BY <1>1, <1>2, <1>3, <2>1, <2>2, AtFacts DEF ClientEffect, Hears, Labels, Moves
<1>9. CASE NotEstablished(c)
  BY <1>6, <1>9 DEF NotEstablished
<1>10. CASE Dial(c)
  <2>1. PICK written \in {"nothing", "hello", "all"} :
          /\ sock' = [sock EXCEPT ![client[c].call] = written]
          /\ backlog' = Append(backlog, client[c].call)
          /\ IF written = "all"
             THEN At(c, "reply") /\ UNCHANGED <<cliIds, channel>>
             ELSE At(c, "idle") /\ Release(c)
    BY <1>10 DEF Dial
  <2>2. client[c].pc = "dial" /\ UNCHANGED SrvVars BY <1>10 DEF Dial
  <2>3. /\ backlog' \in Seq(Call)
        /\ sock' \in [Call -> {"unused", "nothing", "hello", "all", "answered", "closed"}]
        /\ \A k \in Call : sock'[k] = "answered" => sock[k] = "answered"
    BY <1>1, <1>3, <2>1
  <2>4. CASE written = "all"
    BY <1>1, <1>2, <1>3, <2>1, <2>2, <2>3, <2>4, AtFacts DEF ClientEffect, Goes, Labels, Moves
  <2>5. CASE written # "all"
    BY <1>1, <1>2, <1>3, <2>1, <2>2, <2>3, <2>5, AtFacts, ReleaseFacts
       DEF ClientEffect, Leaves, Labels, Moves
  <2> QED BY <2>4, <2>5
<1>11. CASE DialFails(c)
  BY <1>5, <1>11 DEF DialFails
<1>12. CASE Reply(c)
  <2>1. client[c].pc = "reply" /\ UNCHANGED SrvVars /\ UNCHANGED <<sock, backlog>>
    BY <1>12 DEF Reply
  <2>2. CASE At(c, "idle") /\ Release(c)
    BY <1>5, <2>1, <2>2
  <2>3. CASE ~(At(c, "idle") /\ Release(c))
    <3>1. sock[client[c].call] = "answered" /\ At(c, "ok") /\ UNCHANGED <<cliIds, channel>>
      BY <1>12, <2>3 DEF Reply
    <3> QED BY <1>1, <1>2, <1>3, <2>1, <3>1, AtFacts DEF ClientEffect, Goes, Labels, Moves
  <2> QED BY <2>2, <2>3
<1>13. CASE Disconnect(c)
  BY <1>5, <1>13 DEF Disconnect
<1>14. CASE Crash(c)
  BY <1>5, <1>14 DEF Crash
<1> QED
  BY <1>7, <1>8, <1>9, <1>10, <1>11, <1>12, <1>13, <1>14 DEF ClientStep

LEMMA ClientTInv ==
    ASSUME TInv, NEW c \in Client, ClientEffect(c)
    PROVE  TInv'
<1>1. TypeOK /\ Calls /\ Serves BY DEF TInv
<1>2. Try(c) \in Attempt BY <1>1, InCall DEF ClientEffect
<1>3. cliIds' \subseteq Attempt
  BY <1>1, <1>2 DEF ClientEffect, Asks, Leaves, Hears, Goes, TypeOK
<1>4. TypeOK'
  BY <1>1, <1>3 DEF ClientEffect, SrvVars, TypeOK, Event, Side, Labels
<1>5. \A d \in Client \ {c} : client'[d] = client[d]
  BY DEF ClientEffect, Asks, Leaves, Hears, Goes, Moves
<1>6. client'[c].call = client[c].call
  BY DEF ClientEffect, Asks, Leaves, Hears, Goes, Moves
<1>7. client[c].call # 0 BY <1>1 DEF Calls, ClientEffect
<1>8. Calls'
  <2>0. caller' = caller /\ client'[c].try \in 1 .. Tries[client[c].call]
    BY DEF ClientEffect, SrvVars
  <2>1. ASSUME NEW d \in Client
        PROVE  /\ client'[d].call \in 0 .. Len(caller)
               /\ client'[d].pc # "idle" => client'[d].call # 0
               /\ client'[d].call # 0 => /\ caller[client'[d].call] = d
                                         /\ client'[d].try \in 1 .. Tries[client'[d].call]
    <3>1. CASE d = c
      <4>1. client[c].call \in 0 .. Len(caller) /\ caller[client[c].call] = c
        BY <1>1, <1>7 DEF Calls
      <4> QED BY <1>6, <1>7, <2>0, <3>1, <4>1
    <3>2. CASE d # c
      <4>1. client'[d] = client[d] BY <1>5, <3>2
      <4> QED BY <1>1, <4>1 DEF Calls
    <3> QED BY <3>1, <3>2
  <2>2. \A k \in 1 .. Len(caller) : caller[k] \in Client
    BY <1>1 DEF TypeOK
  <2>3. \A k \in 1 .. Len(caller) : k <= client'[caller[k]].call
    BY <1>1, <2>2, <1>5, <1>6 DEF Calls
  <2> QED BY <2>0, <2>1, <2>3 DEF Calls
<1>9. Serves' BY <1>1 DEF Serves, ClientEffect, SrvVars
<1> QED BY <1>4, <1>8, <1>9 DEF TInv

\* A client starts a call.
Starts(c) ==
    /\ client[c].pc = "idle"
    /\ caller' = Append(caller, c) /\ Len(caller) < MaxCalls
    /\ client' = [client EXCEPT ![c] = [pc |-> "request", call |-> Len(caller) + 1, try |-> 1]]
    /\ UNCHANGED <<cliIds, srvIds, accepted, channel, srv, answer, remote, bound, table, sock>>

LEMMA ConnectTInv ==
    ASSUME TInv, NEW c \in Client, Connect(c)
    PROVE  TInv' /\ Starts(c)
<1>1. TypeOK /\ Calls /\ Serves BY DEF TInv
<1>2. Starts(c) BY DEF Connect, Starts
<1>3. /\ Len(caller) \in Nat /\ caller' \in Seq(Client) /\ Len(caller') = Len(caller) + 1
      /\ \A k \in 1 .. Len(caller) : caller'[k] = caller[k] /\ caller[k] \in Client
      /\ caller'[Len(caller) + 1] = c
  BY <1>1, <1>2 DEF Starts, TypeOK
<1>4. client' \in [Client -> Side]
  BY <1>1, <1>2, <1>3 DEF Starts, TypeOK, Side, Labels
<1>5. TypeOK'
  BY <1>1, <1>2, <1>3, <1>4 DEF Starts, TypeOK, Connect, Side, Labels
<1>6. Calls'
  <2>1. Len(caller) + 1 \in Call /\ 1 \in 1 .. Tries[Len(caller) + 1]
    BY <1>2, <1>3 DEF Starts, Call
  <2>2. /\ \A d \in Client \ {c} : client'[d] = client[d]
        /\ client'[c] = [pc |-> "request", call |-> Len(caller) + 1, try |-> 1]
    BY <1>1, <1>2 DEF Starts, TypeOK
  <2>3. ASSUME NEW d \in Client
        PROVE  /\ client'[d].call \in 0 .. Len(caller')
               /\ client'[d].pc # "idle" => client'[d].call # 0
               /\ client'[d].call # 0 => /\ caller'[client'[d].call] = d
                                         /\ client'[d].try \in 1 .. Tries[client'[d].call]
    <3>1. CASE d = c BY <1>3, <2>1, <2>2, <3>1
    <3>2. CASE d # c
      <4>1. client'[d] = client[d] BY <2>2, <3>2
      <4> QED BY <1>1, <1>3, <4>1 DEF Calls
    <3> QED BY <3>1, <3>2
  <2>4. ASSUME NEW k \in 1 .. Len(caller') PROVE k <= client'[caller'[k]].call
    <3>1. CASE k = Len(caller) + 1 BY <1>3, <2>2, <3>1
    <3>2. CASE k # Len(caller) + 1
      <4>1. k \in 1 .. Len(caller) /\ caller'[k] = caller[k] BY <1>3, <3>2
      <4>2. k <= client[caller[k]].call BY <1>1, <4>1 DEF Calls
      <4>3. CASE caller[k] = c BY <1>3, <2>2, <4>1, <4>3
      <4>4. CASE caller[k] # c BY <1>3, <2>2, <4>1, <4>2, <4>4
      <4> QED BY <4>3, <4>4
    <3> QED BY <3>1, <3>2
  <2> QED BY <2>3, <2>4 DEF Calls
<1>7. Serves' BY <1>1, <1>2 DEF Serves, Starts
<1> QED BY <1>2, <1>5, <1>6, <1>7 DEF TInv

----------------------------------------------------------------------------
CliVars == <<caller, client, cliIds>>
SockFacts == \A k \in Call : sock'[k] = "answered" => sock[k] = "answered"

\* A request is accepted.
Accepts ==
    LET a == channel[1][2]
    IN  /\ srv.pc = "loop" /\ Len(channel) > 0
        /\ accepted' = accepted \cup {a} /\ srvIds' = srvIds \cup {a}
        /\ srv' = [pc |-> "accept", at |-> a]
        /\ \A i \in 1 .. Len(channel') :
              channel'[i] = <<"failed", a>> \/ \E j \in 1 .. Len(channel) : channel'[i] = channel[j]
        /\ UNCHANGED <<sock, answer, remote, table>>

\* An event is dropped, or a socket accepted.
Minor ==
    /\ UNCHANGED <<accepted, srvIds, srv, answer, remote, table>>
    /\ Within(channel', channel) /\ SockFacts

\* The attempt being served is destroyed.
GivesUp ==
    /\ srv.pc \in {"accept", "meta"} /\ srv' = [pc |-> "loop", at |-> None]
    /\ srvIds' = srvIds \ {srv.at}
    /\ Within(channel', channel)
    /\ \A i \in 1 .. Len(channel') : channel'[i][2] # srv.at
    /\ UNCHANGED <<accepted, answer, remote, table>> /\ SockFacts

\* ESTABLISHED is read.
Confirms ==
    /\ srv.pc = "accept" /\ srv' = [pc |-> "meta", at |-> srv.at]
    /\ Len(channel) > 0 /\ EstablishedAt(1)
    /\ Len(channel') = Len(channel) - 1
    /\ \A i \in 1 .. Len(channel') : channel'[i] = channel[i + 1]
    /\ UNCHANGED <<accepted, srvIds, sock, answer, remote, table>>

\* The metadata is exchanged.
Exchanges ==
    /\ srv.pc = "meta" /\ srv' = [pc |-> "add", at |-> srv.at]
    /\ remote' = [remote EXCEPT ![srv.at] = srv.at[1]]
    /\ answer' = [answer EXCEPT ![srv.at[1]] = srv.at]
    /\ \A k \in Call : sock'[k] = "answered" => sock[k] = "answered" \/ k = srv.at[1]
    /\ UNCHANGED <<accepted, srvIds, channel, table>>

\* The endpoint gets into the table.
Adds ==
    LET key == KeyOf[Owner(srv.at)]
    IN  /\ srv.pc = "add" /\ srv' = [pc |-> "loop", at |-> None]
        /\ table' = [table EXCEPT ![key] = srv.at]
        /\ srvIds' = srvIds \ {table[key]}
        /\ Within(channel', channel)
        /\ UNCHANGED <<accepted, sock, answer, remote>>

\* An endpoint is removed, its client being gone.
Removes ==
    LET a == channel[1][2]
    IN  /\ srv.pc = "loop"
        /\ Len(channel) > 0 /\ channel[1][1] = "disconnected"
        /\ table[KeyOf[Owner(a)]] = a
        /\ table' = [table EXCEPT ![KeyOf[Owner(a)]] = None]
        /\ srvIds' = srvIds \ {a}
        /\ Within(channel', channel)
        /\ UNCHANGED <<accepted, srv, sock, answer, remote>>

ServerEffect ==
    /\ UNCHANGED CliVars
    /\ Accepts \/ Minor \/ GivesUp \/ Confirms \/ Exchanges \/ Adds \/ Removes

LEMMA WithinSelf ==
    ASSUME NEW q \in Seq(Event)
    PROVE  Within(q, q)
<1> DEFINE f == [i \in 1 .. Len(q) |-> i]
<1>1. /\ f \in [1 .. Len(q) -> 1 .. Len(q)]
      /\ \A i \in 1 .. Len(q) : q[i] = q[f[i]]
      /\ \A i, j \in 1 .. Len(q) : f[i] = f[j] => i = j
  OBVIOUS
<1> HIDE DEF f
<1> QED BY <1>1 DEF Within

LEMMA TailFacts ==
    ASSUME NEW q \in Seq(Event), q # <<>>
    PROVE  /\ Tail(q) \in Seq(Event) /\ Len(q) \in Nat /\ Len(q) > 0
           /\ Len(Tail(q)) = Len(q) - 1
           /\ \A i \in 1 .. Len(Tail(q)) : Tail(q)[i] = q[i + 1]
           /\ Head(q) = q[1] /\ q[1] \in Event
           /\ Within(Tail(q), q)
<1>1. /\ Tail(q) \in Seq(Event) /\ Len(q) \in Nat /\ Len(q) > 0
      /\ Len(Tail(q)) = Len(q) - 1
      /\ \A i \in 1 .. Len(Tail(q)) : Tail(q)[i] = q[i + 1]
      /\ Head(q) = q[1] /\ q[1] \in Event
  OBVIOUS
<1> DEFINE f == [i \in 1 .. Len(Tail(q)) |-> i + 1]
<1>2. /\ f \in [1 .. Len(Tail(q)) -> 1 .. Len(q)]
      /\ \A i \in 1 .. Len(Tail(q)) : Tail(q)[i] = q[f[i]]
      /\ \A i, j \in 1 .. Len(Tail(q)) : f[i] = f[j] => i = j
  BY <1>1
<1> HIDE DEF f
<1>3. Within(Tail(q), q) BY <1>2 DEF Within
<1> QED BY <1>1, <1>3

LEMMA WithinTrans ==
    ASSUME NEW q \in Seq(Event), NEW r \in Seq(Event), NEW s \in Seq(Event),
           Within(s, r), Within(r, q)
    PROVE  Within(s, q)
<1>1. PICK f \in [1 .. Len(s) -> 1 .. Len(r)] :
          /\ \A i \in 1 .. Len(s) : s[i] = r[f[i]]
          /\ \A i, j \in 1 .. Len(s) : f[i] = f[j] => i = j
  BY DEF Within
<1>2. PICK g \in [1 .. Len(r) -> 1 .. Len(q)] :
          /\ \A i \in 1 .. Len(r) : r[i] = q[g[i]]
          /\ \A i, j \in 1 .. Len(r) : g[i] = g[j] => i = j
  BY DEF Within
<1> DEFINE h == [i \in 1 .. Len(s) |-> g[f[i]]]
<1>3. \A i \in 1 .. Len(s) : f[i] \in 1 .. Len(r) /\ g[f[i]] \in 1 .. Len(q)
  BY <1>1, <1>2
<1>4. h \in [1 .. Len(s) -> 1 .. Len(q)] /\ \A i \in 1 .. Len(s) : h[i] = g[f[i]]
  BY <1>3
<1> HIDE DEF h
<1>5. \A i \in 1 .. Len(s) : s[i] = q[h[i]]
  BY SMTT(30), <1>1, <1>2, <1>3, <1>4
<1>6. \A i, j \in 1 .. Len(s) : h[i] = h[j] => i = j
  BY <1>1, <1>2, <1>3, <1>4
<1> QED BY <1>4, <1>5, <1>6 DEF Within

LEMMA AcceptSteps ==
    ASSUME TInv, TakeRequest
    PROVE  TInv' /\ ServerEffect
<1>1. /\ TypeOK /\ Calls /\ Serves /\ channel \in Seq(Event) /\ channel # <<>> /\ srv.pc = "loop"
      /\ UNCHANGED <<serial, caller, client, cliIds, backlog, pending, sock, answer, remote, bound,
                     table>>
  BY DEF TInv, TypeOK, Event, TakeRequest
<1> DEFINE a == channel[1][2]
<1>2. a \in Attempt /\ Head(channel)[2] = a
  BY <1>1, TailFacts DEF Event
<1> HIDE DEF a
<1>3. Calls' BY <1>1 DEF Calls
<1>4. CASE UNCHANGED <<accepted, srvIds, srv>> /\ channel' = Tail(channel)
  <2>1. channel' \in Seq(Event) /\ Within(channel', channel) BY <1>1, <1>4, TailFacts
  <2>2. TypeOK' BY <1>1, <1>4, <2>1 DEF TypeOK, Event
  <2>3. Serves' BY <1>1, <1>4 DEF Serves
  <2>4. Minor BY <1>1, <1>4, <2>1 DEF Minor, SockFacts
  <2> QED BY <1>1, <1>3, <2>2, <2>3, <2>4 DEF TInv, ServerEffect, CliVars
<1>5. CASE /\ accepted' = accepted \cup {a}
           /\ srvIds' = srvIds \cup {a}
           /\ channel' = IF a \in cliIds THEN Tail(channel)
                         ELSE Append(Tail(channel), <<"failed", a>>)
           /\ srv' = [pc |-> "accept", at |-> a]
  <2>1. <<"failed", a>> \in Event BY <1>2 DEF Event
  <2>2. Tail(channel) \in Seq(Event)
        /\ \A i \in 1 .. Len(Tail(channel)) : \E j \in 1 .. Len(channel) : Tail(channel)[i] = channel[j]
    <3>1. Tail(channel) \in Seq(Event) /\ Len(channel) \in Nat /\ Len(Tail(channel)) = Len(channel) - 1
      BY <1>1, TailFacts
    <3>2. ASSUME NEW i \in 1 .. Len(Tail(channel)) PROVE \E j \in 1 .. Len(channel) : Tail(channel)[i] = channel[j]
      <4>1. i + 1 \in 1 .. Len(channel) BY <3>1
      <4>2. Tail(channel)[i] = channel[i + 1] BY <1>1, TailFacts
      <4> QED BY <4>1, <4>2
    <3> QED BY <3>1, <3>2
  <2>3. /\ channel' \in Seq(Event)
        /\ \A i \in 1 .. Len(channel') :
              channel'[i] = <<"failed", a>> \/ \E j \in 1 .. Len(channel) : channel'[i] = channel[j]
    <3>1. CASE a \in cliIds BY <1>5, <2>2, <3>1
    <3>2. CASE a \notin cliIds
      <4>1. channel' = Append(Tail(channel), <<"failed", a>>) BY <1>5, <3>2
      <4>2. /\ channel' \in Seq(Event) /\ Len(Tail(channel)) \in Nat
            /\ Len(channel') = Len(Tail(channel)) + 1
            /\ channel'[Len(Tail(channel)) + 1] = <<"failed", a>>
            /\ \A i \in 1 .. Len(Tail(channel)) : channel'[i] = Tail(channel)[i]
        BY <2>1, <2>2, <4>1
      <4>3. ASSUME NEW i \in 1 .. Len(channel')
            PROVE  channel'[i] = <<"failed", a>> \/ \E j \in 1 .. Len(channel) : channel'[i] = channel[j]
        <5>1. CASE i = Len(Tail(channel)) + 1 BY <4>2, <5>1
        <5>2. CASE i # Len(Tail(channel)) + 1
          <6>1. i \in 1 .. Len(Tail(channel)) BY <4>2, <5>2
          <6> QED BY <2>2, <4>2, <6>1
        <5> QED BY <5>1, <5>2
      <4> QED BY <4>2, <4>3
    <3> QED BY <3>1, <3>2
  <2>4. TypeOK' BY <1>1, <1>2, <1>5, <2>3 DEF TypeOK, Event
  <2>5. Serves' BY <1>2, <1>5, AttemptFacts DEF Serves
  <2>6. Len(channel) > 0 BY <1>1, TailFacts
  <2>7. Accepts BY <1>1, <1>5, <2>3, <2>6 DEF Accepts, a
  <2> QED BY <1>1, <1>3, <2>4, <2>5, <2>7 DEF TInv, ServerEffect, CliVars
<1> QED BY <1>2, <1>4, <1>5 DEF TakeRequest

LEMMA GiveUpFacts ==
    ASSUME TypeOK, srv.pc \in {"accept", "meta"}, NEW q \in Seq(Event), Within(q, channel), GiveUp(q),
           UNCHANGED <<accepted, answer, remote, table>>, SockFacts
    PROVE  GivesUp /\ channel' \in Seq(Event)
<1>1. channel \in Seq(Event) BY DEF TypeOK, Event
<1>2. channel' = Without(q, srv.at) BY DEF GiveUp
<1>3. /\ channel' \in Seq(Event) /\ Within(channel', q)
      /\ \A i \in 1 .. Len(channel') : channel'[i][2] # srv.at
  BY <1>2, WithoutFacts
<1>4. Within(channel', channel) BY <1>1, <1>3, WithinTrans
<1> QED BY <1>3, <1>4 DEF GivesUp, GiveUp

LEMMA MiddleSteps ==
    ASSUME TInv, TakeEstablished \/ AcceptMeta
    PROVE  TInv' /\ ServerEffect
<1>1. /\ TypeOK /\ Calls /\ Serves /\ channel \in Seq(Event) /\ srv.pc # "loop"
      /\ srv \in [pc : {"loop", "accept", "meta", "add"}, at : Attempt \cup {None}]
      /\ UNCHANGED <<serial, caller, client, cliIds, accepted, answer, remote, bound, table>>
  BY DEF TInv, TypeOK, Event, TakeEstablished, AcceptMeta
<1>2. srv.at \in Attempt BY <1>1 DEF Serves
<1>3. Calls' BY <1>1 DEF Calls
<1>4. CASE TakeEstablished
  <2>1. channel # <<>> /\ srv.pc = "accept" /\ UNCHANGED <<backlog, pending, sock>>
    BY <1>4 DEF TakeEstablished
  <2>2. SockFacts BY <2>1 DEF SockFacts
  <2>3. CASE Head(channel)[1] = "established"
    <3>1. channel' = Tail(channel) /\ srv' = [srv EXCEPT !.pc = "meta"] /\ srvIds' = srvIds
      BY <1>4, <2>3 DEF TakeEstablished
    <3>2. srv' = [pc |-> "meta", at |-> srv.at] BY <1>1, <3>1
    <3>3. channel' \in Seq(Event) BY <1>1, <2>1, <3>1, TailFacts
    <3>4. TypeOK' BY <1>1, <1>2, <2>1, <3>1, <3>2, <3>3 DEF TypeOK, Event
    <3>5. Serves' BY <1>2, <3>2, AttemptFacts DEF Serves
    <3>6. Confirms
      BY <1>1, <2>1, <2>3, <3>1, <3>2, TailFacts DEF Confirms, EstablishedAt
    <3> QED BY <1>1, <1>3, <3>4, <3>5, <3>6 DEF TInv, ServerEffect, CliVars
  <2>4. CASE Head(channel)[1] # "established"
    <3>1. GiveUp(Tail(channel)) BY <1>4, <2>4 DEF TakeEstablished
    <3>2. Tail(channel) \in Seq(Event) /\ Within(Tail(channel), channel)
      BY <1>1, <2>1, TailFacts
    <3>3. GivesUp /\ channel' \in Seq(Event) BY <1>1, <2>1, <2>2, <3>1, <3>2, GiveUpFacts
    <3>4. TypeOK' BY <1>1, <2>1, <3>3 DEF TypeOK, Event, GivesUp
    <3>5. Serves' BY <3>3 DEF Serves, GivesUp
    <3> QED BY <1>1, <1>3, <3>3, <3>4, <3>5 DEF TInv, ServerEffect, CliVars
  <2> QED BY <2>3, <2>4
<1>5. CASE AcceptMeta
  <2>1. /\ backlog # <<>> /\ backlog' = Tail(backlog) /\ UNCHANGED <<srvIds, channel, srv>>
    BY <1>5 DEF AcceptMeta
  <2>2. backlog \in Seq(Call) /\ Head(backlog) \in Call /\ backlog' \in Seq(Call)
    BY <1>1, <2>1 DEF TypeOK
  <2>3. \/ sock' = [sock EXCEPT ![Head(backlog)] = "closed"] /\ pending' = pending
        \/ sock' = sock /\ pending' = pending \cup {Head(backlog)}
    BY <1>5 DEF AcceptMeta, PushMetaFd
  <2>4. SockFacts BY <1>1, <2>2, <2>3 DEF SockFacts, TypeOK
  <2>5. TypeOK' BY <1>1, <2>1, <2>2, <2>3 DEF TypeOK
  <2>6. Serves' BY <1>1, <2>1 DEF Serves
  <2>7. Minor BY <1>1, <2>1, <2>4, WithinSelf DEF Minor
  <2> QED BY <1>1, <1>3, <2>5, <2>6, <2>7 DEF TInv, ServerEffect, CliVars
<1> QED BY <1>4, <1>5

LEMMA ExchangeSteps ==
    ASSUME TInv, ExchangeMeta
    PROVE  TInv' /\ ServerEffect
<1>1. /\ TypeOK /\ Calls /\ Serves /\ channel \in Seq(Event) /\ srv.pc = "meta"
      /\ srv \in [pc : {"loop", "accept", "meta", "add"}, at : Attempt \cup {None}]
      /\ UNCHANGED <<serial, caller, client, cliIds, accepted, backlog, bound, table>>
  BY DEF TInv, TypeOK, Event, ExchangeMeta
<1>2. srv.at \in Attempt /\ srv.at[1] \in Call BY <1>1, AttemptFacts DEF Serves
<1>3. Calls' BY <1>1 DEF Calls
<1> DEFINE k == srv.at[1]
<1>4. /\ pending' = pending \ {k}
      /\ \/ /\ sock[k] = "all"
            /\ remote' = [remote EXCEPT ![srv.at] = k]
            /\ answer' = [answer EXCEPT ![k] = srv.at]
            /\ sock' = [sock EXCEPT ![k] = "answered"]
            /\ srv' = [srv EXCEPT !.pc = "add"]
            /\ UNCHANGED <<srvIds, channel>>
         \/ /\ sock' = [sock EXCEPT ![k] = "closed"]
            /\ GiveUp(channel)
            /\ UNCHANGED <<remote, answer>>
  BY DEF ExchangeMeta, PopMetaFd
<1>5. CASE /\ remote' = [remote EXCEPT ![srv.at] = k]
           /\ answer' = [answer EXCEPT ![k] = srv.at]
           /\ sock' = [sock EXCEPT ![k] = "answered"]
           /\ srv' = [srv EXCEPT !.pc = "add"]
           /\ UNCHANGED <<srvIds, channel>>
  <2>1. srv' = [pc |-> "add", at |-> srv.at] BY <1>1, <1>5
  <2>2. \A j \in Call : sock'[j] = "answered" => sock[j] = "answered" \/ j = k
    BY <1>1, <1>2, <1>5 DEF TypeOK
  <2>3. Exchanges BY <1>1, <1>5, <2>1, <2>2 DEF Exchanges
  <2>4. Serves' BY <1>2, <2>1, AttemptFacts DEF Serves
  <2>5. /\ remote' \in [Attempt -> Call \cup {None}] /\ answer' \in [Call -> Attempt \cup {None}]
        /\ sock' \in [Call -> {"unused", "nothing", "hello", "all", "answered", "closed"}]
    BY <1>1, <1>2, <1>5 DEF TypeOK
  <2>6. TypeOK' BY <1>1, <1>2, <1>4, <1>5, <2>1, <2>5 DEF TypeOK
  <2> QED BY <1>1, <1>3, <2>3, <2>4, <2>6 DEF TInv, ServerEffect, CliVars
<1>6. CASE /\ sock' = [sock EXCEPT ![k] = "closed"]
           /\ GiveUp(channel)
           /\ UNCHANGED <<remote, answer>>
  <2>1. SockFacts BY <1>1, <1>2, <1>6 DEF SockFacts, TypeOK
  <2>2. GivesUp /\ channel' \in Seq(Event) BY <1>1, <1>6, <2>1, WithinSelf, GiveUpFacts
  <2>3. Serves' BY <2>2 DEF Serves, GivesUp
  <2>4. TypeOK' BY <1>1, <1>2, <1>4, <1>6, <2>2 DEF TypeOK, Event, GivesUp
  <2> QED BY <1>1, <1>3, <2>2, <2>3, <2>4 DEF TInv, ServerEffect, CliVars
<1> QED BY <1>4, <1>5, <1>6

LEMMA TableSteps ==
    ASSUME TInv, Add \/ TakeDisconnected
    PROVE  TInv' /\ ServerEffect
<1>1. /\ TypeOK /\ Calls /\ Serves /\ channel \in Seq(Event)
      /\ srv \in [pc : {"loop", "accept", "meta", "add"}, at : Attempt \cup {None}]
      /\ UNCHANGED <<serial, caller, client, cliIds, accepted, backlog, pending, sock, answer, remote>>
  BY DEF TInv, TypeOK, Event, Add, TakeDisconnected
<1>2. SockFacts BY <1>1 DEF SockFacts
<1>3. Calls' BY <1>1 DEF Calls
<1>4. CASE Add
  <2> DEFINE key == KeyOf[Owner(srv.at)]
  <2>1. /\ srv.pc = "add" /\ bound' = bound \cup {srv.at}
        /\ table' = [table EXCEPT ![key] = srv.at]
        /\ srvIds' = srvIds \ {table[key]}
        /\ channel' = Without(channel, table[key])
        /\ srv' = [pc |-> "loop", at |-> None]
    BY <1>4 DEF Add, Replace
  <2>2. srv.at \in Attempt BY <1>1, <2>1 DEF Serves
  <2>3. channel' \in Seq(Event) /\ Within(channel', channel) BY <1>1, <2>1, WithoutFacts
  <2>4. Adds BY <1>1, <2>1, <2>3 DEF Adds
  <2>5. Serves' BY <2>1 DEF Serves
  <2> HIDE DEF key
  <2>6. table' \in [Key -> Attempt \cup {None}] BY <1>1, <2>1, <2>2 DEF TypeOK
  <2>7. TypeOK' BY <1>1, <2>1, <2>2, <2>3, <2>6 DEF TypeOK, Event
  <2> QED BY <1>1, <1>3, <2>4, <2>5, <2>7 DEF TInv, ServerEffect, CliVars
<1>5. CASE TakeDisconnected
  <2> DEFINE a == channel[1][2]
             key == KeyOf[Owner(a)]
  <2>1. /\ srv.pc = "loop" /\ channel # <<>> /\ Head(channel)[1] = "disconnected" /\ srv' = srv
    BY <1>5 DEF TakeDisconnected
  <2>2. /\ Head(channel) = channel[1] /\ Len(channel) > 0
        /\ Tail(channel) \in Seq(Event) /\ Within(Tail(channel), channel)
    BY <1>1, <2>1, TailFacts
  <2>3. /\ bound' = bound \ {a}
        /\ \/ /\ table[key] = a /\ table' = [table EXCEPT ![key] = None] /\ srvIds' = srvIds \ {a}
              /\ channel' = Without(Tail(channel), a)
           \/ UNCHANGED <<table, srvIds>> /\ channel' = Tail(channel)
    BY <1>5, <2>2 DEF TakeDisconnected
  <2>4. Serves' BY <1>1, <2>1 DEF Serves
  <2>5. CASE /\ table[key] = a /\ table' = [table EXCEPT ![key] = None] /\ srvIds' = srvIds \ {a}
             /\ channel' = Without(Tail(channel), a)
    <3>1. channel' \in Seq(Event) /\ Within(channel', Tail(channel))
      BY <2>2, <2>5, WithoutFacts
    <3>2. Within(channel', channel) BY <1>1, <2>2, <3>1, WithinTrans
    <3>3. Removes BY <1>1, <2>1, <2>2, <2>5, <3>2 DEF Removes
    <3> HIDE DEF key, a
    <3>4. table' \in [Key -> Attempt \cup {None}] BY <1>1, <2>5 DEF TypeOK
    <3>5. TypeOK' BY <1>1, <2>1, <2>3, <2>5, <3>1, <3>4 DEF TypeOK, Event
    <3> QED BY <1>1, <1>3, <2>4, <3>3, <3>5 DEF TInv, ServerEffect, CliVars
  <2>6. CASE UNCHANGED <<table, srvIds>> /\ channel' = Tail(channel)
    <3>1. Minor BY <1>1, <1>2, <2>1, <2>2, <2>6 DEF Minor
    <3>2. TypeOK' BY <1>1, <2>1, <2>2, <2>3, <2>6 DEF TypeOK, Event
    <3> QED BY <1>1, <1>3, <2>4, <3>1, <3>2 DEF TInv, ServerEffect, CliVars
  <2> QED BY <2>3, <2>5, <2>6
<1> QED BY <1>4, <1>5

LEMMA InitTInv == Init => TInv
<1>1. ASSUME Init PROVE TypeOK
  BY <1>1 DEF Init, TypeOK
<1>2. ASSUME Init PROVE Calls /\ Serves
  BY <1>2 DEF Init, Calls, Serves
<1> QED BY <1>1, <1>2 DEF TInv

\* Every step is one of those described above.
LEMMA Steps ==
    ASSUME TInv, [Next]_vars
    PROVE  /\ TInv'
           /\ \/ \E c \in Client : Starts(c) \/ ClientEffect(c)
              \/ ServerEffect
              \/ UNCHANGED vars
<1>1. CASE UNCHANGED vars
  BY <1>1 DEF vars, TInv, TypeOK, Calls, Serves
<1>2. ASSUME NEW c \in Client, Connect(c) PROVE TInv' /\ Starts(c)
  BY <1>2, ConnectTInv
<1>3. ASSUME NEW c \in Client, ClientStep(c) \/ Disconnect(c) \/ Crash(c)
      PROVE  TInv' /\ ClientEffect(c)
  BY <1>3, ClientSteps, ClientTInv DEF TInv
<1>4. CASE ServerStep
  BY <1>4, AcceptSteps, MiddleSteps, ExchangeSteps, TableSteps DEF ServerStep
<1> QED BY <1>1, <1>2, <1>3, <1>4 DEF Next

LEMMA SpecTInv == Spec => []TInv
<1>1. TInv /\ [Next]_vars => TInv' BY Steps
<1> QED BY <1>1, InitTInv, PTL DEF Spec

\* Every variable keeps its type, for every number of clients, calls and tries.
THEOREM ConnectTypeCorrect == Spec => []TypeOK
<1>1. TInv => TypeOK BY DEF TInv
<1> QED BY <1>1, SpecTInv, PTL

----------------------------------------------------------------------------
(***************************************************************************)
(* Clients preserve the invariant                                          *)
(***************************************************************************)

\* Made attempts stay made, and past ones past.
LEMMA Stays ==
    ASSUME TInv, NEW c \in Client, Starts(c) \/ ClientEffect(c),
           NEW a \in Attempt, a[1] \in 1 .. Len(caller)
    PROVE  /\ a[1] \in 1 .. Len(caller') /\ Owner(a)' = Owner(a) /\ Owner(a) \in Client
           /\ Made(a) => Made(a)'
           /\ Past(a) => Past(a)'
<1>0. TypeOK /\ a[2] \in Nat BY AttemptFacts DEF TInv
<1>1. /\ TypeOK /\ caller \in Seq(Client) /\ client \in [Client -> Side] /\ a[2] \in Nat
      /\ Len(caller) \in Nat
  <2>1. caller \in Seq(Client) /\ Len(caller) \in Nat BY <1>0 DEF TypeOK
  <2>2. client \in [Client -> Side] BY <1>0 DEF TypeOK, Side, Labels
  <2> QED BY <1>0, <2>1, <2>2
<1>2. Owner(a) \in Client BY <1>1 DEF Owner
<1>3. CASE Starts(c)
  <2>1. /\ Len(caller') = Len(caller) + 1
        /\ \A k \in 1 .. Len(caller) : caller'[k] = caller[k]
    BY <1>1, <1>3 DEF Starts
  <2>2. /\ \A d \in Client \ {c} : client'[d] = client[d]
        /\ client'[c].call = Len(caller) + 1
    BY <1>1, <1>3 DEF Starts
  <2>3. Owner(a)' = Owner(a) /\ a[1] \in 1 .. Len(caller') /\ a[1] # Len(caller) + 1
    BY <1>1, <2>1 DEF Owner
  <2>4. CASE Owner(a) = c
    BY <1>2, <2>2, <2>3, <2>4 DEF Made, Past
  <2>5. CASE Owner(a) # c
    <3>1. client'[Owner(a)] = client[Owner(a)] BY <1>2, <2>2, <2>5
    <3> QED BY <1>2, <2>3, <3>1 DEF Made, Past
  <2> QED BY <2>4, <2>5
<1>4. CASE ClientEffect(c)
  <2>1. caller' = caller /\ client[c].pc # "idle" BY <1>4 DEF ClientEffect, SrvVars
  <2>2. Owner(a)' = Owner(a) BY <2>1 DEF Owner
  <2>3. CASE Owner(a) # c
    <3>1. client'[Owner(a)] = client[Owner(a)]
      BY <1>2, <1>4, <2>3 DEF ClientEffect, Asks, Leaves, Hears, Goes, Moves
    <3> QED BY <1>2, <2>1, <2>2, <3>1 DEF Made, Past
  <2>4. CASE Owner(a) = c
    <3>1. client'[c].call = client[c].call /\ client[c].try \in Nat
      BY <1>1, <1>4 DEF ClientEffect, Asks, Leaves, Hears, Goes, Moves, Side
    <3>2. \/ client'[c].try = client[c].try /\ client'[c].pc # "request"
          \/ client'[c].try = client[c].try + 1
      BY <1>4 DEF ClientEffect, Asks, Leaves, Hears, Goes, Moves
    <3>3. Made(a) => Made(a)'
      BY <1>1, <2>1, <2>2, <2>4, <3>1, <3>2 DEF Made
    <3>4. client[c].pc \in {"dial", "reply", "ok"} =>
              client'[c].try = client[c].try /\ client'[c].pc \in {"dial", "reply", "ok", "idle"}
      BY <1>4 DEF ClientEffect, Asks, Leaves, Hears, Goes, Moves
    <3>5. Past(a) => Past(a)'
      BY <2>1, <2>2, <2>4, <3>1, <3>4 DEF Past
    <3> QED BY <1>2, <2>1, <2>2, <3>3, <3>5
  <2> QED BY <2>3, <2>4
<1> QED BY <1>3, <1>4

\* The attempt a client is in was made once the request is out.
LEMMA MadeNow ==
    ASSUME TInv, NEW c \in Client, client[c].pc # "idle"
    PROVE  Made(Try(c)) <=> client[c].pc # "request"
<1>1. /\ Try(c)[1] = client[c].call /\ Try(c)[2] = client[c].try /\ Owner(Try(c)) = c
      /\ client[c].call \in 1 .. Len(caller)
  BY InCall DEF TInv
<1>2. client[c].try \in Nat BY DEF TInv, TypeOK
<1> QED BY <1>1, <1>2 DEF Made

\* What an event in the channel can be after a step of client c.
LEMMA NewEvents ==
    ASSUME TInv, NEW c \in Client, ClientEffect(c), NEW i \in 1 .. Len(channel')
    PROVE  \/ i \in 1 .. Len(channel) /\ channel'[i] = channel[i]
           \/ /\ i = Len(channel) + 1 /\ i \notin 1 .. Len(channel)
              /\ \/ Asks(c) /\ channel'[i] = <<"request", Try(c)>>
                 \/ /\ Leaves(c) /\ Try(c) \in cliIds
                    /\ channel'[i] \in {<<"failed", Try(c)>>, <<"disconnected", Try(c)>>}
                 \/ Hears(c) /\ Try(c) \in srvIds /\ channel'[i] = <<"established", Try(c)>>
<1>1. channel \in Seq(Event) /\ Len(channel) \in Nat BY DEF TInv, TypeOK, Event
<1>2. ASSUME NEW e, channel' = Append(channel, e)
      PROVE  \/ i \in 1 .. Len(channel) /\ channel'[i] = channel[i]
             \/ i = Len(channel) + 1 /\ i \notin 1 .. Len(channel) /\ channel'[i] = e
  BY <1>1, <1>2
<1>3. CASE channel' = channel BY <1>3
<1>4. CASE Asks(c) BY <1>2, <1>4 DEF Asks
<1>5. CASE Leaves(c) /\ channel' # channel
  <2>1. PICK kind \in {"failed", "disconnected"} : channel' = Append(channel, <<kind, Try(c)>>)
    BY <1>5 DEF Leaves
  <2> QED BY <1>2, <1>5, <2>1 DEF Leaves
<1>6. CASE Hears(c) /\ channel' # channel
  BY <1>2, <1>6 DEF Hears
<1>7. CASE Goes(c) BY <1>3, <1>7 DEF Goes
<1> QED BY <1>3, <1>4, <1>5, <1>6, <1>7 DEF ClientEffect

LEMMA Channeled ==
    ASSUME TypeOK
    PROVE  \A i \in 1 .. Len(channel) :
              channel[i] \in Event /\ channel[i][2] \in Attempt /\ channel[i] = <<channel[i][1], channel[i][2]>>
<1>1. channel \in Seq(Event) BY DEF TypeOK, Event
<1>2. \A i \in 1 .. Len(channel) : channel[i] \in Event BY <1>1
<1> QED BY <1>2 DEF Event

\* Facts about accepted attempts, used for each part of the invariant.
LEMMA Served ==
    ASSUME TInv, Attempts
    PROVE  /\ accepted \subseteq Attempt /\ srvIds \subseteq accepted
           /\ \A a \in accepted : a \in Attempt /\ a[1] \in 1 .. Len(caller) /\ Made(a)
           /\ srv.pc # "loop" => srv.at \in accepted
           /\ \A k \in Call : answer[k] # None => answer[k] \in accepted
BY DEF TInv, TypeOK, Attempts, Made

LEMMA ClientAttempts ==
    ASSUME TInv, EInv, NEW c \in Client, Starts(c) \/ ClientEffect(c)
    PROVE  Attempts'
<1>1. TypeOK /\ Attempts /\ Ids BY DEF TInv, EInv
<1>2. UNCHANGED <<srvIds, accepted, srv, answer>> BY DEF Starts, ClientEffect, SrvVars
<1>3. \A a \in accepted : Made(a)'
  BY <1>1, Served, Stays
<1>4. ASSUME NEW i \in 1 .. Len(channel), channel'[i] = channel[i]
      PROVE  \E a \in Attempt : channel'[i][2] = a /\ Made(a)'
  <2>1. PICK a \in Attempt : a = channel[i][2] BY <1>1, Channeled
  <2>2. Made(a) BY <1>1, <2>1 DEF Attempts
  <2>3. Made(a)' BY <2>2, Stays DEF Made
  <2> QED BY <1>4, <2>1, <2>3
<1>5. ASSUME NEW i \in 1 .. Len(channel')
      PROVE  \E a \in Attempt : channel'[i][2] = a /\ Made(a)'
  <2>1. CASE Starts(c)
    <3>1. channel' = channel BY <2>1 DEF Starts
    <3> QED BY <1>4, <3>1
  <2>2. CASE i \in 1 .. Len(channel) /\ channel'[i] = channel[i] BY <1>4, <2>2
  <2>3. CASE ClientEffect(c) /\ ~(i \in 1 .. Len(channel) /\ channel'[i] = channel[i])
    <3>1. /\ Asks(c) \/ (Leaves(c) /\ Try(c) \in cliIds) \/ Hears(c)
          /\ channel'[i][2] = Try(c)
      BY <2>3, NewEvents
    <3>2. PICK a \in Attempt : a = Try(c) /\ a[1] = client[c].call /\ a[2] = client[c].try
                               /\ a[1] \in 1 .. Len(caller) /\ Owner(a) = c
      BY <2>3, InCall DEF TInv, ClientEffect
    <3>3. CASE Asks(c)
      <4>1. /\ client'[c].pc = "wait" /\ client'[c].call = client[c].call
            /\ client'[c].try = client[c].try /\ client[c].try \in Nat
        BY <1>1, <3>3 DEF Asks, Moves, TypeOK
      <4>2. caller' = caller BY <2>3 DEF ClientEffect, SrvVars
      <4>3. Made(a)' BY <3>2, <4>1, <4>2 DEF Made, Owner
      <4> QED BY <3>1, <3>2, <4>3
    <3>4. CASE (Leaves(c) /\ Try(c) \in cliIds) \/ Hears(c)
      <4>1. client[c].pc \notin {"idle", "request"}
        BY <1>1, <3>2, <3>4 DEF Ids, Hears
      <4>2. Made(a) BY <3>2, <4>1, MadeNow
      <4>3. Made(a)' BY <2>3, <3>2, <4>2, Stays
      <4> QED BY <3>1, <3>2, <4>3
    <3> QED BY <3>1, <3>3, <3>4
  <2> QED BY <2>1, <2>2, <2>3
<1>6. ASSUME NEW i \in 1 .. Len(channel') PROVE (Made(channel[i][2]))'
  BY <1>5 DEF Made, Owner
<1>7. /\ srv'.pc # "loop" => srv'.at \in srvIds'
      /\ \A k \in Call : answer'[k] # None => answer'[k] \in accepted'
  BY <1>1, <1>2 DEF Attempts
<1> QED BY <1>2, <1>3, <1>6, <1>7 DEF Attempts

\* The ids of a client are for the attempt it is in.
LEMMA OneId ==
    ASSUME TInv, Ids, NEW a \in cliIds
    PROVE  /\ a \in Attempt /\ a[1] \in 1 .. Len(caller) /\ Owner(a) \in Client
           /\ a = Try(Owner(a)) /\ client[Owner(a)].pc \in {"wait", "dial", "reply", "ok"}
<1>1. caller \in Seq(Client) /\ cliIds \subseteq Attempt BY DEF TInv, TypeOK
<1>2. a[1] \in 1 .. Len(caller) BY DEF Ids
<1>3. Owner(a) \in Client BY <1>1, <1>2 DEF Owner
<1> QED BY <1>1, <1>2, <1>3 DEF Ids

LEMMA ClientIds ==
    ASSUME TInv, EInv, NEW c \in Client, Starts(c) \/ ClientEffect(c)
    PROVE  Ids'
<1>1. TypeOK /\ Calls /\ Ids BY DEF TInv, EInv
<1>2. \A d \in Client \ {c} : client'[d] = client[d] /\ (Try(d))' = Try(d)
  BY <1>1 DEF Starts, ClientEffect, Asks, Leaves, Hears, Goes, Moves, Try, TypeOK
<1>3. ASSUME NEW a \in cliIds, Owner(a) # c
      PROVE  /\ a[1] \in 1 .. Len(caller')
             /\ a = Try(Owner(a))'
             /\ client'[Owner(a)'].pc \in {"wait", "dial", "reply", "ok"}
  <2>1. /\ a \in Attempt /\ a[1] \in 1 .. Len(caller) /\ Owner(a) \in Client
        /\ a = Try(Owner(a)) /\ client[Owner(a)].pc \in {"wait", "dial", "reply", "ok"}
    BY <1>1, OneId
  <2>2. a[1] \in 1 .. Len(caller') /\ Owner(a)' = Owner(a) BY <2>1, Stays
  <2>3. /\ client'[Owner(a)] = client[Owner(a)] /\ (Try(Owner(a)))' = <<client'[Owner(a)].call, client'[Owner(a)].try>>
    BY <1>2, <1>3, <2>1, <2>2 DEF Try
  <2> QED BY <2>1, <2>2, <2>3 DEF Try
<1>4. \A d \in Client \ {c} : client'[d].pc \in {"wait", "dial", "reply", "ok"} =>
          Try(d)' \in cliIds /\ Try(d)' # Try(c)
  <2> SUFFICES ASSUME NEW d \in Client \ {c}, client'[d].pc \in {"wait", "dial", "reply", "ok"}
               PROVE  Try(d)' \in cliIds /\ Try(d)' # Try(c)
    OBVIOUS
  <2>1. client[d].pc \in {"wait", "dial", "reply", "ok"} /\ Try(d)' = Try(d) BY <1>2
  <2>2. Try(d) \in cliIds BY <1>1, <2>1 DEF Ids
  <2>3. Owner(Try(d)) = d BY <1>1, <2>1, InCall
  <2>4. client[c].call # 0 => caller[client[c].call] = c BY <1>1 DEF Calls
  <2>5. Try(d)[1] = client[d].call /\ client[d].call \in 1 .. Len(caller) /\ caller[client[d].call] = d
    BY <1>1, <2>1, InCall DEF Owner
  <2>6. Try(d) # Try(c)
    <3>1. ASSUME Try(d) = Try(c) PROVE FALSE
      <4>1. client[d].call = client[c].call BY <3>1 DEF Try
      <4> QED BY <2>4, <2>5, <4>1
    <3> QED BY <3>1
  <2> QED BY <2>1, <2>2, <2>6
<1>5. CASE Starts(c)
  <2>1. cliIds' = cliIds /\ client[c].pc = "idle" BY <1>5 DEF Starts
  <2>2. client'[c].pc = "request" BY <1>1, <1>5 DEF Starts, TypeOK
  <2>3. \A a \in cliIds : Owner(a) # c BY <1>1, <2>1, OneId
  <2>4. \A d \in Client : client'[d].pc \in {"wait", "dial", "reply", "ok"} => Try(d)' \in cliIds'
    BY <1>4, <2>1, <2>2
  <2> QED BY <1>3, <2>1, <2>3, <2>4 DEF Ids
<1>6. CASE ClientEffect(c)
  <2>1. caller' = caller /\ client[c].pc # "idle" BY <1>6 DEF ClientEffect, SrvVars
  <2>2. PICK x \in Attempt : x = Try(c) /\ x[1] \in 1 .. Len(caller) /\ Owner(x) = c
    BY <1>1, <2>1, InCall
  <2>3. /\ Owner(x)' = c
        /\ client'[c].try = client[c].try => Try(c)' = x
    <3>1. client'[c].call = client[c].call
      BY <1>6 DEF ClientEffect, Asks, Leaves, Hears, Goes, Moves
    <3> QED BY <2>1, <2>2, <3>1 DEF Owner, Try
  <2>4. \A a \in cliIds : Owner(a) = c => a = x /\ client[c].pc \in {"wait", "dial", "reply", "ok"}
    BY <1>1, <2>2, OneId
  <2>5. CASE Leaves(c)
    <3>1. cliIds' = cliIds \ {x} /\ client'[c].pc \in {"idle", "request"}
      BY <2>2, <2>5 DEF Leaves, Moves
    <3>2. \A a \in cliIds' : a \in cliIds /\ Owner(a) # c BY <2>4, <3>1
    <3>3. \A d \in Client : client'[d].pc \in {"wait", "dial", "reply", "ok"} => Try(d)' \in cliIds'
      BY <1>4, <2>2, <3>1
    <3> QED BY <1>3, <3>2, <3>3 DEF Ids
  <2>6. CASE ~Leaves(c) /\ client'[c].pc # "idle"
    <3>1. /\ cliIds' \in {cliIds, cliIds \cup {x}} /\ client'[c].try = client[c].try
          /\ client'[c].pc \in {"wait", "dial", "reply", "ok"}
          /\ x \notin cliIds => cliIds' = cliIds \cup {x} \/ client[c].pc \in {"wait", "dial", "reply", "ok"}
      BY <1>6, <2>2, <2>6 DEF ClientEffect, Asks, Hears, Goes, Moves
    <3>2. x \in cliIds' /\ Try(c)' = x
      BY <1>1, <2>2, <2>3, <3>1 DEF Ids
    <3>3. ASSUME NEW a \in cliIds'
          PROVE  /\ a[1] \in 1 .. Len(caller')
                 /\ a = Try(Owner(a))'
                 /\ client'[Owner(a)'].pc \in {"wait", "dial", "reply", "ok"}
      <4>1. CASE a = x
        BY <2>1, <2>2, <2>3, <3>1, <3>2, <4>1 DEF Try
      <4>2. CASE a # x
        <5>1. a \in cliIds /\ Owner(a) # c BY <2>4, <3>1, <4>2
        <5> QED BY <1>3, <5>1
      <4> QED BY <4>1, <4>2
    <3>4. \A d \in Client : client'[d].pc \in {"wait", "dial", "reply", "ok"} => Try(d)' \in cliIds'
      BY <1>4, <3>1, <3>2
    <3> QED BY <3>3, <3>4 DEF Ids
  <2>7. CASE ~Leaves(c) /\ client'[c].pc = "idle"
    <3>1. cliIds' = cliIds /\ client[c].pc = "request"
      BY <1>6, <2>7 DEF ClientEffect, Asks, Hears, Goes, Moves
    <3>2. \A a \in cliIds' : a \in cliIds /\ Owner(a) # c BY <2>4, <3>1
    <3>3. \A d \in Client : client'[d].pc \in {"wait", "dial", "reply", "ok"} => Try(d)' \in cliIds'
      BY <1>4, <2>7, <3>1
    <3> QED BY <1>3, <3>2, <3>3 DEF Ids
  <2> QED BY <2>5, <2>6, <2>7
<1> QED BY <1>5, <1>6

LEMMA ClientWaiting ==
    ASSUME TInv, EInv, NEW c \in Client, Starts(c) \/ ClientEffect(c)
    PROVE  Waiting'
<1>1. TypeOK /\ Calls /\ Waiting /\ Attempts BY DEF TInv, EInv
<1>2. srvIds' = srvIds /\ srv' = srv BY DEF Starts, ClientEffect, SrvVars
<1>3. \A d \in Client \ {c} : client'[d] = client[d] /\ (Try(d))' = Try(d)
  BY <1>1 DEF Starts, ClientEffect, Asks, Leaves, Hears, Goes, Moves, Try, TypeOK
<1>4. ASSUME client'[c].pc = "wait" PROVE Try(c)' \notin srvIds
  <2>1. ClientEffect(c) /\ Asks(c)
    BY <1>1, <1>4 DEF Starts, ClientEffect, Asks, Leaves, Hears, Goes, Moves, TypeOK
  <2>2. Try(c)' = Try(c) /\ client[c].pc = "request" BY <2>1 DEF Asks, Moves, Try
  <2>3. ~Made(Try(c)) BY <2>2, MadeNow
  <2> QED BY <1>1, <2>2, <2>3, Served
<1> QED BY <1>1, <1>2, <1>3, <1>4 DEF Waiting

LEMMA ServedStaysPast ==
    ASSUME TInv, Attempts, NEW c \in Client, Starts(c) \/ ClientEffect(c), srv' = srv,
           srv.pc # "loop", Past(srv.at)
    PROVE  (Past(srv.at))'
<1>1. PICK a \in Attempt : a = srv.at /\ a[1] \in 1 .. Len(caller) BY Served
<1>2. Past(a) BY <1>1
<1>3. Past(a)' BY <1>1, <1>2, Stays
<1> QED BY <1>1, <1>3 DEF Past, Owner

LEMMA ClientOnce ==
    ASSUME TInv, EInv, NEW c \in Client, Starts(c) \/ ClientEffect(c)
    PROVE  Once'
<1>1. TypeOK /\ Calls /\ Waiting /\ Attempts /\ Once BY DEF TInv, EInv
<1>2. srv' = srv BY DEF Starts, ClientEffect, SrvVars
<1>3. srv.pc # "loop" /\ Past(srv.at) => (Past(srv.at))'
  BY <1>1, <1>2, ServedStaysPast
<1>4. CASE channel' = channel
  BY <1>1, <1>2, <1>3, <1>4 DEF Once, EstablishedAt, Past, Owner
<1>5. CASE ClientEffect(c) /\ ~Hears(c)
  <2>1. \A i \in 1 .. Len(channel') : EstablishedAt(i)' =>
            i \in 1 .. Len(channel) /\ channel'[i] = channel[i] /\ EstablishedAt(i)
    BY <1>5, NewEvents DEF EstablishedAt
  <2>2. ASSUME NEW i \in 1 .. Len(channel'), EstablishedAt(i)'
        PROVE  srv'.pc = "accept" /\ srv'.at = channel'[i][2] /\ Past(srv.at)'
    BY <1>1, <1>2, <1>3, <2>1, <2>2 DEF Once
  <2>3. \A i, j \in 1 .. Len(channel') : EstablishedAt(i)' /\ EstablishedAt(j)' => i = j
    BY <1>1, <2>1 DEF Once
  <2> QED BY <2>2, <2>3 DEF Once
<1>6. CASE Hears(c) /\ channel' # channel /\ ClientEffect(c)
  <2>1. client[c].pc = "wait" /\ Try(c) \in srvIds BY <1>6 DEF Hears
  <2>2. srv.pc = "accept" /\ srv.at = Try(c) BY <1>1, <2>1 DEF Waiting
  <2>3. PICK a \in Attempt : a = Try(c) /\ a[1] = client[c].call /\ a[2] = client[c].try
                             /\ a[1] \in 1 .. Len(caller) /\ Owner(a) = c
    BY <1>1, <2>1, InCall
  <2>4. ~Past(a) BY <2>1, <2>3 DEF Past
  <2>5. \A i \in 1 .. Len(channel) : ~EstablishedAt(i)
    BY <1>1, <2>2, <2>3, <2>4 DEF Once
  <2>6. ASSUME NEW i \in 1 .. Len(channel'), EstablishedAt(i)'
        PROVE  i = Len(channel) + 1 /\ channel'[i] = <<"established", a>>
    <3>1. ~(i \in 1 .. Len(channel) /\ channel'[i] = channel[i])
      BY <2>5, <2>6 DEF EstablishedAt
    <3> QED BY <1>6, <2>3, <2>6, <3>1, NewEvents DEF EstablishedAt
  <2>7. Past(a)'
    <3>1. client'[c].pc = "dial" /\ client'[c].try = client[c].try /\ client'[c].call = client[c].call
      BY <1>6 DEF Hears, Moves
    <3>2. caller' = caller BY <1>6 DEF ClientEffect, SrvVars
    <3> QED BY <2>3, <3>1, <3>2 DEF Past, Owner
  <2>8. srv'.at = a BY <1>2, <2>2, <2>3
  <2>9. (Past(srv.at))' BY <2>7, <2>8 DEF Past, Owner
  <2>10. \A i \in 1 .. Len(channel') : EstablishedAt(i)' =>
            srv'.pc = "accept" /\ srv'.at = channel'[i][2]
    BY <1>2, <2>2, <2>6, <2>8
  <2> QED BY <2>6, <2>9, <2>10 DEF Once
<1> QED BY <1>4, <1>5, <1>6 DEF Starts

LEMMA ClientExchanged ==
    ASSUME TInv, EInv, NEW c \in Client, Starts(c) \/ ClientEffect(c)
    PROVE  Exchanged'
<1>1. TypeOK /\ Calls /\ Attempts /\ Exchanged BY DEF TInv, EInv
<1>2. UNCHANGED <<srv, remote, answer, table>> BY DEF Starts, ClientEffect, SrvVars
<1>3. \A k \in Call : sock'[k] = "answered" => sock[k] = "answered"
  BY DEF Starts, ClientEffect
<1>4. srv.pc \in {"meta", "add"} => (Past(srv.at))'
  BY <1>1, <1>2, ServedStaysPast DEF Exchanged
<1>5. ASSUME NEW k \in Call, answer[k] # None PROVE (Past(answer[k]))'
  <2>1. PICK a \in Attempt : a = answer[k] /\ a[1] \in 1 .. Len(caller)
    BY <1>1, <1>5, Served
  <2>2. Past(a) BY <1>1, <1>5, <2>1 DEF Exchanged
  <2>3. Past(a)' BY <2>1, <2>2, Stays
  <2> QED BY <1>2, <2>1, <2>3 DEF Past, Owner
<1>6. ASSUME NEW d \in Client, client'[d].pc = "ok" PROVE answer[client'[d].call] # None
  <2>1. \/ client[d].pc = "ok" /\ client'[d].call = client[d].call
        \/ /\ d = c /\ client[d].pc = "reply" /\ client'[d].call = client[d].call
           /\ sock[client[d].call] = "answered"
    BY SMTT(30), <1>1, <1>6 DEF Starts, ClientEffect, Asks, Leaves, Hears, Goes, Moves, TypeOK
  <2>2. client[d].call \in Call BY <1>1, <2>1, InCall
  <2> QED BY <1>1, <2>1, <2>2 DEF Exchanged
<1> QED BY <1>1, <1>2, <1>3, <1>4, <1>5, <1>6 DEF Exchanged

----------------------------------------------------------------------------
(***************************************************************************)
(* The server preserves the invariant                                      *)
(***************************************************************************)
LEMMA ServerAttempts ==
    ASSUME TInv, TInv', EInv, ServerEffect
    PROVE  Attempts'
<1>1. TypeOK /\ TypeOK' /\ Serves /\ Attempts BY DEF TInv, EInv
<1>2. caller' = caller /\ client' = client BY DEF ServerEffect, CliVars
<1>3. \A a : Made(a)' <=> Made(a) BY <1>2 DEF Made, Owner
<1>4. \A i \in 1 .. Len(channel) : channel[i][2] \in Attempt /\ Made(channel[i][2])
  BY <1>1, Channeled DEF Attempts
<1>5. ASSUME Within(channel', channel) PROVE \A i \in 1 .. Len(channel') : Made(channel'[i][2])
  BY <1>4, <1>5 DEF Within
<1>6. \A i \in 1 .. Len(channel') : Made(channel'[i][2])
  <2>1. CASE Accepts
    <3>1. Made(channel[1][2])
      <4>1. Len(channel) \in Nat /\ Len(channel) > 0 BY <1>1, <2>1 DEF Accepts, TypeOK
      <4> QED BY <1>4, <4>1
    <3>2. \A i \in 1 .. Len(channel') :
              channel'[i] = <<"failed", channel[1][2]>> \/ \E j \in 1 .. Len(channel) : channel'[i] = channel[j]
      BY <2>1 DEF Accepts
    <3> QED BY SMTT(30), <1>4, <3>1, <3>2
  <2>2. CASE Confirms
    <3>1. Len(channel) \in Nat /\ Len(channel') = Len(channel) - 1 BY <1>1, <2>2 DEF Confirms, TypeOK
    <3>2. \A i \in 1 .. Len(channel') : i + 1 \in 1 .. Len(channel) BY <3>1
    <3> QED BY <1>4, <2>2, <3>2 DEF Confirms
  <2>3. CASE Exchanges BY <1>4, <2>3 DEF Exchanges
  <2> QED
    BY <1>5, <2>1, <2>2, <2>3 DEF ServerEffect, Minor, GivesUp, Adds, Removes
<1>7. \A i \in 1 .. Len(channel') : (Made(channel[i][2]))'
  BY <1>2, <1>6 DEF Made, Owner
<1>8. \A a \in accepted' : Made(a)
  <2>1. CASE Accepts
    <3>1. Len(channel) \in Nat /\ Len(channel) > 0 BY <1>1, <2>1 DEF Accepts, TypeOK
    <3>2. Made(channel[1][2]) BY <1>4, <3>1
    <3> QED BY <1>1, <2>1, <3>2 DEF Accepts, Attempts
  <2>2. CASE accepted' = accepted BY <1>1, <2>2 DEF Attempts
  <2> QED
    BY <2>1, <2>2 DEF ServerEffect, Minor, GivesUp, Confirms, Exchanges, Adds, Removes
<1>9. srv'.pc # "loop" => srv'.at \in srvIds'
  BY <1>1 DEF ServerEffect, Accepts, Minor, GivesUp, Confirms, Exchanges, Adds, Removes, Attempts
<1>10. \A k \in Call : answer'[k] # None => answer'[k] \in accepted'
  <2>1. CASE Exchanges
    BY <1>1, <2>1 DEF Exchanges, Attempts, TypeOK
  <2>2. CASE answer' = answer /\ accepted \subseteq accepted'
    BY <1>1, <2>2 DEF Attempts
  <2> QED
    BY <2>1, <2>2 DEF ServerEffect, Accepts, Minor, GivesUp, Confirms, Adds, Removes
<1> QED BY <1>3, <1>7, <1>8, <1>9, <1>10 DEF Attempts

\* An ESTABLISHED left in the channel was there before.
LEMMA OldEstablished ==
    ASSUME TInv, EInv, ServerEffect, NEW i \in 1 .. Len(channel'), EstablishedAt(i)'
    PROVE  Minor /\ srv.pc = "accept"
<1>1. TypeOK /\ Once BY DEF TInv, EInv
<1>2. channel'[i][1] = "established" BY DEF EstablishedAt
<1>3. ASSUME NEW j \in 1 .. Len(channel), channel'[i] = channel[j]
      PROVE  EstablishedAt(j) /\ srv.pc = "accept" /\ srv.at = channel[j][2]
  BY <1>1, <1>2, <1>3 DEF Once, EstablishedAt
<1>4. ASSUME Within(channel', channel)
      PROVE  srv.pc = "accept" /\ srv.at = channel'[i][2]
  <2>1. PICK j \in 1 .. Len(channel) : channel'[i] = channel[j] BY <1>4 DEF Within
  <2> QED BY <1>3, <2>1
<1>5. ~Accepts
  <2> SUFFICES ASSUME Accepts PROVE FALSE OBVIOUS
  <2>1. srv.pc = "loop" /\ channel'[i] # <<"failed", channel[1][2]>> BY <1>2 DEF Accepts
  <2>2. PICK j \in 1 .. Len(channel) : channel'[i] = channel[j] BY <2>1 DEF Accepts
  <2> QED BY <1>3, <2>1, <2>2
<1>6. ~GivesUp BY <1>4 DEF GivesUp
<1>7. ~Adds /\ ~Removes BY <1>4 DEF Adds, Removes
<1>8. ~Exchanges BY <1>3 DEF Exchanges
<1>9. ~Confirms
  <2> SUFFICES ASSUME Confirms PROVE FALSE OBVIOUS
  <2>1. Len(channel) \in Nat BY <1>1 DEF TypeOK
  <2>2. /\ i + 1 \in 1 .. Len(channel) /\ channel'[i] = channel[i + 1] /\ i + 1 # 1
        /\ 1 \in 1 .. Len(channel)
    BY <2>1 DEF Confirms
  <2>3. EstablishedAt(i + 1) /\ EstablishedAt(1) BY <1>3, <2>2 DEF Confirms
  <2> QED BY <1>1, <2>2, <2>3 DEF Once
<1> QED BY <1>4, <1>5, <1>6, <1>7, <1>8, <1>9 DEF ServerEffect, Minor

LEMMA ServerOnce ==
    ASSUME TInv, EInv, ServerEffect
    PROVE  Once'
<1>1. TypeOK /\ Once BY DEF TInv, EInv
<1>2. caller' = caller /\ client' = client BY DEF ServerEffect, CliVars
<1>3. ASSUME NEW i \in 1 .. Len(channel'), EstablishedAt(i)'
      PROVE  srv'.pc = "accept" /\ srv'.at = channel'[i][2] /\ (Past(srv.at))'
  <2>1. Minor BY <1>3, OldEstablished
  <2>2. PICK j \in 1 .. Len(channel) : channel'[i] = channel[j] BY <2>1 DEF Minor, Within
  <2>3. srv' = srv /\ EstablishedAt(j) BY <1>3, <2>1, <2>2 DEF Minor, EstablishedAt
  <2>4. srv.pc = "accept" /\ srv.at = channel[j][2] /\ Past(srv.at) BY <1>1, <2>3 DEF Once
  <2> QED BY <1>2, <2>2, <2>3, <2>4 DEF Past, Owner
<1>4. ASSUME NEW i \in 1 .. Len(channel'), NEW j \in 1 .. Len(channel'),
             EstablishedAt(i)', EstablishedAt(j)'
      PROVE  i = j
  <2>1. Minor BY <1>4, OldEstablished
  <2>2. PICK f \in [1 .. Len(channel') -> 1 .. Len(channel)] :
          /\ \A h \in 1 .. Len(channel') : channel'[h] = channel[f[h]]
          /\ \A h, l \in 1 .. Len(channel') : f[h] = f[l] => h = l
    BY <2>1 DEF Minor, Within
  <2>3. /\ f[i] \in 1 .. Len(channel) /\ f[j] \in 1 .. Len(channel)
        /\ EstablishedAt(f[i]) /\ EstablishedAt(f[j])
    BY <1>4, <2>2 DEF EstablishedAt
  <2>4. f[i] = f[j] BY <1>1, <2>3 DEF Once
  <2> QED BY <2>2, <2>4
<1> QED BY <1>3, <1>4 DEF Once

LEMMA ServerWaiting ==
    ASSUME TInv, EInv, ServerEffect
    PROVE  Waiting'
<1>1. TypeOK /\ Calls /\ Waiting /\ Once BY DEF TInv, EInv
<1>2. client' = client BY DEF ServerEffect, CliVars
<1> SUFFICES ASSUME NEW c \in Client, client[c].pc = "wait", Try(c) \in srvIds'
             PROVE  srv'.pc = "accept" /\ srv'.at = Try(c)
  BY <1>2 DEF Waiting, Try
<1>3. Try(c) \in srvIds => srv.pc = "accept" /\ srv.at = Try(c)
  BY <1>1 DEF Waiting
<1>4. ~Confirms \/ Try(c) \notin srvIds
  <2> SUFFICES ASSUME Confirms, Try(c) \in srvIds PROVE FALSE OBVIOUS
  <2>1. 1 \in 1 .. Len(channel) /\ EstablishedAt(1) BY <1>1 DEF Confirms, TypeOK
  <2>2. Past(srv.at) /\ srv.at = Try(c) BY <1>1, <1>3, <2>1 DEF Once
  <2>3. Try(c)[1] = client[c].call /\ Owner(Try(c)) = c BY <1>1, InCall
  <2> QED BY <2>2, <2>3 DEF Past
<1> QED
  BY <1>3, <1>4 DEF ServerEffect, Accepts, Minor, GivesUp, Confirms, Exchanges, Adds, Removes

LEMMA ServerExchanged ==
    ASSUME TInv, EInv, ServerEffect
    PROVE  Exchanged'
<1>1. TypeOK /\ Calls /\ Serves /\ Once /\ Attempts /\ Exchanged BY DEF TInv, EInv
<1>2. caller' = caller /\ client' = client BY DEF ServerEffect, CliVars
<1>3. \A a : Past(a)' <=> Past(a) BY <1>2 DEF Past, Owner
<1>4. CASE Accepts \/ Minor \/ GivesUp \/ Removes
  <2>1. /\ UNCHANGED <<answer, remote>> /\ SockFacts
        /\ srv'.pc \in {"meta", "add"} => srv' = srv
        /\ \A key \in Key : table'[key] \in {table[key], None}
    BY <1>1, <1>4 DEF Accepts, Minor, GivesUp, Removes, SockFacts, TypeOK
  <2>2. srv'.pc \in {"meta", "add"} => (Past(srv.at))' /\ (srv'.pc = "add" => remote'[srv'.at] # None)
    BY <1>1, <1>2, <2>1 DEF Exchanged, Past, Owner
  <2>3. \A k \in Call : answer'[k] # None => answer'[k][1] = k /\ remote'[answer'[k]] # None /\ (Past(answer[k]))'
    BY <1>1, <1>2, <2>1 DEF Exchanged, Past, Owner
  <2>4. /\ \A a \in Attempt : remote'[a] \in {None, a[1]}
        /\ \A key \in Key : table'[key] # None => remote'[table'[key]] # None
        /\ \A k \in Call : sock'[k] = "answered" => answer'[k] # None
        /\ \A c \in Client : client'[c].pc = "ok" => answer'[client'[c].call] # None
    BY <1>1, <1>2, <2>1 DEF Exchanged, SockFacts
  <2> QED BY <2>2, <2>3, <2>4 DEF Exchanged
<1>5. CASE Confirms
  <2>1. 1 \in 1 .. Len(channel) /\ EstablishedAt(1) BY <1>1, <1>5 DEF Confirms, TypeOK
  <2>2. Past(srv.at) BY <1>1, <2>1 DEF Once
  <2>3. srv'.at = srv.at /\ srv'.pc = "meta" /\ UNCHANGED <<sock, answer, remote, table>>
    BY <1>5 DEF Confirms
  <2>4. (Past(srv.at))' BY <1>2, <2>2, <2>3 DEF Past, Owner
  <2>5. \A k \in Call : answer'[k] # None => (Past(answer[k]))'
    BY <1>1, <1>2, <2>3 DEF Exchanged, Past, Owner
  <2> QED BY <1>1, <1>2, <2>3, <2>4, <2>5 DEF Exchanged
<1>6. CASE Exchanges
  <2>1. PICK a \in Attempt : /\ a = srv.at /\ a # None /\ a[1] \in Call /\ a[1] # None
                             /\ Past(a)
    <3>1. srv.at \in Attempt BY <1>1, <1>6 DEF Serves, Exchanges, TypeOK
    <3>2. srv.at # None /\ srv.at[1] \in Call BY <3>1, AttemptFacts
    <3> QED BY <1>1, <1>6, <3>1, <3>2 DEF Exchanged, Exchanges
  <2>2. /\ srv'.at = a /\ srv'.pc = "add" /\ table' = table
        /\ remote' = [remote EXCEPT ![a] = a[1]] /\ answer' = [answer EXCEPT ![a[1]] = a]
        /\ \A k \in Call : sock'[k] = "answered" => sock[k] = "answered" \/ k = a[1]
    BY <1>6, <2>1 DEF Exchanges
  <2>3. /\ remote'[a] = a[1] /\ \A b \in Attempt : b # a => remote'[b] = remote[b]
        /\ answer'[a[1]] = a /\ \A k \in Call : k # a[1] => answer'[k] = answer[k]
    BY <1>1, <2>1, <2>2 DEF TypeOK
  <2>4. (Past(srv.at))' BY <1>2, <2>1, <2>2 DEF Past, Owner
  <2>5. ASSUME NEW k \in Call, answer'[k] # None
        PROVE  answer'[k][1] = k /\ remote'[answer'[k]] # None /\ (Past(answer[k]))'
    <3>1. CASE k = a[1]
      BY <1>2, <2>1, <2>3, <3>1 DEF Past, Owner
    <3>2. CASE k # a[1]
      <4>1. answer'[k] = answer[k] /\ answer[k] \in Attempt BY <1>1, <2>3, <2>5, <3>2 DEF TypeOK
      <4>2. answer[k][1] = k /\ remote[answer[k]] # None /\ Past(answer[k])
        BY <1>1, <2>5, <4>1 DEF Exchanged
      <4> QED BY <1>2, <2>1, <2>3, <4>1, <4>2 DEF Past, Owner
    <3> QED BY <3>1, <3>2
  <2>6. \A b \in Attempt : remote'[b] \in {None, b[1]} BY <1>1, <2>3 DEF Exchanged
  <2>7. \A key \in Key : table'[key] # None => remote'[table'[key]] # None
    BY <1>1, <2>1, <2>2, <2>3 DEF Exchanged, TypeOK
  <2>8. \A k \in Call : sock'[k] = "answered" => answer'[k] # None
    BY <1>1, <2>1, <2>2, <2>3 DEF Exchanged
  <2>9. \A c \in Client : client'[c].pc = "ok" => answer'[client'[c].call] # None
    <3> SUFFICES ASSUME NEW c \in Client, client[c].pc = "ok" PROVE answer'[client[c].call] # None
      BY <1>2
    <3>1. client[c].call \in Call BY <1>1, InCall
    <3> QED BY <1>1, <2>1, <2>3, <3>1 DEF Exchanged
  <2>10. remote'[srv'.at] # None BY <2>1, <2>2, <2>3
  <2> QED BY <2>2, <2>4, <2>5, <2>6, <2>7, <2>8, <2>9, <2>10 DEF Exchanged
<1>7. CASE Adds
  <2>1. /\ srv'.pc = "loop" /\ UNCHANGED <<sock, answer, remote>>
        /\ \A key \in Key : table'[key] \in {table[key], srv.at}
    BY <1>1, <1>7 DEF Adds, TypeOK
  <2>2. remote[srv.at] # None BY <1>1, <1>7 DEF Adds, Exchanged
  <2>3. \A k \in Call : answer'[k] # None => (Past(answer[k]))'
    BY <1>1, <1>2, <2>1 DEF Exchanged, Past, Owner
  <2>4. \A key \in Key : table'[key] # None => remote'[table'[key]] # None
    BY <1>1, <2>1, <2>2 DEF Exchanged
  <2> QED BY <1>1, <1>2, <2>1, <2>3, <2>4 DEF Exchanged
<1> QED BY <1>4, <1>5, <1>6, <1>7 DEF ServerEffect

----------------------------------------------------------------------------
(***************************************************************************)
(* Events and metadata                                                     *)
(***************************************************************************)
LEMMA InitEInv == Init => EInv
<1> SUFFICES ASSUME Init PROVE EInv OBVIOUS
<1>1. channel = <<>> /\ Len(channel) = 0 /\ accepted = {} /\ cliIds = {} /\ srvIds = {}
  BY DEF Init
<1>2. srv.pc = "loop" /\ \A c \in Client : client[c].pc = "idle" BY DEF Init
<1>3. Attempts /\ Ids /\ Waiting BY <1>1, <1>2 DEF Init, Attempts, Ids, Waiting
<1>4. Once BY <1>1 DEF Once
<1>5. Exchanged BY <1>2 DEF Init, Exchanged
<1> QED BY <1>3, <1>4, <1>5 DEF EInv

LEMMA NextEInv ==
    ASSUME TInv, EInv, [Next]_vars
    PROVE  EInv'
<1>1. ASSUME NEW c \in Client, Starts(c) \/ ClientEffect(c) PROVE EInv'
  <2>1. Attempts' /\ Ids' BY <1>1, ClientAttempts, ClientIds
  <2>2. Waiting' /\ Once' BY <1>1, ClientWaiting, ClientOnce
  <2>3. Exchanged' BY <1>1, ClientExchanged
  <2> QED BY <2>1, <2>2, <2>3 DEF EInv
<1>2. CASE ServerEffect
  <2>1. Attempts' BY <1>2, Steps, ServerAttempts
  <2>2. Ids' BY <1>2 DEF ServerEffect, CliVars, EInv, Ids, Owner, Try
  <2>3. Waiting' /\ Once' /\ Exchanged' BY <1>2, ServerWaiting, ServerOnce, ServerExchanged
  <2> QED BY <2>1, <2>2, <2>3 DEF EInv
<1>3. CASE UNCHANGED vars
  <2> USE <1>3 DEF vars, EInv
  <2>1. Attempts' BY DEF Attempts, Made, Owner
  <2>2. Ids' /\ Waiting' BY DEF Ids, Waiting, Owner, Try
  <2>3. Once' BY DEF Once, EstablishedAt, Past, Owner
  <2>4. Exchanged' BY DEF Exchanged, Past, Owner
  <2> QED BY <2>1, <2>2, <2>3, <2>4
<1> QED BY <1>1, <1>2, <1>3, Steps

LEMMA SpecEInv == Spec => [](TInv /\ EInv)
<1>1. Init => TInv /\ EInv BY InitTInv, InitEInv
<1>2. TInv /\ EInv /\ [Next]_vars => TInv' /\ EInv' BY Steps, NextEInv
<1> QED BY <1>1, <1>2, PTL DEF Spec

\* For every number of clients, calls and tries: handleConnection, which takes
\* the next event of the one channel for its own, finds no other attempt's
\* ESTABLISHED there.
THEOREM EstablishedEventsAreOurs == Spec => []EstablishedIsOurs
<1>1. TInv /\ EInv => EstablishedIsOurs
  <2> SUFFICES ASSUME TInv, EInv, NEW e \in Events("established")
               PROVE  srv.pc = "accept" /\ srv.at = e[2]
    BY DEF EstablishedIsOurs
  <2>1. PICK i \in DOMAIN channel : e = channel[i] BY DEF Events, Range
  <2>2. i \in 1 .. Len(channel) BY SMTT(30), <2>1 DEF TInv, TypeOK
  <2>3. EstablishedAt(i) BY <2>1 DEF Events, EstablishedAt
  <2> QED BY <2>1, <2>2, <2>3 DEF EInv, Once
<1> QED BY <1>1, SpecEInv, PTL

LEMMA MetadataHolds ==
    ASSUME TInv, EInv
    PROVE  MetadataMatches
<1>1. TypeOK /\ Calls /\ Attempts /\ Exchanged BY DEF TInv, EInv
<1>2. ASSUME NEW key \in Key, table[key] # None PROVE remote[table[key]] = table[key][1]
  <2>1. table[key] \in Attempt BY <1>1, <1>2 DEF TypeOK
  <2> QED BY <1>1, <1>2, <2>1 DEF Exchanged
<1>3. ASSUME NEW c \in Client, client[c].pc = "ok"
      PROVE  answer[client[c].call] = Try(c) /\ remote[Try(c)] = client[c].call
  <2>1. client[c].call \in Call /\ caller[client[c].call] = c
    BY <1>1, <1>3, InCall DEF Calls
  <2>2. PICK a \in Attempt : a = answer[client[c].call] /\ a = <<a[1], a[2]>>
    <3>1. answer[client[c].call] \in Attempt BY <1>1, <1>3, <2>1 DEF Exchanged, TypeOK
    <3> QED BY <3>1, AttemptFacts
  <2>3. a # None BY <2>2, AttemptFacts
  <2>4. a[1] = client[c].call /\ remote[a] # None /\ Past(a)
    BY <1>1, <2>1, <2>2, <2>3 DEF Exchanged
  <2>5. a[2] = client[c].try BY <2>1, <2>4 DEF Past, Owner
  <2>6. a = Try(c) BY <2>2, <2>4, <2>5 DEF Try
  <2>7. remote[a] = a[1] BY <1>1, <2>4 DEF Exchanged
  <2> QED BY <2>2, <2>4, <2>6, <2>7
<1> QED BY <1>2, <1>3 DEF MetadataMatches

\* For every number of clients, calls and tries: the metadata an endpoint gets
\* over the shared metadata port is that of the endpoint it is connected to.
THEOREM EndpointsExchangeMetadata == Spec => []MetadataMatches
<1>1. TInv /\ EInv => MetadataMatches BY MetadataHolds
<1> QED BY <1>1, SpecEInv, PTL

----------------------------------------------------------------------------
(***************************************************************************)
(* The server's table                                                      *)
(***************************************************************************)
LEMMA InitSInv == Init => SInv
<1> SUFFICES ASSUME Init PROVE SInv OBVIOUS
<1>1. Len(channel) = 0 /\ cliIds = {} BY DEF Init
<1> QED BY <1>1 DEF SInv, Alone, Ended, Known

LEMMA ClientSInv ==
    ASSUME TInv, EInv, SInv, NEW c \in Client, Starts(c) \/ ClientEffect(c)
    PROVE  SInv'
<1>1. TypeOK /\ Calls /\ Attempts /\ Ids /\ Waiting /\ Once /\ Alone /\ Ended /\ Known
  BY DEF TInv, EInv, SInv
<1>2. UNCHANGED <<srv, accepted, srvIds, answer, table>> BY DEF Starts, ClientEffect, SrvVars
<1>3. \A a \in accepted \cup cliIds : Owner(a)' = Owner(a)
  BY <1>1, Served, OneId, Stays
<1>4. ASSUME Asks(c), ClientEffect(c)
      PROVE  /\ cliIds' = cliIds \cup {Try(c)} /\ ~Made(Try(c))
             /\ Try(c) \notin accepted
  BY <1>1, <1>4, MadeNow, Served DEF Asks
<1>5. ASSUME ~(Asks(c) /\ ClientEffect(c)) PROVE cliIds' \subseteq cliIds
  BY <1>5 DEF Starts, ClientEffect, Leaves, Hears, Goes
<1>6. cliIds' \cap accepted \subseteq cliIds
  BY <1>4, <1>5
<1>7. Alone'
  <2> SUFFICES ASSUME Confirmed', NEW a \in cliIds' \cap accepted, Owner(a)' = (Owner(srv.at))'
               PROVE  a = srv.at
    BY <1>2 DEF Alone
  <2>1. a \in cliIds /\ Owner(a)' = Owner(a) BY <1>3, <1>6
  <2>2. srv.pc # "loop"
    <3>1. CASE srv.pc \in {"meta", "add"} BY <3>1
    <3>2. CASE srv.pc \notin {"meta", "add"}
      <4>1. PICK i \in 1 .. Len(channel') : EstablishedAt(i)' BY <1>2, <3>2 DEF Confirmed
      <4>2. Once' BY ClientOnce
      <4> QED BY <1>2, <4>1, <4>2 DEF Once
    <3> QED BY <3>1, <3>2
  <2>3. (Owner(srv.at))' = Owner(srv.at)
    <3>1. PICK b \in accepted : b = srv.at BY <1>1, <2>2, Served
    <3>2. Owner(b)' = Owner(b) BY <1>3
    <3> QED BY <1>2, <3>1, <3>2 DEF Owner
  <2>4. CASE Confirmed
    BY <1>1, <2>1, <2>3, <2>4 DEF Alone
  <2>5. CASE ~Confirmed
    <3>1. PICK i \in 1 .. Len(channel') : EstablishedAt(i)' BY <1>2, <2>5 DEF Confirmed
    <3>2. ~(i \in 1 .. Len(channel) /\ channel'[i] = channel[i])
      BY <2>5, <3>1 DEF Confirmed, EstablishedAt
    <3>3. ClientEffect(c) BY <3>2 DEF Starts
    <3>4. Hears(c) /\ Try(c) \in srvIds BY <3>1, <3>2, <3>3, NewEvents DEF EstablishedAt
    <3>5. srv.at = Try(c) /\ Owner(Try(c)) = c
      BY <1>1, <3>4, InCall DEF Hears, Waiting
    <3>6. a = Try(Owner(a)) BY <1>1, <2>1, OneId
    <3> QED BY <2>1, <2>3, <3>5, <3>6
  <2> QED BY <2>4, <2>5
<1>8. Ended'
  <2> SUFFICES ASSUME NEW i \in 1 .. Len(channel'), channel'[i][1] = "disconnected"
               PROVE  channel'[i][2] \notin cliIds'
    BY DEF Ended
  <2>1. CASE i \in 1 .. Len(channel) /\ channel'[i] = channel[i]
    <3>1. channel[i][2] \notin cliIds /\ Made(channel[i][2])
      BY <1>1, <2>1 DEF Ended, Attempts
    <3> QED BY <1>4, <1>5, <2>1, <3>1
  <2>2. CASE ~(i \in 1 .. Len(channel) /\ channel'[i] = channel[i])
    <3>1. ClientEffect(c) BY <2>2 DEF Starts
    <3>2. Leaves(c) /\ channel'[i][2] = Try(c) BY <2>2, <3>1, NewEvents
    <3> QED BY <3>2 DEF Leaves
  <2> QED BY <2>1, <2>2
<1>9. Known'
  <2> SUFFICES ASSUME NEW a \in cliIds', answer'[a[1]] = a
               PROVE  (srv'.pc = "add" /\ srv'.at = a) \/ table'[KeyOf[Owner(a)']] = a
    BY DEF Known
  <2>1. a \in cliIds
    <3>1. CASE ~(Asks(c) /\ ClientEffect(c)) BY <1>5, <3>1
    <3>2. CASE Asks(c) /\ ClientEffect(c)
      <4>1. ASSUME a = Try(c) PROVE FALSE
        <5>1. a \in Attempt /\ a[1] \in Call /\ a # None
          BY <1>1, <3>2, <4>1, InCall, AttemptFacts DEF ClientEffect
        <5>2. a \in accepted BY <1>1, <1>2, <5>1, Served
        <5> QED BY <1>4, <3>2, <4>1, <5>2
      <4> QED BY <1>4, <3>2, <4>1
    <3> QED BY <3>1, <3>2
  <2>2. Owner(a)' = Owner(a) BY <1>3, <2>1
  <2> QED BY <1>1, <1>2, <2>1, <2>2 DEF Known
<1> QED BY <1>7, <1>8, <1>9 DEF SInv

LEMMA ServerSInv ==
    ASSUME DistinctKeys, TInv, EInv, SInv, ServerEffect
    PROVE  SInv'
<1>1. TypeOK /\ Calls /\ Serves /\ Attempts /\ Ids /\ Waiting /\ Once /\ Alone /\ Ended /\ Known
  BY DEF TInv, EInv, SInv
<1>2. caller' = caller /\ client' = client /\ cliIds' = cliIds BY DEF ServerEffect, CliVars
<1>3. \A a : Owner(a)' = Owner(a) BY <1>2 DEF Owner
<1>4. Alone'
  <2>1. CASE \E i \in 1 .. Len(channel') : EstablishedAt(i)'
    <3>1. PICK i \in 1 .. Len(channel') : EstablishedAt(i)' BY <2>1
    <3>2. Minor BY <3>1, OldEstablished
    <3>3. PICK j \in 1 .. Len(channel) : channel'[i] = channel[j] BY <3>2 DEF Minor, Within
    <3>4. Confirmed BY <3>1, <3>3 DEF Confirmed, EstablishedAt
    <3> QED BY <1>1, <1>2, <3>2, <3>4 DEF Alone, Minor, Owner
  <2>2. CASE ~(\E i \in 1 .. Len(channel') : EstablishedAt(i)') /\ srv'.pc \in {"meta", "add"}
    <3>1. Confirmed /\ srv'.at = srv.at /\ accepted' = accepted
      <4>1. CASE Confirms
        <5>1. 1 \in 1 .. Len(channel) /\ EstablishedAt(1) BY <1>1, <4>1 DEF Confirms, TypeOK
        <5> QED BY <4>1, <5>1 DEF Confirms, Confirmed
      <4>2. CASE Minor \/ Exchanges \/ Removes
        BY <2>2, <4>2 DEF Minor, Exchanges, Removes, Confirmed
      <4> QED BY <2>2, <4>1, <4>2 DEF ServerEffect, Accepts, GivesUp, Adds
    <3> QED BY <1>1, <1>2, <3>1 DEF Alone, Owner
  <2>3. CASE ~Confirmed'
    BY <2>3 DEF Alone
  <2> QED BY <2>1, <2>2, <2>3 DEF Confirmed
<1>5. Ended'
  <2> SUFFICES ASSUME NEW i \in 1 .. Len(channel'), channel'[i][1] = "disconnected"
               PROVE  channel'[i][2] \notin cliIds
    BY <1>2 DEF Ended
  <2>1. \E j \in 1 .. Len(channel) : channel'[i] = channel[j]
    <3>1. CASE Accepts BY <3>1 DEF Accepts
    <3>2. CASE Confirms
      <4>1. Len(channel) \in Nat BY <1>1 DEF TypeOK
      <4>2. i + 1 \in 1 .. Len(channel) BY <3>2, <4>1 DEF Confirms
      <4> QED BY <3>2, <4>2 DEF Confirms
    <3>3. CASE Exchanges BY <3>3 DEF Exchanges
    <3>4. CASE Within(channel', channel) BY <3>4 DEF Within
    <3> QED BY <3>1, <3>2, <3>3, <3>4 DEF ServerEffect, Minor, GivesUp, Adds, Removes
  <2> QED BY <1>1, <2>1 DEF Ended
<1>6. Known'
  <2> SUFFICES ASSUME NEW a \in cliIds, answer'[a[1]] = a
               PROVE  (srv'.pc = "add" /\ srv'.at = a) \/ table'[KeyOf[Owner(a)]] = a
    BY <1>2 DEF Known, Owner
  <2>1. /\ a \in Attempt /\ a[1] \in Call /\ a # None /\ Owner(a) \in Client
        /\ KeyOf[Owner(a)] \in Key
    BY <1>1, OneId, AttemptFacts DEF Key
  <2>2. answer[a[1]] = a => a \in accepted BY <1>1, <2>1, Served
  <2>3. CASE Exchanges
    <3>1. srv.at \in Attempt /\ srv.at[1] \in Call
      BY <1>1, <2>3, AttemptFacts DEF Serves, Exchanges, TypeOK
    <3>2. CASE a[1] = srv.at[1]
      BY <1>1, <2>1, <2>3, <3>1, <3>2 DEF Exchanges, TypeOK
    <3>3. CASE a[1] # srv.at[1]
      <4>1. answer[a[1]] = a BY <1>1, <2>1, <2>3, <3>1, <3>3 DEF Exchanges, TypeOK
      <4> QED BY <1>1, <2>3, <4>1 DEF Known, Exchanges
    <3> QED BY <3>2, <3>3
  <2>4. CASE Adds
    <3>1. answer[a[1]] = a BY <2>4 DEF Adds
    <3>2. a \in accepted BY <2>2, <3>1
    <3>3. srv.pc = "add" /\ Confirmed BY <2>4 DEF Adds, Confirmed
    <3>4. srv.at \in accepted /\ Owner(srv.at) \in Client
      <4>1. srv.at \in accepted /\ srv.at[1] \in 1 .. Len(caller) BY <1>1, <3>3, Served
      <4>2. caller \in Seq(Client) BY <1>1 DEF TypeOK
      <4> QED BY <4>1, <4>2 DEF Owner
    <3>5. table' = [table EXCEPT ![KeyOf[Owner(srv.at)]] = srv.at] BY <2>4 DEF Adds
    <3>6. CASE a = srv.at BY <1>1, <2>1, <3>5, <3>6 DEF TypeOK
    <3>7. CASE a # srv.at
      <4>1. Owner(a) # Owner(srv.at) BY <1>1, <3>2, <3>3, <3>7 DEF Alone
      <4>2. KeyOf[Owner(a)] # KeyOf[Owner(srv.at)] BY <2>1, <3>4, <4>1 DEF DistinctKeys
      <4>3. table[KeyOf[Owner(a)]] = a BY <1>1, <3>1, <3>7 DEF Known
      <4> QED BY <1>1, <2>1, <3>5, <4>2, <4>3 DEF TypeOK
    <3> QED BY <3>6, <3>7
  <2>5. CASE Removes
    <3>1. answer[a[1]] = a /\ srv.pc = "loop" BY <2>5 DEF Removes
    <3>2. table[KeyOf[Owner(a)]] = a BY <1>1, <3>1 DEF Known
    <3>3. 1 \in 1 .. Len(channel) /\ channel[1][1] = "disconnected" BY <1>1, <2>5 DEF Removes, TypeOK
    <3>4. channel[1][2] # a BY <1>1, <3>3 DEF Ended
    <3>5. KeyOf[Owner(a)] # KeyOf[Owner(channel[1][2])] BY <2>5, <3>2, <3>4 DEF Removes
    <3> QED BY <1>1, <2>1, <2>5, <3>2, <3>5 DEF Removes, TypeOK
  <2>6. CASE Accepts \/ Minor \/ GivesUp \/ Confirms
    <3>1. answer' = answer /\ table' = table BY <2>6 DEF Accepts, Minor, GivesUp, Confirms
    <3>2. (srv.pc = "add" /\ srv.at = a) \/ table[KeyOf[Owner(a)]] = a BY <1>1, <3>1 DEF Known
    <3> QED BY <2>6, <3>1, <3>2 DEF Accepts, Minor, Confirms, GivesUp
  <2> QED BY <2>3, <2>4, <2>5, <2>6 DEF ServerEffect
<1> QED BY <1>4, <1>5, <1>6 DEF SInv

\* For every number of clients, calls and tries, if no two clients have the same
\* ip and listen port: a connection that a client holds is the one the server
\* has under the client's key once the listen loop is done with it, also when
\* the client came back before the server saw its DISCONNECTED.
THEOREM ServerKnowsItsClients == DistinctKeys => (Spec => []ServerKnows)
<1> SUFFICES ASSUME DistinctKeys PROVE Spec => []ServerKnows OBVIOUS
<1> DEFINE I == TInv /\ EInv /\ SInv
<1>1. Init => I BY InitTInv, InitEInv, InitSInv
<1>2. I /\ [Next]_vars => I'
  <2> SUFFICES ASSUME I, [Next]_vars PROVE I' OBVIOUS
  <2>1. TInv' /\ EInv' BY Steps, NextEInv
  <2>2. ASSUME NEW c \in Client, Starts(c) \/ ClientEffect(c) PROVE SInv' BY <2>2, ClientSInv
  <2>3. CASE ServerEffect
    <3>1. TInv /\ EInv /\ SInv /\ ServerEffect /\ DistinctKeys BY <2>3
    <3> QED BY <2>1, <3>1, ServerSInv
  <2>4. CASE UNCHANGED vars
    <3> USE <2>4 DEF vars, SInv
    <3>1. Alone' BY DEF Alone, Confirmed, EstablishedAt, Owner
    <3>2. Ended' BY DEF Ended
    <3>3. Known' BY DEF Known, Owner
    <3> QED BY <2>1, <3>1, <3>2, <3>3
  <2> QED BY <2>1, <2>2, <2>3, <2>4, Steps
<1>3. I => ServerKnows
  <2> SUFFICES ASSUME I, NEW c \in Client, client[c].pc = "ok", srv.at # Try(c)
               PROVE  table[KeyOf[c]] = Try(c)
    BY DEF ServerKnows
  <2>1. MetadataMatches BY MetadataHolds
  <2>2. answer[client[c].call] = Try(c) BY <2>1 DEF MetadataMatches
  <2>3. Try(c) \in cliIds BY DEF EInv, Ids
  <2>4. Try(c)[1] = client[c].call /\ Owner(Try(c)) = c BY InCall DEF TInv
  <2> QED BY <2>2, <2>3, <2>4 DEF SInv, Known
<1> QED BY <1>1, <1>2, <1>3, PTL DEF Spec
=============================================================================
