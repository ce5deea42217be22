-------------------------- MODULE ConnectorProofs --------------------------
(***************************************************************************)
(* For any connections, servers, maps and hooks, and whatever the clients  *)
(* ask: Stop and addConnector overlook no connection, every variable keeps *)
(* its type, and no request is executed more than twice.                   *)
(***************************************************************************)
EXTENDS Connector, FiniteSetTheorems, SequenceTheorems, TLAPS

ReadPcs == {"none", "accepted", "refuse", "read", "upgrade", "handle", "exit",
            "drop", "close", "gone"}
SockStates == {"none", "backlog", "open", "shut", "closed"}

\* The types the argument needs; of h only that it is a function.
Types ==
  /\ registered \subseteq Conns
  /\ sock \in [Conns -> SockStates]
  /\ rpc \in [Conns -> ReadPcs]
  /\ cur \in [Conns -> Nat]
  /\ h = [r \in Requests |-> h[r]]

\* A connection that has not been accepted is in no goroutine's hands.
NotDialled ==
  \A c \in Conns :
    sock[c] \in {"none", "backlog"} => rpc[c] = "none" /\ c \notin registered

Inv == Types /\ NotDialled /\ OneSynchronous /\ NoneOverlooked

\* What a step of a handler does to the state of Inv: it concerns a call that has
\* not returned, and the reading goroutine only if the call returns.
HandlerShape(c, i) ==
  /\ UNCHANGED <<closed, registered, sock, cur, script>>
  /\ h[<<c, i>>].pc \notin {"none", "done"}
  /\ \E f : h' = [h EXCEPT ![<<c, i>>] = f]
  /\ rpc' = rpc \/ Finish(c, i)

LEMMA HandlerSteps ==
  ASSUME NEW c, NEW i, Handle(c, i)
  PROVE  HandlerShape(c, i)
<1> USE DEF HandlerFrame, containerVars, HandlerShape
<1>1. ASSUME NEW p, NEW f, Step(c, i, p, f) PROVE \E g : h' = [h EXCEPT ![<<c, i>>] = g]
  BY <1>1 DEF Step
<1>2. ASSUME Finish(c, i) PROVE \E g : h' = [h EXCEPT ![<<c, i>>] = g]
  BY <1>2 DEF Finish
<1>3. ASSUME NEW f, BadGateway(c, i, f) PROVE \E g : h' = [h EXCEPT ![<<c, i>>] = g]
  BY <1>1, <1>3 DEF BadGateway
<1>4. ASSUME NEW f, Retry(c, i, f) PROVE \E g : h' = [h EXCEPT ![<<c, i>>] = g]
  BY <1>1, <1>3, <1>4 DEF Retry
<1>5. ASSUME NEW u, NEW f, Connected(c, i, u, f)
      PROVE \E g : h' = [h EXCEPT ![<<c, i>>] = g]
  BY <1>1, <1>5 DEF Connected
<1>a. CASE Route(c, i)              BY <1>a, <1>1 DEF Route
<1>b. CASE Send(c, i)               BY <1>b, <1>1, <1>2 DEF Send
<1>c. CASE Lookup(c, i)             BY <1>c, <1>1, <1>5 DEF Lookup
<1>d. CASE Dial(c, i)               BY <1>d, <1>3, <1>5 DEF Dial
<1>e. CASE UpgradeServer2TLS(c, i)  BY <1>e, <1>1, <1>2, <1>3 DEF UpgradeServer2TLS
<1>f. CASE WriteRequest(c, i)       BY <1>f, <1>1, <1>4 DEF WriteRequest
<1>g. CASE ReadResponse(c, i)       BY <1>g, <1>1, <1>4 DEF ReadResponse
<1>h. CASE ApplyHooks(c, i)         BY <1>h, <1>1 DEF ApplyHooks, InjectHTML
<1>i. CASE Handshake(c, i)          BY <1>i, <1>1, <1>2 DEF Handshake
<1>j. CASE TunnelEnds(c, i)         BY <1>j, <1>2 DEF TunnelEnds
<1>k. QED
  BY <1>a, <1>b, <1>c, <1>d, <1>e, <1>f, <1>g, <1>h, <1>i, <1>j DEF Handle

\* A handler keeps Inv.
LEMMA HandlerKeeps ==
  ASSUME NEW c \in Conns, NEW i \in 1..MaxLen, Inv, HandlerShape(c, i)
  PROVE  Inv'
<1> USE DEF Inv, HandlerShape
<1>1. PICK f : h' = [h EXCEPT ![<<c, i>>] = f]
  OBVIOUS
<1>2. \A r \in Requests : r # <<c, i>> => h'[r] = h[r]
  BY <1>1 DEF Types
<1>3. <<c, i>> \in Requests
  BY DEF Requests
<1>4. Synchronous(Req(c, i)) => rpc[c] = "handle" /\ cur[c] = i
  BY DEF OneSynchronous
<1>5. CASE rpc' = rpc
  <2>1. Types'  BY <1>1, <1>5 DEF Types
  <2>2. OneSynchronous'
    <3> SUFFICES ASSUME NEW d \in Conns, NEW j \in 1..MaxLen,
                        h'[<<d, j>>].pc \notin {"none", "done"}, Synchronous(Req(d, j))'
                 PROVE  rpc'[d] = "handle" /\ cur'[d] = j
      BY DEF OneSynchronous
    <3>1. Synchronous(Req(d, j))  BY DEF Synchronous, Req
    <3>2. CASE <<d, j>> = <<c, i>>  BY <1>4, <1>5, <3>1, <3>2
    <3>3. CASE <<d, j>> # <<c, i>>
      <4>1. h'[<<d, j>>] = h[<<d, j>>]  BY <1>2, <3>3 DEF Requests
      <4>2. QED BY <1>5, <3>1, <4>1 DEF OneSynchronous
    <3>4. QED BY <3>2, <3>3
  <2>3. NotDialled' /\ NoneOverlooked'  BY <1>5 DEF NotDialled, NoneOverlooked
  <2>4. QED BY <2>1, <2>2, <2>3
<1>6. CASE Finish(c, i)
  <2>1. /\ h'[<<c, i>>].pc = "done"
        /\ rpc' = IF Synchronous(Req(c, i)) THEN [rpc EXCEPT ![c] = "read"] ELSE rpc
    BY <1>3, <1>6 DEF Finish, Types, Unread
  <2>2. Types'  BY <1>1, <2>1 DEF Types, ReadPcs
  <2>3. OneSynchronous'
    <3> SUFFICES ASSUME NEW d \in Conns, NEW j \in 1..MaxLen,
                        h'[<<d, j>>].pc \notin {"none", "done"}, Synchronous(Req(d, j))'
                 PROVE  rpc'[d] = "handle" /\ cur'[d] = j
      BY DEF OneSynchronous
    <3>1. Synchronous(Req(d, j))  BY DEF Synchronous, Req
    <3>2. <<d, j>> # <<c, i>>  BY <2>1
    <3>3. h'[<<d, j>>] = h[<<d, j>>]  BY <1>2, <3>2 DEF Requests
    <3>4. rpc[d] = "handle" /\ cur[d] = j  BY <3>1, <3>3 DEF OneSynchronous
    <3>5. CASE d = c /\ Synchronous(Req(c, i))
      BY <1>4, <3>2, <3>4, <3>5
    <3>6. CASE ~(d = c /\ Synchronous(Req(c, i)))
      BY <2>1, <3>4, <3>6 DEF Types
    <3>7. QED BY <3>5, <3>6
  <2>4. NoneOverlooked'
    <3>1. \A d \in Conns : rpc[d] = "refuse" => rpc'[d] = "refuse"
      BY <1>4, <2>1 DEF Types
    <3>2. QED BY <3>1 DEF NoneOverlooked, Types
  <2>5. NotDialled'
    <3>1. \A d \in Conns : rpc[d] = "none" => rpc'[d] = "none"
      BY <1>4, <2>1 DEF Types
    <3>2. QED BY <3>1 DEF NotDialled
  <2>6. QED BY <2>2, <2>3, <2>4, <2>5
<1>7. QED BY <1>5, <1>6

\* So do the steps of addConnector.
LEMMA ReaderKeeps ==
  ASSUME NEW c \in Conns, Inv, AddConnector(c)
  PROVE  Inv'
<1> USE DEF Inv, Types, NotDialled, ReadPcs, SockStates, ReadFrame, Goto, containerVars
<1>1. CASE Register(c)
  <2>1. Types'  BY <1>1 DEF Register
  <2>2. OneSynchronous'  BY SMTT(20), <1>1 DEF Register, OneSynchronous, Synchronous, Req
  <2>3. NotDialled' /\ NoneOverlooked'  BY <1>1 DEF Register, NoneOverlooked
  <2>4. QED BY <2>1, <2>2, <2>3
<1>2. CASE Refuse(c)
  <2>1. Types'  BY <1>2 DEF Refuse
  <2>2. OneSynchronous'  BY <1>2 DEF Refuse, OneSynchronous, Synchronous, Req
  <2>3. NotDialled' /\ NoneOverlooked'  BY <1>2 DEF Refuse, NoneOverlooked
  <2>4. QED BY <2>1, <2>2, <2>3
<1>3. CASE ReadRequest(c)
  <2> DEFINE i == cur[c] + 1
  <2>1. /\ rpc[c] = "read" /\ cur' = [cur EXCEPT ![c] = i]
        /\ \/ h' = [h EXCEPT ![<<c, i>>].pc = "route"]
              /\ \/ Synchronous(Req(c, i)) /\ rpc' = [rpc EXCEPT ![c] = "handle"]
                 \/ ~Synchronous(Req(c, i)) /\ rpc' = rpc
           \/ h' = h /\ rpc' \in {[rpc EXCEPT ![c] = p] : p \in {"upgrade", "exit"}}
        /\ UNCHANGED <<closed, registered, sock, script>>
    BY <1>3 DEF ReadRequest
  <2>2. Types'
    <3>1. cur' \in [Conns -> Nat] /\ rpc' \in [Conns -> ReadPcs]  BY <2>1
    <3>2. h' = [r \in Requests |-> h'[r]]  BY <2>1
    <3>3. QED BY <2>1, <3>1, <3>2
  <2>3. OneSynchronous'
    <3> SUFFICES ASSUME NEW d \in Conns, NEW j \in 1..MaxLen,
                        h'[<<d, j>>].pc \notin {"none", "done"}, Synchronous(Req(d, j))'
                 PROVE  rpc'[d] = "handle" /\ cur'[d] = j
      BY DEF OneSynchronous
    <3>1. Synchronous(Req(d, j)) /\ <<d, j>> \in Requests
      BY <2>1 DEF Synchronous, Req, Requests
    <3>2. CASE <<d, j>> = <<c, i>> /\ h' # h
      BY <2>1, <3>1, <3>2
    <3>3. CASE ~(<<d, j>> = <<c, i>> /\ h' # h)
      <4>1. h'[<<d, j>>] = h[<<d, j>>]  BY <2>1, <3>1, <3>3
      <4>2. rpc[d] = "handle" /\ cur[d] = j  BY <3>1, <4>1 DEF OneSynchronous
      <4>3. d # c  BY <2>1, <4>2
      <4>4. QED BY <2>1, <4>2, <4>3
    <3>4. QED BY <3>2, <3>3
  <2>4. NotDialled' /\ NoneOverlooked'  BY <2>1 DEF NoneOverlooked
  <2>5. QED BY <2>2, <2>3, <2>4
<1>4. CASE ReadFails(c)
  BY <1>4 DEF ReadFails, OneSynchronous, Synchronous, Req, NoneOverlooked
<1>5. CASE UpgradeClient2Tls(c)
  <2>1. /\ rpc[c] = "upgrade" /\ rpc' \in {[rpc EXCEPT ![c] = p] : p \in {"read", "exit"}}
        /\ UNCHANGED <<closed, registered, sock, cur, h, script>>
    BY <1>5 DEF UpgradeClient2Tls
  <2>2. Types' /\ NotDialled' /\ NoneOverlooked'  BY <2>1 DEF NoneOverlooked
  <2>3. OneSynchronous'  BY SMTT(20), <2>1 DEF OneSynchronous, Synchronous, Req
  <2>4. QED BY <2>2, <2>3
<1>6. CASE Unregister(c)
  BY <1>6 DEF Unregister, OneSynchronous, Synchronous, Req, NoneOverlooked
<1>7. CASE DropServers(c)
  BY ZenonT(40), <1>7 DEF DropServers, clientVars, OneSynchronous, Synchronous, Req, NoneOverlooked
<1>8. CASE CloseClient(c)
  <2>1. Types'  BY <1>8 DEF CloseClient
  <2>2. OneSynchronous'
    <3>1. rpc[c] = "close" /\ UNCHANGED <<cur, script, h>> /\ rpc' = [rpc EXCEPT ![c] = "gone"]
      BY <1>8 DEF CloseClient
    <3>2. \A d \in Conns : rpc[d] = "handle" => rpc'[d] = "handle"
      BY <3>1 DEF Types
    <3>3. \A d \in Conns, j \in 1..MaxLen : Synchronous(Req(d, j))' <=> Synchronous(Req(d, j))
      BY <3>1 DEF Synchronous, Req
    <3> HIDE DEF Inv
    <3>4. OneSynchronous
      BY DEF Inv
    <3>5. QED BY <3>1, <3>2, <3>3, <3>4 DEF OneSynchronous
  <2>3. NotDialled' /\ NoneOverlooked'  BY <1>8 DEF CloseClient, NoneOverlooked
  <2>4. QED BY <2>1, <2>2, <2>3
<1>9. QED
  BY <1>1, <1>2, <1>3, <1>4, <1>5, <1>6, <1>7, <1>8 DEF AddConnector

\* The others leave the goroutines of Inv alone, and no closed connection opens again.
LEMMA OthersKeep ==
  ASSUME Inv, UNCHANGED <<closed, registered, rpc, cur, h, script>>,
         sock' \in [Conns -> SockStates],
         \A d \in Conns : sock[d] = "closed" => sock'[d] = "closed",
         \A d \in Conns : sock'[d] \in {"none", "backlog"} => sock[d] \in {"none", "backlog"}
  PROVE  Inv'
<1>1. Types'  BY DEF Inv, Types
<1>2. OneSynchronous'  BY DEF Inv, OneSynchronous, Synchronous, Req
<1>3. NotDialled' /\ NoneOverlooked'  BY DEF Inv, Types, NotDialled, NoneOverlooked
<1>4. QED BY <1>1, <1>2, <1>3 DEF Inv

\* Start and Stop keep Inv.
LEMMA ContainerKeeps ==
  ASSUME Inv, Listen \/ Publish \/ AcceptClosed \/ Stop \/ (\E c \in Conns : Accept(c))
  PROVE  Inv'
<1> USE DEF Inv, Types, NotDialled, SockStates, ReadPcs, StartFrame
<1>1. CASE Listen        BY <1>1, OthersKeep DEF Listen
<1>2. CASE Publish       BY <1>2, OthersKeep DEF Publish, WithoutBacklog
<1>3. CASE AcceptClosed  BY <1>3, OthersKeep DEF AcceptClosed
<1>4. CASE Stop
  <2>1. Types'  BY <1>4 DEF Stop, WithoutBacklog
  <2>2. OneSynchronous'  BY <1>4 DEF Stop, OneSynchronous, Synchronous, Req
  <2>3. NotDialled' /\ NoneOverlooked'  BY <1>4 DEF Stop, WithoutBacklog, NoneOverlooked
  <2>4. QED BY <2>1, <2>2, <2>3
<1>5. ASSUME NEW c \in Conns, Accept(c) PROVE Inv'
  <2>1. Types'  BY <1>5 DEF Accept, containerVars
  <2>2. OneSynchronous'
    <3>1. \A d \in Conns : rpc[d] = "handle" /\ d # c => rpc'[d] = "handle"
      BY <1>5 DEF Accept
    <3>2. rpc[c] # "handle"  BY <1>5 DEF Accept
    <3>3. QED BY SMTT(20), <1>5, <3>1, <3>2 DEF Accept, OneSynchronous, Synchronous, Req
  <2>3. NotDialled' /\ NoneOverlooked'  BY <1>5 DEF Accept, containerVars, NoneOverlooked
  <2>4. QED BY <2>1, <2>2, <2>3
<1>6. QED BY <1>1, <1>2, <1>3, <1>4, <1>5

\* The writer, the clients and the servers keep Inv.
LEMMA EnvironmentKeeps ==
  ASSUME Inv,
         \/ \E c \in Conns : \/ Writer(c) \/ ClientDials(c) \/ ClientAsks(c)
                             \/ ClientLeaves(c) \/ DeadlinePasses(c)
         \/ \E u \in DOMAIN ups : UpstreamServes(u) \/ UpstreamDies(u)
         \/ UNCHANGED vars
  PROVE  Inv'
<1> USE DEF Inv, Types, SockStates, containerVars, readVars, clientVars
<1>1. ASSUME NEW c \in Conns, Writer(c) PROVE Inv'
  <2>1. /\ UNCHANGED <<closed, registered, rpc, cur, h, script>>
        /\ sock' = sock \/ sock' = [sock EXCEPT ![c] = "closed"]
    BY <1>1 DEF Writer, WriterFrame, WriteReply, WriteBody, DrainBody, WriterPanics,
                WriterRecovers, WriterEnds
  <2>2. QED BY <2>1, OthersKeep
<1>2. ASSUME NEW c \in Conns, ClientDials(c) PROVE Inv'
  BY <1>2, OthersKeep DEF ClientDials, EnvFrame
<1>3. ASSUME NEW c \in Conns, ClientLeaves(c) PROVE Inv'
  BY <1>3, OthersKeep DEF ClientLeaves, EnvFrame
<1>4. ASSUME NEW c \in Conns, ClientAsks(c) \/ DeadlinePasses(c) PROVE Inv'
  BY <1>4, OthersKeep DEF ClientAsks, DeadlinePasses, EnvFrame
<1>5. ASSUME NEW u, UpstreamServes(u) \/ UpstreamDies(u) PROVE Inv'
  BY <1>5, OthersKeep DEF UpstreamServes, UpstreamDies, EnvFrame
<1>6. CASE UNCHANGED vars
  BY <1>6, OthersKeep DEF vars
<1>7. QED BY <1>1, <1>2, <1>3, <1>4, <1>5, <1>6

\* Inv is inductive.
THEOREM Invariance == Spec => []Inv
<1>1. Init => Inv
  BY DEF Init, Inv, Types, NotDialled, OneSynchronous, NoneOverlooked, SockStates,
         ReadPcs, Requests, Unread
<1>2. Inv /\ [Next]_vars => Inv'
  <2> SUFFICES ASSUME Inv, [Next]_vars PROVE Inv'
    OBVIOUS
  <2>1. CASE Listen \/ Publish \/ AcceptClosed \/ Stop \/ (\E c \in Conns : Accept(c))
    BY <2>1, ContainerKeeps
  <2>2. ASSUME NEW c \in Conns, AddConnector(c) PROVE Inv'
    BY <2>2, ReaderKeeps
  <2>3. ASSUME NEW c \in Conns, NEW i \in 1..MaxLen, Handle(c, i) PROVE Inv'
    BY <2>3, HandlerSteps, HandlerKeeps
  <2>4. CASE \/ \E c \in Conns : \/ Writer(c) \/ ClientDials(c) \/ ClientAsks(c)
                                  \/ ClientLeaves(c) \/ DeadlinePasses(c)
             \/ \E u \in DOMAIN ups : UpstreamServes(u) \/ UpstreamDies(u)
             \/ UNCHANGED vars
    BY <2>4, EnvironmentKeeps
  <2>5. QED BY <2>1, <2>2, <2>3, <2>4 DEF Next, Finished
<1>3. QED BY <1>1, <1>2, PTL DEF Spec

\* However many connections are accepted while Stop runs, each one that is registered
\* afterwards is closed, or about to be closed by addConnector (core/mitm.go:123-196).
THEOREM NoConnectionOverlooked == Spec => []NoneOverlooked
<1>1. Inv => NoneOverlooked
  BY DEF Inv
<1>2. QED BY <1>1, Invariance, PTL

\* A handler that the reading goroutine runs itself is that of its last request.
THEOREM SynchronousIsLast == Spec => []OneSynchronous
<1>1. Inv => OneSynchronous
  BY DEF Inv
<1>2. QED BY <1>1, Invariance, PTL

-----------------------------------------------------------------------------
(* Types *)

Parts == [part : {"head", "body"}, of : Requests]

Connection ==
  [st : {"open", "gone", "closed"}, tls : BOOLEAN, inq : Seq(Requests), out : Seq(Parts)]

\* Responses and calls of the handler function when there are n upstream connections:
\* what is still to be read comes from one of them.
Responses(n) ==
  {e \in [as : {"local", "stream", "replace"}, of : Conns \X (0..MaxLen),
          body : Conns \X (0..MaxLen), up : 0..n] : e.as # "local" => e.up # 0}

UsingPcs == {"upgrade", "write", "await", "hooks", "handshake", "tunnel"}

CallRecord(n) ==
  [pc : HandlerPcs, conn : 0..n, try : {1, 2}, drained : BOOLEAN, entry : Responses(n)]

Calls(n) ==
  {f \in CallRecord(n) :
     /\ f.pc \in UsingPcs => f.conn # 0
     /\ f.pc = "hooks" => f.entry.as = "stream"}

\* The types, by part of the state.
StartTypes ==
  /\ closed \in BOOLEAN /\ listening \in BOOLEAN
  /\ startPc \in {"idle", "publish", "accept", "failed", "done"}

ClientTypes ==
  /\ script \in [Conns -> Seq(Request)] /\ \A c \in Conns : Len(script[c]) <= MaxLen
  /\ sent \in [Conns -> Nat] /\ \A c \in Conns : sent[c] <= Len(script[c])
  /\ late \in [Conns -> BOOLEAN]

\* A connection that has been registered had a map, and only then are requests read.
ReadTypes ==
  /\ \A c \in Conns : cur[c] <= sent[c]
  /\ tls \in [Conns -> BOOLEAN]
  /\ mapOf \in [Conns -> Maps \cup {0}]
  /\ \A c \in Conns :
       IF rpc[c] \in {"none", "accepted"} THEN cur[c] = 0 ELSE mapOf[c] \in Maps

\* Only requests that have been read are handled.
CallTypes ==
  /\ h \in [Requests -> Calls(Len(ups))]
  /\ \A c \in Conns, i \in 1..MaxLen : i > cur[c] => h[<<c, i>>].pc = "none"
  /\ \A r \in Requests : h[r].pc = "none" => h[r].try = 1

\* CONNECT is not handled by the handler function.
Routed ==
  \A c \in Conns, i \in 1..MaxLen : h[<<c, i>>].pc # "none" => Req(c, i).kind # "connect"

PoolTypes ==
  /\ ups \in Seq(Connection)
  /\ served \in [Requests -> Nat]
  /\ maps \in [Maps -> [Hosts -> 0..Len(ups)]]
  /\ free \subseteq Maps

WriterTypes ==
  /\ ch \in [Conns -> Seq(Responses(Len(ups)))] /\ \A c \in Conns : Len(ch[c]) <= Cap
  /\ chClosed \in [Conns -> BOOLEAN]
  /\ wpc \in [Conns -> {"none", "idle", "stream", "drain", "panicked", "done"}]
  /\ wcur \in [Conns -> Responses(Len(ups))]
  /\ \A c \in Conns : wpc[c] \in {"stream", "drain"} => wcur[c].as # "local"

Typed ==
  /\ StartTypes /\ ClientTypes /\ ReadTypes /\ CallTypes /\ Routed /\ PoolTypes
  /\ WriterTypes

\* More connections leave the responses and calls what they are.
LEMMA MoreConnections ==
  ASSUME NEW n \in Nat, NEW m \in Nat, n <= m
  PROVE  /\ 0..n \subseteq 0..m /\ Responses(n) \subseteq Responses(m)
         /\ Calls(n) \subseteq Calls(m) /\ Seq(Responses(n)) \subseteq Seq(Responses(m))
<1>1. 0..n \subseteq 0..m
  OBVIOUS
<1>2. Responses(n) \subseteq Responses(m)
  BY <1>1 DEF Responses
<1>3. Calls(n) \subseteq Calls(m)
  BY <1>1, <1>2 DEF Calls, CallRecord
<1>4. Seq(Responses(n)) \subseteq Seq(Responses(m))
  BY <1>2, SeqMonotonic
<1>5. QED BY <1>1, <1>2, <1>3, <1>4

LEMMA LocalResponse ==
  ASSUME NEW n \in Nat, NEW c \in Conns, NEW i \in 0..MaxLen
  PROVE  Local(<<c, i>>) \in Responses(n)
BY DEF Local, Responses

LEMMA TypedIsTypeOK == Inv /\ Typed => TypeOK
<1> SUFFICES ASSUME Inv, Typed PROVE TypeOK
  OBVIOUS
<1> USE DEF Inv, Typed
<1>1. Len(ups) \in Nat
  BY DEF PoolTypes
<1>2. \A e \in Responses(Len(ups)) : EntryOK(e)
  BY DEF Responses, EntryOK
<1>3. \A c \in Conns : sent[c] \in 0..Len(script[c]) /\ cur[c] \in 0..sent[c]
  BY DEF Types, ClientTypes, ReadTypes
<1>4. \A c \in Conns : Len(ch[c]) <= Cap /\ \A k \in 1..Len(ch[c]) : EntryOK(ch[c][k])
  <2> TAKE c \in Conns
  <2>1. ch[c] \in Seq(Responses(Len(ups))) /\ Len(ch[c]) <= Cap
    BY DEF WriterTypes
  <2>2. \A k \in 1..Len(ch[c]) : ch[c][k] \in Responses(Len(ups))
    BY <2>1, ElementOfSeq
  <2>3. QED BY <1>2, <2>1, <2>2
<1>5. \A r \in Requests :
        /\ h[r].pc \in HandlerPcs /\ h[r].conn \in 0..Len(ups) /\ h[r].try \in {1, 2}
        /\ h[r].drained \in BOOLEAN /\ EntryOK(h[r].entry)
  BY <1>2 DEF CallTypes, Calls, CallRecord
<1>6. \A c \in Conns :
        /\ sock[c] \in {"none", "backlog", "open", "shut", "closed"}
        /\ rpc[c] \in {"none", "accepted", "refuse", "read", "upgrade", "handle", "exit",
                       "drop", "close", "gone"}
        /\ mapOf[c] \in Maps \cup {0}
  BY DEF Types, SockStates, ReadPcs, ReadTypes
<1>7. \A c \in Conns : late[c] \in BOOLEAN /\ tls[c] \in BOOLEAN /\ chClosed[c] \in BOOLEAN
  BY DEF ClientTypes, ReadTypes, WriterTypes
<1>8. \A c \in Conns :
        /\ wpc[c] \in {"none", "idle", "stream", "drain", "panicked", "done"}
        /\ EntryOK(wcur[c])
  BY <1>2 DEF WriterTypes
<1>9. /\ closed \in BOOLEAN /\ listening \in BOOLEAN
      /\ startPc \in {"idle", "publish", "accept", "failed", "done"}
      /\ registered \subseteq Conns /\ free \subseteq Maps
      /\ \A m \in Maps : maps[m] \in [Hosts -> 0..Len(ups)]
  BY DEF StartTypes, Types, PoolTypes
<1>10. QED BY <1>3, <1>4, <1>5, <1>6, <1>7, <1>8, <1>9 DEF TypeOK

LEMMA InitTyped == Init => Typed
<1> SUFFICES ASSUME Init PROVE Typed
  OBVIOUS
<1>1. ups = <<>> /\ Len(ups) = 0
  BY DEF Init
<1>2. StartTypes
  BY DEF Init, StartTypes
<1>3. ClientTypes
  <2>1. \A c \in Conns : script[c] \in Seq(Request) /\ Len(script[c]) <= MaxLen
    BY ConnectorAssumption DEF Init
  <2>2. script \in [Conns -> Seq(Request)]
    BY <2>1 DEF Init
  <2>3. QED BY <2>1, <2>2 DEF Init, ClientTypes
<1>4. ReadTypes
  BY DEF Init, ReadTypes
<1>5. CallTypes
  <2>1. \A r \in Requests : Unread(r) \in Calls(0)
    BY ConnectorAssumption DEF Requests, Unread, Local, Calls, CallRecord, Responses, HandlerPcs,
                                UsingPcs
  <2>2. h \in [Requests -> Calls(0)] /\ \A r \in Requests : h[r] = Unread(r)
    BY <2>1 DEF Init
  <2>3. QED BY <1>1, <2>2 DEF CallTypes, Unread, Requests
<1>6. PoolTypes
  BY <1>1 DEF Init, PoolTypes
<1>7. WriterTypes
  <2>1. \A c \in Conns : Local(<<c, 0>>) \in Responses(0)
    BY ConnectorAssumption, LocalResponse
  <2>2. <<>> \in Seq(Responses(0)) /\ Len(<<>>) = 0
    OBVIOUS
  <2>3. QED BY <1>1, <2>1, <2>2, ConnectorAssumption DEF Init, WriterTypes
<1>8. Routed
  BY DEF Init, Routed, Requests, Unread
<1>9. QED BY <1>2, <1>3, <1>4, <1>5, <1>6, <1>7, <1>8 DEF Typed


\* What a step leaves alone keeps its types, also when there are more connections.
LEMMA Unaffected ==
  ASSUME Typed, Len(ups') \in Nat, Len(ups) <= Len(ups')
  PROVE  /\ UNCHANGED <<h, cur>> => CallTypes'
         /\ UNCHANGED <<ch, chClosed, wpc, wcur>> => WriterTypes'
         /\ UNCHANGED maps => maps' \in [Maps -> [Hosts -> 0..Len(ups')]]
<1> USE DEF Typed
<1>1. Len(ups) \in Nat
  BY DEF PoolTypes
<1>2. /\ 0..Len(ups) \subseteq 0..Len(ups') /\ Responses(Len(ups)) \subseteq Responses(Len(ups'))
      /\ Calls(Len(ups)) \subseteq Calls(Len(ups'))
      /\ Seq(Responses(Len(ups))) \subseteq Seq(Responses(Len(ups')))
  BY <1>1, MoreConnections
<1>3. UNCHANGED <<h, cur>> => CallTypes'
  BY <1>2 DEF CallTypes
<1>4. UNCHANGED <<ch, chClosed, wpc, wcur>> => WriterTypes'
  <2> SUFFICES ASSUME UNCHANGED <<ch, chClosed, wpc, wcur>> PROVE WriterTypes'
    OBVIOUS
  <2>1. \A c \in Conns : /\ ch[c] \in Seq(Responses(Len(ups')))
                         /\ wcur[c] \in Responses(Len(ups'))
    BY <1>2 DEF WriterTypes
  <2>2. ch \in [Conns -> Seq(Responses(Len(ups')))] /\ wcur \in [Conns -> Responses(Len(ups'))]
    BY <2>1 DEF WriterTypes
  <2>3. QED BY <2>2 DEF WriterTypes
<1>5. UNCHANGED maps => maps' \in [Maps -> [Hosts -> 0..Len(ups')]]
  BY <1>2 DEF PoolTypes
<1>6. QED BY <1>3, <1>4, <1>5

\* In particular when there are not.
LEMMA SameConnections ==
  ASSUME Typed, UNCHANGED ups
  PROVE  /\ UNCHANGED <<h, cur>> => CallTypes'
         /\ UNCHANGED <<ch, chClosed, wpc, wcur>> => WriterTypes'
         /\ UNCHANGED <<maps, free, served>> => PoolTypes'
<1>1. Len(ups) \in Nat /\ Len(ups') = Len(ups)
  BY DEF Typed, PoolTypes
<1>2. QED BY <1>1, Unaffected DEF Typed, PoolTypes

\* Start and Stop keep the types.
LEMMA ContainerTyped ==
  ASSUME Inv, Typed, Listen \/ Publish \/ AcceptClosed \/ Stop \/ (\E c \in Conns : Accept(c))
  PROVE  Typed'
<1>1. /\ UNCHANGED <<script, sent, late, cur, tls, mapOf, h, maps, free, ups, served, ch,
                     chClosed, wpc, wcur>>
      /\ \/ UNCHANGED rpc
         \/ \E c \in Conns : rpc[c] = "none" /\ rpc' = [rpc EXCEPT ![c] = "accepted"]
  BY DEF Listen, Publish, AcceptClosed, Stop, Accept, StartFrame, poolVars, upVars, chVars,
         writerVars, Inv, NotDialled
<1>2. StartTypes'
  BY DEF Typed, StartTypes, Listen, Publish, AcceptClosed, Stop, Accept, containerVars
<1>3. ClientTypes'
  BY <1>1 DEF Typed, ClientTypes
<1>4. ReadTypes'
  BY <1>1 DEF Typed, ReadTypes, Inv, Types
<1>5. CallTypes' /\ PoolTypes' /\ WriterTypes'
  BY <1>1, SameConnections
<1>6. Routed'
  BY <1>1 DEF Typed, Routed, Req
<1>7. QED BY <1>2, <1>3, <1>4, <1>5, <1>6 DEF Typed

\* A request that has been read.
LEMMA RequestRead ==
  ASSUME Inv, Typed, NEW c \in Conns, NEW i \in Nat, i > 0, i <= sent[c]
  PROVE  /\ <<c, i>> \in Requests /\ i \in 1..MaxLen /\ i \in 0..MaxLen
         /\ Req(c, i) \in Request /\ Host(c, i) \in Hosts
<1>1. /\ script[c] \in Seq(Request) /\ Len(script[c]) \in Nat /\ Len(script[c]) <= MaxLen
      /\ sent[c] \in Nat /\ sent[c] <= Len(script[c]) /\ MaxLen \in Nat
  BY ConnectorAssumption DEF Typed, ClientTypes
<1>2. i \in 1..Len(script[c]) /\ i \in 1..MaxLen /\ i \in 0..MaxLen
  BY <1>1
<1>3. Req(c, i) \in Request
  BY <1>1, <1>2, ElementOfSeq DEF Req
<1>4. QED BY <1>2, <1>3 DEF Requests, Request, Host

LEMMA ReadRequestTyped ==
  ASSUME Inv, Typed, NEW c \in Conns, ReadRequest(c)
  PROVE  Typed'
<1> DEFINE i == cur[c] + 1
<1>1. /\ rpc[c] = "read" /\ cur[c] \in Nat /\ i \in Nat /\ i > 0 /\ i <= sent[c]
      /\ cur' = [cur EXCEPT ![c] = i]
      /\ h' = h \/ h' = [h EXCEPT ![<<c, i>>].pc = "route"]
      /\ \E p \in ReadPcs \ {"none", "accepted"} : rpc' = [rpc EXCEPT ![c] = p]
      /\ late' = [late EXCEPT ![c] = FALSE]
  <2>1. rpc[c] = "read" /\ cur[c] < sent[c] /\ cur[c] \in Nat /\ sent[c] \in Nat
    BY DEF ReadRequest, Inv, Types, Typed, ClientTypes
  <2>2. rpc' = rpc => rpc' = [rpc EXCEPT ![c] = "read"]
    BY <2>1 DEF Inv, Types
  <2>3. QED BY SMTT(20), <2>1, <2>2 DEF ReadRequest, Goto, ReadPcs
<1>2. UNCHANGED <<closed, startPc, listening, script, sent, tls, mapOf, maps, free, ups, served,
                  ch, chClosed, wpc, wcur>>
  BY DEF ReadRequest, ReadFrame, poolVars, upVars, chVars, writerVars
<1>3. <<c, i>> \in Requests /\ i \in 1..MaxLen
  BY <1>1, RequestRead
<1>4. StartTypes' /\ ClientTypes'
  BY <1>1, <1>2 DEF Typed, StartTypes, ClientTypes
<1>5. ReadTypes'
  BY <1>1, <1>2 DEF Typed, ReadTypes, Inv, Types
<1>6. PoolTypes' /\ WriterTypes'
  BY <1>2, SameConnections
<1>7. CallTypes'
  <2>1. h \in [Requests -> Calls(Len(ups))] /\ Len(ups') = Len(ups)
    BY <1>2 DEF Typed, CallTypes
  <2>2. h[<<c, i>>] \in Calls(Len(ups)) /\ h[<<c, i>>].pc = "none" /\ h[<<c, i>>].try = 1
    BY <1>1, <1>3, <2>1 DEF Typed, CallTypes
  <2>3. PICK f : f = [h[<<c, i>>] EXCEPT !.pc = "route"]
    OBVIOUS
  <2>4. f \in Calls(Len(ups)) /\ f.pc = "route"
    BY <2>2, <2>3 DEF Calls, CallRecord, HandlerPcs, UsingPcs
  <2>5. h' = h \/ h' = [h EXCEPT ![<<c, i>>] = f]
    BY <1>1, <2>3
  <2>6. h' \in [Requests -> Calls(Len(ups))]
    BY <2>1, <2>4, <2>5
  <2>7. \A r \in Requests : h'[r] = h[r] \/ (r = <<c, i>> /\ h'[r].pc = "route")
    BY <2>1, <2>4, <2>5
  <2>8. ASSUME NEW d \in Conns, NEW j \in 1..MaxLen, j > cur'[d] PROVE h'[<<d, j>>].pc = "none"
    <3>1. <<d, j>> \in Requests /\ j \in Nat /\ cur \in [Conns -> Nat]
      BY DEF Requests, Inv, Types
    <3>2. j > cur[d] /\ <<d, j>> # <<c, i>>
      BY <1>1, <2>8, <3>1
    <3>3. QED BY <2>7, <3>1, <3>2 DEF Typed, CallTypes
  <2>9. \A r \in Requests : h'[r].pc = "none" => h'[r].try = 1
    BY <2>7 DEF Typed, CallTypes
  <2>10. QED BY <2>1, <2>6, <2>8, <2>9 DEF CallTypes
<1>8. Routed'
  <2> SUFFICES ASSUME NEW d \in Conns, NEW j \in 1..MaxLen, h'[<<d, j>>].pc # "none"
               PROVE  Req(d, j).kind # "connect"
    BY <1>2 DEF Routed, Req
  <2>1. <<d, j>> \in Requests
    BY DEF Requests
  <2>2. CASE h'[<<d, j>>] = h[<<d, j>>]
    BY <2>2 DEF Typed, Routed
  <2>3. CASE h'[<<d, j>>] # h[<<d, j>>]
    <3>1. h' # h /\ <<d, j>> = <<c, i>>
      BY <1>1, <2>1, <2>3 DEF Inv, Types
    <3>2. Req(c, i).kind # "connect"
      BY <3>1 DEF ReadRequest
    <3>3. QED BY <3>1, <3>2
  <2>4. QED BY <2>2, <2>3
<1>9. QED BY <1>4, <1>5, <1>6, <1>7, <1>8 DEF Typed

\* The clean-up closes connections and empties the map.
LEMMA DropServersTyped ==
  ASSUME Inv, Typed, NEW c \in Conns, DropServers(c)
  PROVE  /\ Typed' /\ Len(ups') = Len(ups) /\ UNCHANGED <<h, served>>
         /\ \A u \in 1..Len(ups) : ups'[u].inq = ups[u].inq
<1>1. /\ rpc[c] = "drop" /\ rpc' = [rpc EXCEPT ![c] = "close"]
      /\ maps' = [maps EXCEPT ![mapOf[c]] = [x \in Hosts |-> 0]]
      /\ free' = free \cup {mapOf[c]}
      /\ UNCHANGED <<closed, startPc, listening, script, sent, late, cur, tls, mapOf, h, served,
                     ch, chClosed, wpc, wcur>>
  BY DEF DropServers, Goto, containerVars, clientVars, chVars, writerVars
<1>2. mapOf[c] \in Maps
  BY <1>1 DEF Typed, ReadTypes
<1>3. ups \in Seq(Connection) /\ Len(ups) \in Nat /\ DOMAIN ups = 1..Len(ups)
  BY DEF Typed, PoolTypes
<1>4. PICK mine : ups' = [u \in DOMAIN ups |->
                            IF u \in mine THEN [ups[u] EXCEPT !.st = "closed", !.out = <<>>]
                                          ELSE ups[u]]
  BY DEF DropServers
<1>5. \A u \in 1..Len(ups) : ups[u] \in Connection
  BY <1>3, ElementOfSeq
<1>6. <<>> \in Seq(Parts)
  OBVIOUS
<1>7. ASSUME NEW u \in 1..Len(ups)
      PROVE  ups'[u] \in Connection /\ ups'[u].inq = ups[u].inq
  <2>1. CASE u \in mine
    <3>1. ups'[u] = [ups[u] EXCEPT !.st = "closed", !.out = <<>>]
      BY <1>3, <1>4, <2>1
    <3>2. QED BY <1>5, <1>6, <3>1 DEF Connection
  <2>2. CASE u \notin mine
    BY <1>3, <1>4, <1>5, <2>2
  <2>3. QED BY <2>1, <2>2
<1>8. ups' \in Seq(Connection) /\ Len(ups') = Len(ups)
  <2>1. DOMAIN ups' = 1..Len(ups) /\ ups' = [u \in 1..Len(ups) |-> ups'[u]]
    BY <1>3, <1>4
  <2>2. QED BY <1>3, <1>7, <2>1, SeqDef
<1>9. CallTypes' /\ WriterTypes'
  BY <1>1, <1>3, <1>8, Unaffected
<1>10. PoolTypes'
  <2>1. maps' \in [Maps -> [Hosts -> 0..Len(ups')]]
    BY <1>1, <1>2, <1>3, <1>8 DEF Typed, PoolTypes
  <2>2. free' \subseteq Maps
    BY <1>1, <1>2 DEF Typed, PoolTypes
  <2>3. QED BY <1>1, <1>8, <2>1, <2>2 DEF Typed, PoolTypes
<1>11. StartTypes' /\ ClientTypes'
  BY <1>1 DEF Typed, StartTypes, ClientTypes
<1>12. ReadTypes'
  BY <1>1 DEF Typed, ReadTypes, Inv, Types
<1>13. Routed'
  BY <1>1 DEF Typed, Routed, Req
<1>14. QED BY <1>1, <1>7, <1>8, <1>9, <1>10, <1>11, <1>12, <1>13 DEF Typed

\* So do the other steps of addConnector.
LEMMA ReaderTyped ==
  ASSUME Inv, Typed, NEW c \in Conns, AddConnector(c)
  PROVE  Typed'
<1> USE DEF ReadFrame, Goto, poolVars, upVars, chVars, writerVars
<1>1. CASE Register(c)
  <2>1. /\ UNCHANGED <<closed, startPc, listening, script, sent, late, cur, tls, h, maps, ups,
                       served, ch, chClosed, wcur>>
        /\ \E m \in free : mapOf' = [mapOf EXCEPT ![c] = m] /\ free' = free \ {m}
        /\ wpc' = [wpc EXCEPT ![c] = "idle"]
        /\ rpc[c] = "accepted"
        /\ \E p \in {"refuse", "read"} : rpc' = [rpc EXCEPT ![c] = p]
    BY <1>1 DEF Register
  <2>2. StartTypes' /\ ClientTypes'
    BY <2>1 DEF Typed, StartTypes, ClientTypes
  <2>3. ReadTypes'
    <3>1. PICK m \in Maps : mapOf' = [mapOf EXCEPT ![c] = m]
      BY <2>1 DEF Typed, PoolTypes
    <3>2. PICK p \in {"refuse", "read"} : rpc' = [rpc EXCEPT ![c] = p]
      BY <2>1
    <3>3. QED BY <2>1, <3>1, <3>2 DEF Typed, ReadTypes, Inv, Types
  <2>4. CallTypes' /\ PoolTypes'
    BY <2>1, SameConnections DEF Typed, PoolTypes
  <2>5. WriterTypes'
    BY <2>1 DEF Typed, WriterTypes
  <2>6. Routed'
    BY <2>1 DEF Typed, Routed, Req
  <2>7. QED BY <2>2, <2>3, <2>4, <2>5, <2>6 DEF Typed
<1>2. CASE Refuse(c) \/ ReadFails(c) \/ UpgradeClient2Tls(c) \/ Unregister(c) \/ CloseClient(c)
  <2>1. /\ UNCHANGED <<closed, startPc, listening, script, sent, late, cur, mapOf, h, maps,
                       free, ups, served, ch, wpc, wcur>>
        /\ rpc[c] \notin {"none", "accepted"}
        /\ \E p \in ReadPcs \ {"none", "accepted"} : rpc' = [rpc EXCEPT ![c] = p]
    BY <1>2 DEF Refuse, ReadFails, UpgradeClient2Tls, Unregister, CloseClient, ReadPcs
  <2>2. /\ tls' = tls \/ tls' = [tls EXCEPT ![c] = TRUE]
        /\ chClosed' = chClosed \/ chClosed' = [chClosed EXCEPT ![c] = TRUE]
    BY <1>2 DEF Refuse, ReadFails, UpgradeClient2Tls, Unregister, CloseClient
  <2>3. StartTypes' /\ ClientTypes'
    BY <2>1 DEF Typed, StartTypes, ClientTypes
  <2>4. tls' \in [Conns -> BOOLEAN]
    BY <2>2 DEF Typed, ReadTypes
  <2>5. ReadTypes'
    BY <2>1, <2>4 DEF Typed, ReadTypes, Inv, Types
  <2>6. CallTypes' /\ PoolTypes'
    BY <2>1, SameConnections
  <2>7. chClosed' \in [Conns -> BOOLEAN]
    BY <2>2 DEF Typed, WriterTypes
  <2>8. WriterTypes'
    BY <2>1, <2>7 DEF Typed, WriterTypes
  <2>9. Routed'
    BY <2>1 DEF Typed, Routed, Req
  <2>10. QED BY <2>3, <2>5, <2>6, <2>8, <2>9 DEF Typed
<1>3. QED
  BY <1>1, <1>2, ReadRequestTyped, DropServersTyped DEF AddConnector


-----------------------------------------------------------------------------
(* What a step of a handler does *)

\* How often a call may still write its request.
BeforePcs == {"none", "route", "early", "lookup", "dial", "upgrade", "write"}

LeftOf(f) ==
  IF f.pc \in BeforePcs THEN 3 - f.try ELSE IF f.pc = "await" THEN 2 - f.try ELSE 0

\* It is about to write it for the second time.
Again(f) == f.try = 2 /\ f.pc \in {"upgrade", "write"}

\* Nothing is written to a connection; one that has been made has been sent nothing.
NothingAsked ==
  \A u \in 1..Len(ups') :
    ups'[u].inq = <<>> \/ (u \in 1..Len(ups) /\ ups'[u].inq = ups[u].inq)

\* Call r becomes f.
Becomes(r, f) ==
  /\ f \in Calls(Len(ups')) /\ f.pc # "none"
  /\ h' = [h EXCEPT ![r] = f]

\* It may not write its request more often than before, and is about to write it again
\* only on a new connection.
Spends(r, f) ==
  /\ LeftOf(f) <= LeftOf(h[r])
  /\ Again(f) => \/ Again(h[r]) /\ f.conn = h[r].conn
                 \/ ups'[f.conn].inq = <<>>

\* The request is written to the call's connection.
Asks(r, f) ==
  /\ h[r].pc = "write" /\ LeftOf(f) = LeftOf(h[r]) - 1 /\ ~Again(f)
  /\ Len(ups') = Len(ups)
  /\ \A u \in 1..Len(ups) : u # h[r].conn => ups'[u].inq = ups[u].inq
  /\ ups'[h[r].conn].inq = Append(ups[h[r].conn].inq, r)

\* Its response is queued for the writer.
Queues(c, i) ==
  /\ Len(ch[c]) < Cap
  /\ ch' = [ch EXCEPT ![c] = Append(@, h[<<c, i>>].entry)]

CallStep(c, i) ==
  /\ UNCHANGED <<closed, startPc, listening, script, sent, cur, tls, mapOf, free, served,
                 chClosed, wpc, wcur>>
  /\ late' \in {late, [late EXCEPT ![c] = FALSE]}
  /\ rpc' \in {rpc, [rpc EXCEPT ![c] = "read"]}
  /\ UNCHANGED ch \/ Queues(c, i)
  /\ ups' \in Seq(Connection) /\ Len(ups) <= Len(ups')
  /\ maps' \in [Maps -> [Hosts -> 0..Len(ups')]]
  /\ \E f : /\ Becomes(<<c, i>>, f)
            /\ \/ NothingAsked /\ Spends(<<c, i>>, f)
               \/ Asks(<<c, i>>, f)

\* A call that has not returned.
LEMMA ActiveCall ==
  ASSUME Inv, Typed, NEW c \in Conns, NEW i \in 1..MaxLen, h[<<c, i>>].pc \notin {"none", "done"}
  PROVE  /\ <<c, i>> \in Requests
         /\ h[<<c, i>>] \in Calls(Len(ups)) /\ Len(ups) \in Nat
         /\ i \in Nat /\ i <= cur[c] /\ cur[c] \in Nat
         /\ Req(c, i) \in Request /\ Host(c, i) \in Hosts /\ Req(c, i).kind # "connect"
         /\ rpc[c] \notin {"none", "accepted"} /\ mapOf[c] \in Maps
         /\ Entry(c, i) \in 0..Len(ups)
         /\ maps \in [Maps -> [Hosts -> 0..Len(ups)]]
<1> USE DEF Typed
<1>1. <<c, i>> \in Requests /\ i \in Nat /\ i > 0 /\ MaxLen \in Nat
  BY ConnectorAssumption DEF Requests
<1>2. h[<<c, i>>] \in Calls(Len(ups)) /\ Len(ups) \in Nat
  BY <1>1 DEF CallTypes, PoolTypes
<1>3. cur[c] \in Nat /\ sent[c] \in Nat /\ cur[c] <= sent[c]
  BY DEF Inv, Types, ClientTypes, ReadTypes
<1>4. i <= cur[c]
  BY <1>1, <1>3 DEF CallTypes
<1>5. Req(c, i) \in Request /\ Host(c, i) \in Hosts
  BY <1>1, <1>3, <1>4, RequestRead
<1>6. rpc[c] \notin {"none", "accepted"} /\ mapOf[c] \in Maps
  BY <1>1, <1>3, <1>4 DEF ReadTypes
<1>7. Entry(c, i) \in 0..Len(ups)
  BY <1>5, <1>6 DEF Entry, PoolTypes
<1>8. QED BY <1>1, <1>2, <1>3, <1>4, <1>5, <1>6, <1>7 DEF Routed, PoolTypes

\* Upstream connection u.
LEMMA ConnectionType ==
  ASSUME Typed
  PROVE  /\ ups \in Seq(Connection) /\ Len(ups) \in Nat /\ DOMAIN ups = 1..Len(ups)
         /\ \A u \in 1..Len(ups) : /\ ups[u] \in Connection
                                   /\ ups[u].inq \in Seq(Requests) /\ ups[u].out \in Seq(Parts)
<1>1. ups \in Seq(Connection) /\ Len(ups) \in Nat /\ DOMAIN ups = 1..Len(ups)
  BY DEF Typed, PoolTypes
<1>2. \A u \in 1..Len(ups) : ups[u] \in Connection
  BY <1>1, ElementOfSeq
<1>3. QED BY <1>1, <1>2 DEF Connection

\* Changing one connection, but not what has been asked on it.
LEMMA OneChanged ==
  ASSUME Typed, NEW u \in 1..Len(ups), NEW f \in Connection, ups' = [ups EXCEPT ![u] = f]
  PROVE  /\ ups' \in Seq(Connection) /\ Len(ups') = Len(ups)
         /\ ups'[u] = f
         /\ \A v \in 1..Len(ups) : v # u => ups'[v] = ups[v]
         /\ f.inq = ups[u].inq => NothingAsked
<1>1. ups \in Seq(Connection) /\ Len(ups) \in Nat
  BY ConnectionType
<1>2. /\ [ups EXCEPT ![u] = f] \in Seq(Connection)
      /\ Len([ups EXCEPT ![u] = f]) = Len(ups)
      /\ \A v \in 1..Len(ups) : [ups EXCEPT ![u] = f][v] = IF v = u THEN f ELSE ups[v]
  BY <1>1, ExceptSeq
<1>3. QED BY <1>2 DEF NothingAsked

\* The next part of an upstream connection is taken.
LEMMA TakenPart ==
  ASSUME Typed, NEW u \in 1..Len(ups), HasPart(u)
  PROVE  /\ Head(ups[u].out).of \in Requests
         /\ Head(ups[u].out).of \in Conns \X (0..MaxLen)
         /\ TakePart(u) => ups' \in Seq(Connection) /\ Len(ups') = Len(ups) /\ NothingAsked
<1>1. ups[u] \in Connection /\ ups[u].out \in Seq(Parts) /\ ups[u].out # <<>>
  BY ConnectionType DEF HasPart
<1>2. Head(ups[u].out) \in Parts /\ Tail(ups[u].out) \in Seq(Parts)
  BY <1>1, HeadTailProperties
<1>3. Head(ups[u].out).of \in Requests /\ Head(ups[u].out).of \in Conns \X (0..MaxLen)
  BY <1>2, ConnectorAssumption DEF Parts, Requests
<1>4. ASSUME TakePart(u)
      PROVE  ups' \in Seq(Connection) /\ Len(ups') = Len(ups) /\ NothingAsked
  <2>1. PICK f : f = [ups[u] EXCEPT !.out = Tail(@)]
    OBVIOUS
  <2>2. f \in Connection /\ f.inq = ups[u].inq
    BY <1>1, <1>2, <2>1 DEF Connection
  <2>3. ups' = [ups EXCEPT ![u] = f]
    BY <1>4, <2>1 DEF TakePart
  <2>4. QED BY <2>2, <2>3, OneChanged
<1>5. QED BY <1>3, <1>4


\* A step of a call that changes no upstream connection.
LEMMA NoTraffic ==
  ASSUME Typed, UNCHANGED ups
  PROVE  /\ ups' \in Seq(Connection) /\ Len(ups') = Len(ups) /\ NothingAsked
         /\ Calls(Len(ups')) = Calls(Len(ups)) /\ CallRecord(Len(ups')) = CallRecord(Len(ups))
         /\ UNCHANGED maps => maps' \in [Maps -> [Hosts -> 0..Len(ups')]]
BY DEF Typed, PoolTypes, NothingAsked

\* The call goes to p.
LEMMA StepBecomes ==
  ASSUME NEW c, NEW i, NEW p \in HandlerPcs \ {"none"}, NEW f \in CallRecord(Len(ups')),
         p \in UsingPcs => f.conn # 0, p = "hooks" => f.entry.as = "stream", Step(c, i, p, f)
  PROVE  \E g : /\ Becomes(<<c, i>>, g) /\ g.pc = p
                /\ g.conn = f.conn /\ g.try = f.try
<1>1. PICK g : g = [f EXCEPT !.pc = p]
  OBVIOUS
<1>2. /\ g \in CallRecord(Len(ups')) /\ g.pc = p /\ g.conn = f.conn /\ g.try = f.try
      /\ g.entry = f.entry
  BY <1>1 DEF CallRecord
<1>3. h' = [h EXCEPT ![<<c, i>>] = g]
  BY <1>1 DEF Step
<1>4. QED BY <1>2, <1>3 DEF Becomes, Calls

\* It returns.
LEMMA FinishBecomes ==
  ASSUME NEW c \in Conns, NEW i \in 1..MaxLen, Finish(c, i), Len(ups') \in Nat
  PROVE  /\ \E g : Becomes(<<c, i>>, g) /\ LeftOf(g) = 0 /\ ~Again(g)
         /\ rpc' \in {rpc, [rpc EXCEPT ![c] = "read"]}
<1>1. PICK g : g = [Unread(<<c, i>>) EXCEPT !.pc = "done"]
  OBVIOUS
<1>2. Local(<<c, i>>) \in Responses(Len(ups'))
  BY LocalResponse, ConnectorAssumption
<1>3. g = [pc |-> "done", conn |-> 0, try |-> 1, drained |-> FALSE, entry |-> Local(<<c, i>>)]
  BY <1>1 DEF Unread
<1>4. g \in Calls(Len(ups')) /\ g.pc = "done"
  BY <1>2, <1>3 DEF Calls, CallRecord, HandlerPcs, UsingPcs
<1>5. h' = [h EXCEPT ![<<c, i>>] = g]
  BY <1>1 DEF Finish
<1>6. LeftOf(g) = 0 /\ ~Again(g)
  BY <1>4 DEF LeftOf, Again, BeforePcs
<1>7. QED BY <1>4, <1>5, <1>6 DEF Becomes, Finish


LEMMA LeftRange ==
  ASSUME NEW n, NEW f \in Calls(n)
  PROVE  /\ LeftOf(f) \in 0..2
         /\ f.pc \in BeforePcs => LeftOf(f) = 3 - f.try
         /\ f.pc = "await" => LeftOf(f) = 2 - f.try
BY DEF LeftOf, Calls, CallRecord, BeforePcs

\* A call that stays or goes on to one of these places, with as many attempts, spends none.
LEMMA GoesOn ==
  ASSUME NEW n, NEW r, h[r] \in Calls(n), h[r].pc \in BeforePcs, NEW m, NEW f \in Calls(m),
         f.try = h[r].try, f.pc \in BeforePcs \cup {"reply"},
         Again(f) => (Again(h[r]) /\ f.conn = h[r].conn) \/ ups'[f.conn].inq = <<>>
  PROVE  Spends(r, f)
<1>1. LeftOf(h[r]) \in 0..2 /\ LeftOf(h[r]) = 3 - h[r].try
  BY LeftRange
<1>2. LeftOf(f) <= LeftOf(h[r])
  BY <1>1 DEF LeftOf, BeforePcs
<1>3. QED BY <1>2 DEF Spends

\* One that is past its attempts has none left to spend.
LEMMA NoneLeft ==
  ASSUME NEW n, NEW r, h[r] \in Calls(n), NEW f, LeftOf(f) = 0, ~Again(f)
  PROVE  Spends(r, f)
<1>1. LeftOf(h[r]) \in 0..2
  BY LeftRange
<1>2. QED BY <1>1 DEF Spends

LEMMA IsPast ==
  ASSUME NEW n, NEW r, h[r] \in Calls(n), NEW f, f.pc \notin BeforePcs \cup {"await"}
  PROVE  Spends(r, f)
<1>1. LeftOf(f) = 0 /\ ~Again(f)
  BY DEF LeftOf, Again, BeforePcs
<1>2. QED BY <1>1, NoneLeft

LEMMA FrameOf ==
  ASSUME NEW c, HandlerFrame(c)
  PROVE  UNCHANGED <<closed, startPc, listening, registered, script, sent, sock, cur, tls, mapOf,
                     free, served, chClosed, wpc, wcur>>
BY DEF HandlerFrame, containerVars, writerVars

\* The steps before a connection is chosen.
LEMMA EarlySteps ==
  ASSUME Inv, Typed, NEW c \in Conns, NEW i \in 1..MaxLen,
         Route(c, i) \/ Send(c, i) \/ Lookup(c, i)
  PROVE  CallStep(c, i)
<1> DEFINE r == <<c, i>>
<1>1. h[r].pc \in {"route", "early", "reply", "lookup"}
  BY DEF Route, Send, Lookup
<1>2. /\ r \in Requests /\ h[r] \in Calls(Len(ups)) /\ h[r] \in CallRecord(Len(ups))
      /\ Req(c, i) \in Request /\ Req(c, i).kind # "connect" /\ Entry(c, i) \in 0..Len(ups)
  BY <1>1, ActiveCall DEF Calls
<1>3. HandlerFrame(c) /\ UNCHANGED <<late, maps, ups>>
  BY DEF Route, Send, Lookup
<1>4. /\ ups' \in Seq(Connection) /\ Len(ups') = Len(ups) /\ Len(ups) \in Nat /\ NothingAsked
      /\ CallRecord(Len(ups')) = CallRecord(Len(ups))
      /\ maps' \in [Maps -> [Hosts -> 0..Len(ups')]]
  BY <1>3, NoTraffic, ConnectionType
<1>5. CASE Route(c, i)
  <2>1. h[r].pc = "route" /\ UNCHANGED <<rpc, ch>>
    BY <1>5 DEF Route
  <2>2. PICK p \in {"reply", "early", "lookup"} : Step(c, i, p, h[r])
    BY <1>2, <1>5 DEF Route, Request
  <2>3. PICK g : Becomes(r, g) /\ g.pc = p /\ g.try = h[r].try
    <3>1. p \in HandlerPcs \ {"none"} /\ p \notin UsingPcs /\ p # "hooks"
      BY DEF HandlerPcs, UsingPcs
    <3>2. h[r] \in CallRecord(Len(ups'))
      BY <1>2, <1>4
    <3>3. QED BY <2>2, <3>1, <3>2, StepBecomes
  <2>4. Spends(r, g)
    BY <1>2, <2>1, <2>3, GoesOn DEF Becomes, BeforePcs, Again
  <2>5. QED BY <1>3, <1>4, <2>1, <2>3, <2>4, FrameOf DEF CallStep
<1>6. CASE Send(c, i)
  <2>1. UNCHANGED ch \/ Queues(c, i)
    BY <1>6 DEF Send, Queues
  <2>2. CASE Finish(c, i)
    <3>1. PICK g : Becomes(r, g) /\ LeftOf(g) = 0 /\ ~Again(g)
      BY <1>4, <2>2, FinishBecomes
    <3>2. Spends(r, g)
      BY <1>2, <3>1, NoneLeft
    <3>3. rpc' \in {rpc, [rpc EXCEPT ![c] = "read"]}
      BY <2>2 DEF Finish
    <3>4. QED BY <1>3, <1>4, <2>1, <3>1, <3>2, <3>3, FrameOf DEF CallStep
  <2>3. CASE h[r].pc = "early" /\ Step(c, i, "lookup", h[r]) /\ UNCHANGED rpc
    <3>1. PICK g : Becomes(r, g) /\ g.pc = "lookup" /\ g.try = h[r].try
      BY <1>2, <1>4, <2>3, StepBecomes DEF HandlerPcs, UsingPcs
    <3>2. Spends(r, g)
      BY <1>2, <2>3, <3>1, GoesOn DEF Becomes, BeforePcs, Again
    <3>3. QED BY <1>3, <1>4, <2>1, <2>3, <3>1, <3>2, FrameOf DEF CallStep
  <2>4. QED BY <1>6, <2>2, <2>3 DEF Send
<1>7. CASE Lookup(c, i)
  <2>1. h[r].pc = "lookup" /\ UNCHANGED <<rpc, ch>>
    BY <1>7 DEF Lookup
  <2>2. CASE Step(c, i, "dial", h[r])
    <3>1. PICK g : Becomes(r, g) /\ g.pc = "dial" /\ g.try = h[r].try
      BY <1>2, <1>4, <2>2, StepBecomes DEF HandlerPcs, UsingPcs
    <3>2. Spends(r, g)
      BY <1>2, <2>1, <3>1, GoesOn DEF Becomes, BeforePcs, Again
    <3>3. QED BY <1>3, <1>4, <2>1, <3>1, <3>2, FrameOf DEF CallStep
  <2>3. CASE Entry(c, i) # 0 /\ h[r].try # 2 /\ Connected(c, i, Entry(c, i), h[r])
    <3>1. PICK f : f = [h[r] EXCEPT !.conn = Entry(c, i)]
      OBVIOUS
    <3>2. f \in CallRecord(Len(ups)) /\ f.conn # 0 /\ f.try = h[r].try
      BY <1>2, <2>3, <3>1 DEF CallRecord
    <3>3. PICK p \in {"upgrade", "write"} : Step(c, i, p, f)
      BY <2>3, <3>1 DEF Connected
    <3>4. PICK g : Becomes(r, g) /\ g.pc = p /\ g.try = h[r].try
      <4>1. p \in HandlerPcs \ {"none"} /\ p # "hooks" /\ f \in CallRecord(Len(ups'))
        BY <1>4, <3>2 DEF HandlerPcs
      <4>2. QED BY <3>2, <3>3, <4>1, StepBecomes
    <3>5. Spends(r, g)
      BY <1>2, <2>1, <2>3, <3>4, GoesOn DEF Becomes, BeforePcs, Again
    <3>6. QED BY <1>3, <1>4, <2>1, <3>4, <3>5, FrameOf DEF CallStep
  <2>4. QED BY <1>7, <2>2, <2>3 DEF Lookup
<1>8. QED BY <1>5, <1>6, <1>7

\* A 502 is to be sent.
LEMMA BadGatewayBecomes ==
  ASSUME NEW c \in Conns, NEW i \in 1..MaxLen, Len(ups') \in Nat, NEW f \in CallRecord(Len(ups')),
         BadGateway(c, i, f)
  PROVE  \E g : Becomes(<<c, i>>, g) /\ g.pc = "reply"
<1>1. PICK e : e = [f EXCEPT !.entry = Local(<<c, i>>)]
  OBVIOUS
<1>2. Local(<<c, i>>) \in Responses(Len(ups'))
  BY LocalResponse, ConnectorAssumption
<1>3. e \in CallRecord(Len(ups'))
  BY <1>1, <1>2 DEF CallRecord
<1>4. Step(c, i, "reply", e)
  BY <1>1 DEF BadGateway
<1>5. QED BY <1>3, <1>4, StepBecomes DEF HandlerPcs, UsingPcs

LEMMA DialStep ==
  ASSUME Inv, Typed, NEW c \in Conns, NEW i \in 1..MaxLen, Dial(c, i)
  PROVE  CallStep(c, i)
<1> DEFINE r == <<c, i>>
           n == Len(ups) + 1
<1>1. h[r].pc = "dial" /\ HandlerFrame(c) /\ UNCHANGED <<late, rpc, ch>>
  BY DEF Dial
<1>2. /\ r \in Requests /\ h[r] \in Calls(Len(ups)) /\ h[r] \in CallRecord(Len(ups))
      /\ Len(ups) \in Nat /\ Host(c, i) \in Hosts /\ mapOf[c] \in Maps
      /\ maps \in [Maps -> [Hosts -> 0..Len(ups)]]
  BY <1>1, ActiveCall DEF Calls
<1>3. CASE BadGateway(c, i, h[r]) /\ UNCHANGED <<maps, ups>>
  <2>1. /\ ups' \in Seq(Connection) /\ Len(ups') = Len(ups) /\ NothingAsked
        /\ CallRecord(Len(ups')) = CallRecord(Len(ups))
        /\ maps' \in [Maps -> [Hosts -> 0..Len(ups')]]
    BY <1>3, NoTraffic
  <2>2. PICK g : Becomes(r, g) /\ g.pc = "reply"
    BY <1>2, <1>3, <2>1, BadGatewayBecomes
  <2>3. Spends(r, g)
    BY <1>2, <2>2, IsPast DEF BeforePcs
  <2>4. QED BY <1>1, <1>2, <2>1, <2>2, <2>3, FrameOf DEF CallStep
<1>4. CASE /\ ups' = Append(ups, Fresh)
           /\ maps' = [maps EXCEPT ![mapOf[c]][Host(c, i)] = Len(ups) + 1]
           /\ Connected(c, i, Len(ups) + 1, h[r])
  <2>1. Fresh \in Connection
    BY DEF Fresh, Connection
  <2>2. /\ ups' \in Seq(Connection) /\ Len(ups') = n
        /\ \A u \in 1..Len(ups) : ups'[u] = ups[u]
        /\ ups'[n] = Fresh
    BY <1>4, <2>1, ConnectionType, AppendProperties
  <2>3. NothingAsked
    <3>1. \A u \in 1..n : u \in 1..Len(ups) \/ u = n
      BY <1>2
    <3>2. ups'[n].inq = <<>>
      BY <2>2 DEF Fresh
    <3>3. QED BY <2>2, <3>1, <3>2 DEF NothingAsked
  <2>4. n \in Nat /\ n # 0 /\ Len(ups) <= n /\ 0..Len(ups) \subseteq 0..n /\ n \in 0..n
    BY <1>2
  <2>5. maps' \in [Maps -> [Hosts -> 0..n]]
    <3>1. [maps[mapOf[c]] EXCEPT ![Host(c, i)] = n] \in [Hosts -> 0..n]
      BY <1>2, <2>4
    <3>2. maps' = [maps EXCEPT ![mapOf[c]] = [maps[mapOf[c]] EXCEPT ![Host(c, i)] = n]]
      BY <1>4
    <3>3. \A m \in Maps : maps[m] \in [Hosts -> 0..n]
      BY <1>2, <2>4
    <3>4. QED BY <1>2, <3>1, <3>2, <3>3
  <2>6. PICK f : f = [h[r] EXCEPT !.conn = n]
    OBVIOUS
  <2>7. f \in CallRecord(n) /\ f.conn = n /\ f.try = h[r].try
    <3>1. Responses(Len(ups)) \subseteq Responses(n)
      BY <1>2, <2>4, MoreConnections
    <3>2. QED BY <1>2, <2>4, <2>6, <3>1 DEF CallRecord
  <2>8. PICK p \in {"upgrade", "write"} : Step(c, i, p, f)
    BY <1>4, <2>6 DEF Connected
  <2>9. PICK g : Becomes(r, g) /\ g.pc = p /\ g.try = h[r].try /\ g.conn = n
    BY <2>2, <2>4, <2>7, <2>8, StepBecomes DEF HandlerPcs
  <2>10. Spends(r, g)
    <3>1. ups'[g.conn].inq = <<>>
      BY <2>2, <2>9 DEF Fresh
    <3>2. g \in Calls(Len(ups')) /\ h[r].pc \in BeforePcs /\ g.pc \in BeforePcs
      BY <1>1, <2>9 DEF Becomes, BeforePcs
    <3>3. QED BY <1>2, <2>9, <3>1, <3>2, GoesOn
  <2>11. QED BY <1>1, <1>2, <2>2, <2>3, <2>4, <2>5, <2>9, <2>10, FrameOf DEF CallStep
<1>5. QED BY <1>3, <1>4 DEF Dial


\* A call that leads to f in one more step, and all that the step of a handler changes.
LEMMA MakesCallStep ==
  ASSUME NEW c, NEW i, HandlerFrame(c), late' \in {late, [late EXCEPT ![c] = FALSE]},
         rpc' \in {rpc, [rpc EXCEPT ![c] = "read"]}, UNCHANGED ch \/ Queues(c, i),
         ups' \in Seq(Connection), Len(ups) <= Len(ups'),
         maps' \in [Maps -> [Hosts -> 0..Len(ups')]],
         NEW f, Becomes(<<c, i>>, f),
         (NothingAsked /\ Spends(<<c, i>>, f)) \/ Asks(<<c, i>>, f)
  PROVE  CallStep(c, i)
BY FrameOf DEF CallStep

LEMMA UpgradeStep ==
  ASSUME Inv, Typed, NEW c \in Conns, NEW i \in 1..MaxLen, UpgradeServer2TLS(c, i)
  PROVE  CallStep(c, i)
<1> DEFINE r == <<c, i>>
           u == Entry(c, i)
<1>1. h[r].pc = "upgrade" /\ HandlerFrame(c) /\ UNCHANGED <<late, ch, maps>>
  BY DEF UpgradeServer2TLS
<1>2. /\ r \in Requests /\ h[r] \in Calls(Len(ups)) /\ h[r] \in CallRecord(Len(ups))
      /\ h[r].conn # 0 /\ Len(ups) \in Nat /\ u \in 0..Len(ups)
      /\ maps \in [Maps -> [Hosts -> 0..Len(ups)]]
  BY <1>1, ActiveCall DEF Calls, UsingPcs
<1>3. u # 0 => u \in 1..Len(ups) /\ ups[u] \in Connection
  BY <1>2, ConnectionType
<1>4. ups' \in Seq(Connection) /\ Len(ups') = Len(ups) /\ NothingAsked
  <2>1. CASE ups' = ups
    BY <2>1, NoTraffic
  <2>2. CASE u # 0 /\ ups' = [ups EXCEPT ![u].tls = TRUE]
    <3>1. PICK f : f = [ups[u] EXCEPT !.tls = TRUE]
      OBVIOUS
    <3>2. f \in Connection /\ f.inq = ups[u].inq
      BY <1>3, <2>2, <3>1 DEF Connection
    <3>3. ups' = [ups EXCEPT ![u] = f]
      BY <2>2, <3>1
    <3>4. QED BY <1>3, <2>2, <3>2, <3>3, OneChanged
  <2>3. CASE /\ u # 0
             /\ ups' = [ups EXCEPT ![u].tls = TRUE,
                                   ![u].st = IF @ = "open" THEN "gone" ELSE @]
    <3>1. PICK f : f = [ups[u] EXCEPT !.tls = TRUE,
                                      !.st = IF @ = "open" THEN "gone" ELSE @]
      OBVIOUS
    <3>2. f \in Connection /\ f.inq = ups[u].inq
      BY <1>3, <2>3, <3>1 DEF Connection
    <3>3. ups' = [ups EXCEPT ![u] = f]
      BY <1>3, <2>3, <3>1, ConnectionType
    <3>4. QED BY <1>3, <2>3, <3>2, <3>3, OneChanged
  <2>4. QED BY <2>1, <2>2, <2>3 DEF UpgradeServer2TLS
<1>5. CallRecord(Len(ups')) = CallRecord(Len(ups)) /\ Len(ups) <= Len(ups')
      /\ maps' \in [Maps -> [Hosts -> 0..Len(ups')]] /\ h[r] \in CallRecord(Len(ups'))
      /\ Len(ups') \in Nat
  BY <1>1, <1>2, <1>4
<1>6. rpc' \in {rpc, [rpc EXCEPT ![c] = "read"]}
  BY DEF UpgradeServer2TLS, Finish
<1>7. \E g : Becomes(r, g) /\ Spends(r, g)
  <2>1. CASE Finish(c, i)
    <3>1. PICK g : Becomes(r, g) /\ LeftOf(g) = 0 /\ ~Again(g)
      BY <1>5, <2>1, FinishBecomes
    <3>2. Spends(r, g)
      BY <1>2, <3>1, NoneLeft
    <3>3. QED BY <3>1, <3>2
  <2>2. CASE Step(c, i, "write", h[r])
    <3>1. PICK g : Becomes(r, g) /\ g.pc = "write" /\ g.try = h[r].try /\ g.conn = h[r].conn
      <4>1. "write" \in HandlerPcs \ {"none"} /\ "write" # "hooks"
        BY DEF HandlerPcs
      <4>2. h[r] \in CallRecord(Len(ups')) /\ h[r].conn # 0
        BY <1>2, <1>5
      <4>3. QED BY <2>2, <4>1, <4>2, StepBecomes
    <3>2. Again(g) => Again(h[r])
      BY <1>1, <3>1 DEF Again
    <3>3. g \in Calls(Len(ups')) /\ g.pc \in BeforePcs /\ h[r].pc \in BeforePcs
      BY <1>1, <3>1 DEF Becomes, BeforePcs
    <3>4. Spends(r, g)
      BY <1>2, <3>1, <3>2, <3>3, GoesOn
    <3>5. QED BY <3>1, <3>4
  <2>3. CASE BadGateway(c, i, h[r])
    <3>1. PICK g : Becomes(r, g) /\ g.pc = "reply"
      BY <1>5, <2>3, BadGatewayBecomes
    <3>2. Spends(r, g)
      BY <1>2, <3>1, IsPast DEF BeforePcs
    <3>3. QED BY <3>1, <3>2
  <2>4. QED BY <2>1, <2>2, <2>3 DEF UpgradeServer2TLS
<1>8. QED
  BY <1>1, <1>4, <1>5, <1>6, <1>7, MakesCallStep

\* DoRequest calls itself once more, or gives up.
LEMMA RetryBecomes ==
  ASSUME NEW c \in Conns, NEW i \in 1..MaxLen, Len(ups') \in Nat, NEW n,
         h[<<c, i>>] \in Calls(n), h[<<c, i>>].pc \in {"write", "await"},
         NEW f \in CallRecord(Len(ups')), f.try = h[<<c, i>>].try, Retry(c, i, f)
  PROVE  \E g : Becomes(<<c, i>>, g) /\ Spends(<<c, i>>, g)
<1> DEFINE r == <<c, i>>
<1>1. CASE f.try = 1
  <2>1. PICK e : e = [f EXCEPT !.try = 2]
    OBVIOUS
  <2>2. e \in CallRecord(Len(ups')) /\ e.try = 2
    BY <2>1 DEF CallRecord
  <2>3. Step(c, i, "lookup", e)
    BY <1>1, <2>1 DEF Retry
  <2>4. PICK g : Becomes(r, g) /\ g.pc = "lookup" /\ g.try = 2
    BY <2>2, <2>3, StepBecomes DEF HandlerPcs, UsingPcs
  <2>5. LeftOf(g) = 1 /\ ~Again(g)
    BY <2>4 DEF LeftOf, Again, BeforePcs
  <2>6. LeftOf(h[r]) \in 1..2
    BY <1>1 DEF LeftOf, BeforePcs
  <2>7. QED BY <2>4, <2>5, <2>6 DEF Spends
<1>2. CASE f.try # 1
  <2>1. BadGateway(c, i, f)
    BY <1>2 DEF Retry
  <2>2. PICK g : Becomes(r, g) /\ g.pc = "reply"
    BY <2>1, BadGatewayBecomes
  <2>3. Spends(r, g)
    BY <2>2, IsPast DEF BeforePcs
  <2>4. QED BY <2>2, <2>3
<1>3. QED BY <1>1, <1>2

LEMMA WriteStep ==
  ASSUME Inv, Typed, NEW c \in Conns, NEW i \in 1..MaxLen, WriteRequest(c, i)
  PROVE  CallStep(c, i)
<1> DEFINE r == <<c, i>>
           u == h[r].conn
<1>1. h[r].pc = "write" /\ HandlerFrame(c) /\ UNCHANGED <<late, rpc, maps, ch>>
  BY DEF WriteRequest
<1>2. /\ r \in Requests /\ h[r] \in Calls(Len(ups)) /\ h[r] \in CallRecord(Len(ups))
      /\ Len(ups) \in Nat /\ maps \in [Maps -> [Hosts -> 0..Len(ups)]]
  BY <1>1, ActiveCall DEF Calls
<1>3. u \in 1..Len(ups)
  BY <1>1, <1>2 DEF Calls, CallRecord, UsingPcs
<1>4. PICK b \in BOOLEAN : b = HasBody(c, i)
  BY DEF HasBody
<1>5. CASE /\ UNCHANGED ups
           /\ \E d \in {HasBody(c, i), h[r].drained /\ Req(c, i).body = "small"} :
                Retry(c, i, [h[r] EXCEPT !.drained = d])
  <2>1. /\ ups' \in Seq(Connection) /\ Len(ups') = Len(ups) /\ NothingAsked
        /\ CallRecord(Len(ups')) = CallRecord(Len(ups))
        /\ maps' \in [Maps -> [Hosts -> 0..Len(ups')]]
    BY <1>1, <1>5, NoTraffic
  <2>2. PICK d \in BOOLEAN : Retry(c, i, [h[r] EXCEPT !.drained = d])
    BY <1>4, <1>5
  <2>3. PICK f : f = [h[r] EXCEPT !.drained = d]
    OBVIOUS
  <2>4. f \in CallRecord(Len(ups')) /\ f.try = h[r].try
    BY <1>2, <2>1, <2>3 DEF CallRecord
  <2>5. Retry(c, i, f)
    BY <2>2, <2>3
  <2>6. \E g : Becomes(r, g) /\ Spends(r, g)
    BY <1>1, <1>2, <2>1, <2>4, <2>5, RetryBecomes
  <2>7. QED BY <1>1, <1>2, <2>1, <2>6, MakesCallStep
<1>6. CASE /\ \/ UNCHANGED ups
              \/ ups' = [ups EXCEPT ![u].inq = Append(@, <<c, i>>)]
           /\ Step(c, i, "await", [h[r] EXCEPT !.drained = HasBody(c, i)])
  <2>1. PICK f : f = [h[r] EXCEPT !.drained = b]
    OBVIOUS
  <2>2. f \in CallRecord(Len(ups)) /\ f.try = h[r].try /\ f.conn = u
    BY <1>2, <2>1 DEF CallRecord
  <2>3. Step(c, i, "await", f)
    BY <1>4, <1>6, <2>1
  <2>4. LeftOf(h[r]) = 3 - h[r].try /\ h[r].try \in {1, 2}
    BY <1>1, <1>2 DEF LeftOf, BeforePcs, CallRecord
  <2>5. CASE UNCHANGED ups
    <3>1. /\ ups' \in Seq(Connection) /\ Len(ups') = Len(ups) /\ NothingAsked
          /\ CallRecord(Len(ups')) = CallRecord(Len(ups))
          /\ maps' \in [Maps -> [Hosts -> 0..Len(ups')]]
      BY <1>1, <2>5, NoTraffic
    <3>2. f.conn # 0 /\ f \in CallRecord(Len(ups'))
      BY <1>3, <2>2, <3>1
    <3>3. PICK g : Becomes(r, g) /\ g.pc = "await" /\ g.try = h[r].try
      BY <2>2, <2>3, <3>2, StepBecomes DEF HandlerPcs
    <3>4. Spends(r, g)
      BY <2>4, <3>3 DEF Spends, LeftOf, Again, BeforePcs
    <3>5. QED BY <1>1, <1>2, <3>1, <3>3, <3>4, MakesCallStep
  <2>6. CASE ups' = [ups EXCEPT ![u].inq = Append(@, <<c, i>>)]
    <3>1. PICK e : e = [ups[u] EXCEPT !.inq = Append(@, r)]
      OBVIOUS
    <3>2. ups[u] \in Connection /\ Append(ups[u].inq, r) \in Seq(Requests)
      BY <1>2, <1>3, ConnectionType, AppendProperties
    <3>3. e \in Connection /\ e.inq = Append(ups[u].inq, r)
      BY <3>1, <3>2 DEF Connection
    <3>4. ups' = [ups EXCEPT ![u] = e]
      BY <2>6, <3>1
    <3>5. /\ ups' \in Seq(Connection) /\ Len(ups') = Len(ups) /\ ups'[u] = e
          /\ \A v \in 1..Len(ups) : v # u => ups'[v] = ups[v]
      BY <1>3, <3>3, <3>4, OneChanged
    <3>6. /\ maps' \in [Maps -> [Hosts -> 0..Len(ups')]] /\ f.conn # 0
          /\ f \in CallRecord(Len(ups'))
      BY <1>1, <1>2, <1>3, <2>2, <3>5
    <3>7. PICK g : Becomes(r, g) /\ g.pc = "await" /\ g.try = h[r].try
      BY <2>2, <2>3, <3>6, StepBecomes DEF HandlerPcs
    <3>8. LeftOf(g) = LeftOf(h[r]) - 1 /\ ~Again(g)
      BY <2>4, <3>7 DEF LeftOf, Again, BeforePcs
    <3>9. Asks(r, g)
      BY <1>1, <3>3, <3>5, <3>8 DEF Asks
    <3>10. QED BY <1>1, <1>2, <3>5, <3>6, <3>7, <3>9, MakesCallStep
  <2>7. QED BY <1>6, <2>5, <2>6
<1>7. QED BY <1>5, <1>6 DEF WriteRequest


LEMMA ReadStep ==
  ASSUME Inv, Typed, NEW c \in Conns, NEW i \in 1..MaxLen, ReadResponse(c, i)
  PROVE  CallStep(c, i)
<1> DEFINE r == <<c, i>>
           u == h[r].conn
<1>1. h[r].pc = "await" /\ HandlerFrame(c) /\ UNCHANGED <<late, rpc, maps, ch>>
  BY DEF ReadResponse
<1>2. /\ r \in Requests /\ h[r] \in Calls(Len(ups)) /\ h[r] \in CallRecord(Len(ups))
      /\ Len(ups) \in Nat /\ maps \in [Maps -> [Hosts -> 0..Len(ups)]]
  BY <1>1, ActiveCall DEF Calls
<1>3. u \in 1..Len(ups)
  BY <1>1, <1>2 DEF Calls, CallRecord, UsingPcs
<1>4. CASE Retry(c, i, h[r]) /\ UNCHANGED ups
  <2>1. /\ ups' \in Seq(Connection) /\ Len(ups') = Len(ups) /\ NothingAsked
        /\ CallRecord(Len(ups')) = CallRecord(Len(ups))
        /\ maps' \in [Maps -> [Hosts -> 0..Len(ups')]]
    BY <1>1, <1>4, NoTraffic
  <2>2. \E g : Becomes(r, g) /\ Spends(r, g)
    BY <1>1, <1>2, <1>4, <2>1, RetryBecomes
  <2>3. QED BY <1>1, <1>2, <2>1, <2>2, MakesCallStep
<1>5. CASE /\ HasPart(u) /\ TakePart(u)
           /\ Step(c, i, "hooks", [h[r] EXCEPT !.entry =
                [as |-> "stream", of |-> Head(ups[u].out).of, body |-> <<c, 0>>, up |-> u]])
  <2>1. /\ ups' \in Seq(Connection) /\ Len(ups') = Len(ups) /\ NothingAsked
        /\ Head(ups[u].out).of \in Conns \X (0..MaxLen)
    BY <1>3, <1>5, TakenPart
  <2>2. PICK q \in Conns \X (0..MaxLen) : q = Head(ups[u].out).of
    BY <2>1
  <2>3. PICK e : e = [as |-> "stream", of |-> q, body |-> <<c, 0>>, up |-> u]
    OBVIOUS
  <2>4. <<c, 0>> \in Conns \X (0..MaxLen)
    BY ConnectorAssumption
  <2>5. e \in Responses(Len(ups)) /\ e.as = "stream"
    BY <1>2, <1>3, <2>3, <2>4 DEF Responses
  <2>6. PICK f : f = [h[r] EXCEPT !.entry = e]
    OBVIOUS
  <2>7. f \in CallRecord(Len(ups')) /\ f.conn # 0 /\ f.entry.as = "stream"
    <3>1. f \in CallRecord(Len(ups)) /\ f.conn = u /\ f.entry = e
      BY <1>2, <2>5, <2>6 DEF CallRecord
    <3>2. QED BY <1>3, <2>1, <2>5, <3>1
  <2>8. Step(c, i, "hooks", f)
    BY <1>5, <2>2, <2>3, <2>6
  <2>9. PICK g : Becomes(r, g) /\ g.pc = "hooks"
    BY <2>7, <2>8, StepBecomes DEF HandlerPcs
  <2>10. Spends(r, g)
    BY <1>2, <2>9, IsPast DEF BeforePcs
  <2>11. maps' \in [Maps -> [Hosts -> 0..Len(ups')]]
    BY <1>1, <1>2, <2>1
  <2>12. QED BY <1>1, <1>2, <2>1, <2>9, <2>10, <2>11, MakesCallStep
<1>6. QED BY <1>4, <1>5 DEF ReadResponse

LEMMA HooksStep ==
  ASSUME Inv, Typed, NEW c \in Conns, NEW i \in 1..MaxLen, ApplyHooks(c, i)
  PROVE  CallStep(c, i)
<1> DEFINE r == <<c, i>>
           u == h[r].conn
<1>1. h[r].pc = "hooks" /\ HandlerFrame(c) /\ UNCHANGED <<late, rpc, maps, ch>>
  BY DEF ApplyHooks
<1>2. /\ r \in Requests /\ h[r] \in Calls(Len(ups)) /\ h[r] \in CallRecord(Len(ups))
      /\ Len(ups) \in Nat /\ maps \in [Maps -> [Hosts -> 0..Len(ups)]]
  BY <1>1, ActiveCall DEF Calls
<1>3. /\ u \in 1..Len(ups) /\ h[r].entry \in Responses(Len(ups)) /\ h[r].entry.as = "stream"
  BY <1>1, <1>2 DEF Calls, CallRecord, UsingPcs
<1>4. PICK next \in {"handshake", "reply"} :
        next = IF Req(c, i).ws THEN "handshake" ELSE "reply"
  OBVIOUS
<1>5. /\ ups' \in Seq(Connection) /\ Len(ups') = Len(ups) /\ NothingAsked
  BY <1>3, NoTraffic, TakenPart DEF ApplyHooks, InjectHTML
<1>6. PICK p \in {"handshake", "reply"}, f \in CallRecord(Len(ups)) :
        Step(c, i, p, f) /\ f.conn = u
  <2>1. CASE Step(c, i, next, h[r])
    BY <1>2, <2>1
  <2>2. CASE InjectHTML(c, i, next, h[r])
    <3>1. PICK q \in Conns \X (0..MaxLen) : q = Head(ups[u].out).of
      BY <1>3, <2>2, TakenPart DEF InjectHTML
    <3>2. PICK e : e = [h[r].entry EXCEPT !.as = "local", !.body = q]
      OBVIOUS
    <3>3. e \in Responses(Len(ups))
      BY <1>3, <3>2 DEF Responses
    <3>4. PICK f : f = [h[r] EXCEPT !.entry = e]
      OBVIOUS
    <3>5. f \in CallRecord(Len(ups)) /\ f.conn = u
      BY <1>2, <3>3, <3>4 DEF CallRecord
    <3>6. f = [h[r] EXCEPT !.entry.as = "local", !.entry.body = Head(ups[u].out).of]
      BY <1>2, <1>3, <3>1, <3>2, <3>4 DEF CallRecord, Responses
    <3>7. Step(c, i, next, f)
      BY <2>2, <3>6 DEF InjectHTML
    <3>8. QED BY <3>5, <3>7
  <2>3. CASE Step(c, i, "reply", [h[r] EXCEPT !.entry.as = "replace",
                                              !.entry.body = h[r].entry.of])
    <3>1. PICK e : e = [h[r].entry EXCEPT !.as = "replace", !.body = h[r].entry.of]
      OBVIOUS
    <3>2. e \in Responses(Len(ups))
      BY <1>3, <3>1 DEF Responses
    <3>3. PICK f : f = [h[r] EXCEPT !.entry = e]
      OBVIOUS
    <3>4. f \in CallRecord(Len(ups)) /\ f.conn = u
      BY <1>2, <3>2, <3>3 DEF CallRecord
    <3>5. f = [h[r] EXCEPT !.entry.as = "replace", !.entry.body = h[r].entry.of]
      BY <1>2, <1>3, <3>1, <3>3 DEF CallRecord, Responses
    <3>6. Step(c, i, "reply", f)
      BY <2>3, <3>5
    <3>7. QED BY <3>4, <3>6
  <2>4. QED BY <1>4, <2>1, <2>2, <2>3 DEF ApplyHooks
<1>7. f \in CallRecord(Len(ups')) /\ f.conn # 0
  BY <1>3, <1>5, <1>6
<1>8. PICK g : Becomes(r, g) /\ g.pc = p
  <2>1. p \in HandlerPcs \ {"none"} /\ p # "hooks"
    BY DEF HandlerPcs
  <2>2. QED BY <1>6, <1>7, <2>1, StepBecomes
<1>9. Spends(r, g)
  BY <1>2, <1>8, IsPast DEF BeforePcs
<1>10. maps' \in [Maps -> [Hosts -> 0..Len(ups')]]
  BY <1>1, <1>2, <1>5
<1>11. QED BY <1>1, <1>2, <1>5, <1>8, <1>9, <1>10, MakesCallStep

LEMMA TunnelSteps ==
  ASSUME Inv, Typed, NEW c \in Conns, NEW i \in 1..MaxLen, Handshake(c, i) \/ TunnelEnds(c, i)
  PROVE  CallStep(c, i)
<1> DEFINE r == <<c, i>>
<1>1. h[r].pc \in {"handshake", "tunnel"} /\ HandlerFrame(c) /\ UNCHANGED <<maps, ch>>
  BY DEF Handshake, TunnelEnds
<1>2. /\ r \in Requests /\ h[r] \in Calls(Len(ups)) /\ h[r] \in CallRecord(Len(ups))
      /\ Len(ups) \in Nat /\ maps \in [Maps -> [Hosts -> 0..Len(ups)]]
  BY <1>1, ActiveCall DEF Calls
<1>3. h[r].conn # 0 /\ h[r].entry \in Responses(Len(ups))
  BY <1>1, <1>2 DEF Calls, CallRecord, UsingPcs
<1>4. ups' \in Seq(Connection) /\ Len(ups') = Len(ups) /\ NothingAsked
  <2>1. CASE UNCHANGED ups
    BY <2>1, NoTraffic
  <2>2. CASE /\ h[r].entry.as = "stream" /\ HasPart(h[r].entry.up)
             /\ TakePart(h[r].entry.up)
    <3>1. h[r].entry.up \in 1..Len(ups)
      BY <1>2, <1>3, <2>2 DEF Responses
    <3>2. QED BY <2>2, <3>1, TakenPart
  <2>3. QED BY <2>1, <2>2 DEF Handshake, TunnelEnds
<1>5. /\ maps' \in [Maps -> [Hosts -> 0..Len(ups')]] /\ Len(ups') \in Nat
      /\ h[r] \in CallRecord(Len(ups'))
  BY <1>1, <1>2, <1>4
<1>6. rpc' \in {rpc, [rpc EXCEPT ![c] = "read"]}
  BY DEF Handshake, TunnelEnds, Finish
<1>7. late' \in {late, [late EXCEPT ![c] = FALSE]}
  BY DEF Handshake, TunnelEnds
<1>8. \E g : Becomes(r, g) /\ Spends(r, g)
  <2>1. CASE Finish(c, i)
    <3>1. PICK g : Becomes(r, g) /\ LeftOf(g) = 0 /\ ~Again(g)
      BY <1>5, <2>1, FinishBecomes
    <3>2. Spends(r, g)
      BY <1>2, <3>1, NoneLeft
    <3>3. QED BY <3>1, <3>2
  <2>2. CASE Step(c, i, "tunnel", h[r])
    <3>1. "tunnel" \in HandlerPcs \ {"none"} /\ "tunnel" # "hooks"
      BY DEF HandlerPcs
    <3>2. PICK g : Becomes(r, g) /\ g.pc = "tunnel"
      BY <1>3, <1>5, <2>2, <3>1, StepBecomes
    <3>3. Spends(r, g)
      BY <1>2, <3>2, IsPast DEF BeforePcs
    <3>4. QED BY <3>2, <3>3
  <2>3. QED BY <2>1, <2>2 DEF Handshake, TunnelEnds
<1>9. QED BY <1>1, <1>2, <1>4, <1>5, <1>6, <1>7, <1>8, MakesCallStep

\* Every step of a handler is one of these.
LEMMA HandleIsCallStep ==
  ASSUME Inv, Typed, NEW c \in Conns, NEW i \in 1..MaxLen, Handle(c, i)
  PROVE  CallStep(c, i)
BY EarlySteps, DialStep, UpgradeStep, WriteStep, ReadStep, HooksStep, TunnelSteps DEF Handle

\* They keep the types.
LEMMA CallStepTyped ==
  ASSUME Inv, Typed, NEW c \in Conns, NEW i \in 1..MaxLen, CallStep(c, i),
         h[<<c, i>>].pc \notin {"none", "done"}
  PROVE  Typed'
<1> DEFINE r == <<c, i>>
<1>1. /\ r \in Requests /\ h[r] \in Calls(Len(ups)) /\ Len(ups) \in Nat
      /\ i \in Nat /\ i <= cur[c] /\ cur[c] \in Nat
      /\ rpc[c] \notin {"none", "accepted"} /\ mapOf[c] \in Maps
      /\ Req(c, i).kind # "connect"
  BY ActiveCall
<1>2. /\ UNCHANGED <<closed, startPc, listening, script, sent, cur, tls, mapOf, free, served,
                     chClosed, wpc, wcur>>
      /\ rpc' \in {rpc, [rpc EXCEPT ![c] = "read"]}
      /\ late' \in {late, [late EXCEPT ![c] = FALSE]}
      /\ ups' \in Seq(Connection) /\ Len(ups) <= Len(ups') /\ Len(ups') \in Nat
      /\ maps' \in [Maps -> [Hosts -> 0..Len(ups')]]
      /\ UNCHANGED ch \/ Queues(c, i)
  BY DEF CallStep
<1>3. PICK f : Becomes(r, f)
  BY DEF CallStep
<1>4. StartTypes' /\ ClientTypes' /\ PoolTypes'
  BY <1>2 DEF Typed, StartTypes, ClientTypes, PoolTypes
<1>5. ReadTypes'
  BY <1>1, <1>2 DEF Typed, ReadTypes, Inv, Types
<1>6. /\ Calls(Len(ups)) \subseteq Calls(Len(ups'))
      /\ Responses(Len(ups)) \subseteq Responses(Len(ups'))
      /\ Seq(Responses(Len(ups))) \subseteq Seq(Responses(Len(ups')))
  BY <1>1, <1>2, MoreConnections
<1>7. h' = [h EXCEPT ![r] = f] /\ f \in Calls(Len(ups')) /\ f.pc # "none"
  BY <1>3 DEF Becomes
<1>8. h \in [Requests -> Calls(Len(ups))] /\ h \in [Requests -> Calls(Len(ups'))]
  BY <1>6 DEF Typed, CallTypes
<1>9. \A q \in Requests : h'[q] = h[q] \/ (q = r /\ h'[q].pc # "none")
  BY <1>7, <1>8
<1>10. CallTypes'
  <2>1. h' \in [Requests -> Calls(Len(ups'))]
    BY <1>7, <1>8
  <2>2. ASSUME NEW d \in Conns, NEW j \in 1..MaxLen, j > cur'[d] PROVE h'[<<d, j>>].pc = "none"
    <3>1. <<d, j>> \in Requests /\ j \in Nat
      BY DEF Requests
    <3>2. j > cur[d] /\ <<d, j>> # r
      BY <1>1, <1>2, <2>2, <3>1
    <3>3. QED BY <1>9, <3>1, <3>2 DEF Typed, CallTypes
  <2>3. \A q \in Requests : h'[q].pc = "none" => h'[q].try = 1
    BY <1>9 DEF Typed, CallTypes
  <2>4. QED BY <2>1, <2>2, <2>3 DEF CallTypes
<1>11. Routed'
  <2> SUFFICES ASSUME NEW d \in Conns, NEW j \in 1..MaxLen, h'[<<d, j>>].pc # "none"
               PROVE  Req(d, j).kind # "connect"
    BY <1>2 DEF Routed, Req
  <2>1. <<d, j>> \in Requests
    BY DEF Requests
  <2>2. CASE h'[<<d, j>>] = h[<<d, j>>]
    BY <2>2 DEF Typed, Routed
  <2>3. CASE <<d, j>> = r
    BY <1>1, <2>3
  <2>4. QED BY <1>9, <2>1, <2>2, <2>3
<1>12. WriterTypes'
  <2>1. CASE UNCHANGED ch
    BY <1>1, <1>2, <2>1, Unaffected
  <2>2. CASE Queues(c, i)
    <3>1. PICK e : e = h[r].entry
      OBVIOUS
    <3>2. e \in Responses(Len(ups'))
      BY <1>1, <1>6, <3>1 DEF Calls, CallRecord
    <3>3. /\ ch \in [Conns -> Seq(Responses(Len(ups')))] /\ ch[c] \in Seq(Responses(Len(ups')))
          /\ wcur \in [Conns -> Responses(Len(ups'))]
          /\ Len(ch[c]) \in Nat
      BY <1>6 DEF Typed, WriterTypes
    <3>4. Append(ch[c], e) \in Seq(Responses(Len(ups'))) /\ Len(Append(ch[c], e)) = Len(ch[c]) + 1
      BY <3>2, <3>3, AppendProperties
    <3>5. ch' = [ch EXCEPT ![c] = Append(ch[c], e)] /\ Len(ch[c]) < Cap /\ Cap \in Nat
      BY <2>2, <3>1, ConnectorAssumption DEF Queues
    <3>6. ch' \in [Conns -> Seq(Responses(Len(ups')))]
      BY <3>3, <3>4, <3>5
    <3>7. \A d \in Conns : Len(ch'[d]) <= Cap
      BY <3>3, <3>4, <3>5 DEF Typed, WriterTypes
    <3>8. QED BY <1>2, <3>3, <3>6, <3>7 DEF Typed, WriterTypes
  <2>3. QED BY <1>2, <2>1, <2>2
<1>13. QED BY <1>4, <1>5, <1>10, <1>11, <1>12 DEF Typed


\* The writer only takes parts of answers and functions, and writes what it has.
WriterStep(c) ==
  /\ UNCHANGED <<closed, startPc, listening, script, sent, late, rpc, cur, tls, mapOf, h, maps,
                 free, served, chClosed>>
  /\ UNCHANGED ch \/ (ch[c] # <<>> /\ ch' = [ch EXCEPT ![c] = Tail(@)])
  /\ \/ UNCHANGED <<wpc, wcur>>
     \/ \E p \in {"idle", "stream", "drain", "panicked", "done"} :
          \E e \in Responses(Len(ups)) :
            /\ p \in {"stream", "drain"} => e.as # "local"
            /\ Writes(c, p, e)
  /\ ups' \in Seq(Connection) /\ Len(ups') = Len(ups) /\ NothingAsked

LEMMA WriterSteps ==
  ASSUME Typed, NEW c \in Conns, Writer(c)
  PROVE  WriterStep(c)
<1> USE DEF WriterFrame, containerVars, readVars, poolVars
<1>1. /\ UNCHANGED <<closed, startPc, listening, script, sent, late, rpc, cur, tls, mapOf, h, maps,
                     free, served, chClosed>>
      /\ UNCHANGED ch \/ (ch[c] # <<>> /\ ch' = [ch EXCEPT ![c] = Tail(@)])
  BY DEF Writer, WriteReply, WriteBody, DrainBody, WriterPanics, WriterRecovers, WriterEnds
<1>2. /\ wcur[c] \in Responses(Len(ups)) /\ ch[c] \in Seq(Responses(Len(ups)))
      /\ wpc[c] \in {"stream", "drain"} => wcur[c].as # "local"
      /\ Len(ups) \in Nat
  BY ConnectionType DEF Typed, WriterTypes
<1>3. Local(<<c, 0>>) \in Responses(Len(ups))
  BY <1>2, ConnectorAssumption, LocalResponse
<1>4. wpc[c] \in {"stream", "drain"} => wcur[c].up \in 1..Len(ups)
  BY <1>2 DEF Responses
<1>5. ups' \in Seq(Connection) /\ Len(ups') = Len(ups) /\ NothingAsked
  <2>1. CASE UNCHANGED ups
    BY <2>1, NoTraffic
  <2>2. CASE /\ wpc[c] \in {"stream", "drain"} /\ HasPart(wcur[c].up) /\ TakePart(wcur[c].up)
    BY <1>4, <2>2, TakenPart
  <2>3. QED
    BY <2>1, <2>2 DEF Writer, WriteReply, WriteBody, DrainBody, WriterPanics, WriterRecovers,
                      WriterEnds
<1>6. \/ UNCHANGED <<wpc, wcur>>
      \/ \E p \in {"idle", "stream", "drain", "panicked", "done"} :
           \E e \in Responses(Len(ups)) :
             /\ p \in {"stream", "drain"} => e.as # "local"
             /\ Writes(c, p, e)
  <2>1. CASE WriteReply(c)
    <3>1. PICK e : e = Head(ch[c])
      OBVIOUS
    <3>2. e \in Responses(Len(ups))
      BY <1>2, <2>1, <3>1, HeadTailProperties DEF WriteReply
    <3>3. e.as \in {"local", "stream", "replace"}
      BY <3>2 DEF Responses
    <3>4. \/ Writes(c, CASE e.as = "local" -> "idle" [] e.as = "stream" -> "stream"
                         [] e.as = "replace" -> "drain", e)
          \/ Writes(c, IF e.as = "replace" THEN "drain" ELSE "idle", e)
      BY <2>1, <3>1 DEF WriteReply
    <3>5. PICK p \in {"idle", "stream", "drain"} :
            /\ p \in {"stream", "drain"} => e.as # "local"
            /\ Writes(c, p, e)
      <4>1. CASE e.as = "local"
        BY <3>4, <4>1
      <4>2. CASE e.as = "stream"
        BY <3>4, <4>2
      <4>3. CASE e.as = "replace"
        BY <3>4, <4>3
      <4>4. QED BY <3>3, <4>1, <4>2, <4>3
    <3>6. QED BY <3>2, <3>5
  <2>2. CASE WriteBody(c) \/ DrainBody(c)
    <3>1. Writes(c, "idle", Local(<<c, 0>>))
      BY <2>2 DEF WriteBody, DrainBody
    <3>2. QED BY <1>3, <3>1
  <2>3. CASE WriterPanics(c) \/ WriterRecovers(c) \/ WriterEnds(c)
    <3>1. UNCHANGED <<wpc, wcur>> \/ Writes(c, "panicked", wcur[c]) \/ Writes(c, "done", wcur[c])
      BY <2>3 DEF WriterPanics, WriterRecovers, WriterEnds
    <3>2. QED BY <1>2, <3>1
  <2>4. QED BY <2>1, <2>2, <2>3 DEF Writer
<1>7. QED BY <1>1, <1>5, <1>6 DEF WriterStep

LEMMA WriterTyped ==
  ASSUME Inv, Typed, NEW c \in Conns, WriterStep(c)
  PROVE  Typed'
<1>1. /\ UNCHANGED <<closed, startPc, listening, script, sent, late, rpc, cur, tls, mapOf, h, maps,
                     free, served, chClosed>>
      /\ UNCHANGED ch \/ (ch[c] # <<>> /\ ch' = [ch EXCEPT ![c] = Tail(@)])
      /\ ups' \in Seq(Connection) /\ Len(ups') = Len(ups) /\ Len(ups) \in Nat
  BY ConnectionType DEF WriterStep
<1>2. StartTypes' /\ ClientTypes' /\ PoolTypes'
  BY <1>1 DEF Typed, StartTypes, ClientTypes, PoolTypes
<1>3. ReadTypes'
  BY <1>1 DEF Typed, ReadTypes
<1>4. CallTypes'
  BY <1>1, Unaffected
<1>5. Routed'
  BY <1>1 DEF Typed, Routed, Req
<1>6. /\ ch \in [Conns -> Seq(Responses(Len(ups)))] /\ ch[c] \in Seq(Responses(Len(ups)))
      /\ Len(ch[c]) \in Nat /\ \A d \in Conns : Len(ch[d]) <= Cap
  BY DEF Typed, WriterTypes
<1>7. ch' \in [Conns -> Seq(Responses(Len(ups')))] /\ \A d \in Conns : Len(ch'[d]) <= Cap
  <2>1. CASE UNCHANGED ch
    BY <1>1, <1>6, <2>1
  <2>2. CASE ch[c] # <<>> /\ ch' = [ch EXCEPT ![c] = Tail(@)]
    <3>1. PICK t : t = Tail(ch[c])
      OBVIOUS
    <3>2. t \in Seq(Responses(Len(ups))) /\ Len(t) <= Len(ch[c]) /\ Len(t) \in Nat
      BY <1>6, <2>2, <3>1, HeadTailProperties
    <3>3. ch' = [ch EXCEPT ![c] = t]
      BY <2>2, <3>1
    <3>4. \A d \in Conns : Len(ch'[d]) <= Cap
      BY <1>6, <3>2, <3>3, ConnectorAssumption
    <3>5. QED BY <1>1, <1>6, <3>2, <3>3, <3>4
  <2>3. QED BY <1>1, <2>1, <2>2
<1>8. /\ wpc' \in [Conns -> {"none", "idle", "stream", "drain", "panicked", "done"}]
      /\ wcur' \in [Conns -> Responses(Len(ups'))]
      /\ \A d \in Conns : wpc'[d] \in {"stream", "drain"} => wcur'[d].as # "local"
  <2>1. CASE UNCHANGED <<wpc, wcur>>
    BY <1>1, <2>1 DEF Typed, WriterTypes
  <2>2. ASSUME NEW p \in {"idle", "stream", "drain", "panicked", "done"},
               NEW e \in Responses(Len(ups)),
               p \in {"stream", "drain"} => e.as # "local", Writes(c, p, e)
        PROVE  /\ wpc' \in [Conns -> {"none", "idle", "stream", "drain", "panicked", "done"}]
               /\ wcur' \in [Conns -> Responses(Len(ups'))]
               /\ \A d \in Conns : wpc'[d] \in {"stream", "drain"} => wcur'[d].as # "local"
    BY <1>1, <2>2 DEF Typed, WriterTypes, Writes
  <2>3. QED BY <2>1, <2>2 DEF WriterStep
<1>9. WriterTypes'
  BY <1>1, <1>7, <1>8 DEF Typed, WriterTypes
<1>10. QED BY <1>2, <1>3, <1>4, <1>5, <1>9 DEF Typed

\* The clients keep the types.
LEMMA ClientTyped ==
  ASSUME Inv, Typed, NEW c \in Conns,
         ClientDials(c) \/ ClientAsks(c) \/ ClientLeaves(c) \/ DeadlinePasses(c)
  PROVE  Typed' /\ UNCHANGED <<h, served, ups>>
<1>1. UNCHANGED <<closed, startPc, listening, script, rpc, cur, tls, mapOf, h, maps, free, ups,
                  served, ch, chClosed, wpc, wcur>>
  BY DEF ClientDials, ClientAsks, ClientLeaves, DeadlinePasses, EnvFrame, containerVars, readVars,
         poolVars, chVars, writerVars, upVars
<1>2. /\ sent \in [Conns -> Nat] /\ \A d \in Conns : sent[d] <= Len(script[d])
      /\ late \in [Conns -> BOOLEAN]
  BY DEF Typed, ClientTypes
<1>3. /\ UNCHANGED sent \/ (sent[c] < Len(script[c]) /\ sent' = [sent EXCEPT ![c] = @ + 1])
      /\ UNCHANGED late \/ late' = [late EXCEPT ![c] = TRUE]
  BY DEF ClientDials, ClientAsks, ClientLeaves, DeadlinePasses
<1>4. /\ sent' \in [Conns -> Nat] /\ \A d \in Conns : sent'[d] <= Len(script[d])
      /\ \A d \in Conns : sent[d] <= sent'[d]
  <2>1. \A d \in Conns : Len(script[d]) \in Nat
    BY DEF Typed, ClientTypes
  <2>2. QED BY <1>2, <1>3, <2>1
<1>5. late' \in [Conns -> BOOLEAN]
  BY <1>2, <1>3
<1>6. StartTypes' /\ ClientTypes'
  BY <1>1, <1>4, <1>5 DEF Typed, StartTypes, ClientTypes
<1>7. ReadTypes'
  BY <1>1, <1>2, <1>4 DEF Typed, ReadTypes, Inv, Types
<1>8. CallTypes' /\ PoolTypes' /\ WriterTypes'
  BY <1>1, SameConnections
<1>9. Routed'
  BY <1>1 DEF Typed, Routed, Req
<1>10. QED BY <1>1, <1>6, <1>7, <1>8, <1>9 DEF Typed

\* A server takes the first request off connection u.
Takes(u) ==
  /\ u \in 1..Len(ups) /\ Len(ups') = Len(ups)
  /\ ups[u].inq # <<>> /\ ups'[u].inq = Tail(ups[u].inq)
  /\ \A v \in 1..Len(ups) : v # u => ups'[v].inq = ups[v].inq
  /\ Head(ups[u].inq) \in Requests
  /\ served' = [served EXCEPT ![Head(ups[u].inq)] = @ + 1]

LEMMA UpstreamTyped ==
  ASSUME Inv, Typed, NEW u \in DOMAIN ups, UpstreamServes(u) \/ UpstreamDies(u)
  PROVE  /\ Typed' /\ UNCHANGED h /\ Len(ups') = Len(ups)
         /\ (UNCHANGED served /\ NothingAsked) \/ Takes(u)
<1>1. UNCHANGED <<closed, startPc, listening, script, sent, late, rpc, cur, tls, mapOf, h, maps,
                  free, ch, chClosed, wpc, wcur>>
  BY DEF UpstreamServes, UpstreamDies, EnvFrame, containerVars, readVars, clientVars,
         poolVars, chVars, writerVars
<1>2. /\ u \in 1..Len(ups) /\ Len(ups) \in Nat /\ ups[u] \in Connection
      /\ ups[u].inq \in Seq(Requests) /\ ups[u].out \in Seq(Parts)
  BY ConnectionType
<1>3. /\ ups' \in Seq(Connection) /\ Len(ups') = Len(ups) /\ served' \in [Requests -> Nat]
      /\ (UNCHANGED served /\ NothingAsked) \/ Takes(u)
  <2>1. CASE UpstreamServes(u)
    <3>1. PICK r : r = Head(ups[u].inq)
      OBVIOUS
    <3>2. r \in Requests /\ Tail(ups[u].inq) \in Seq(Requests)
      BY <1>2, <2>1, <3>1, HeadTailProperties DEF UpstreamServes
    <3>3. PICK answer : answer = <<[part |-> "head", of |-> r], [part |-> "body", of |-> r]>>
      OBVIOUS
    <3>4. answer \in Seq(Parts)
      BY <3>2, <3>3 DEF Parts
    <3>5. PICK f : f = [ups[u] EXCEPT !.inq = Tail(@),
                                      !.out = IF ups[u].st = "open" THEN @ \o answer ELSE @]
      OBVIOUS
    <3>6. ups[u].out \o answer \in Seq(Parts)
      BY <1>2, <3>4, ConcatProperties
    <3>7. f \in Connection /\ f.inq = Tail(ups[u].inq)
      BY <1>2, <3>2, <3>5, <3>6 DEF Connection
    <3>8. ups' = [ups EXCEPT ![u] = f] /\ served' = [served EXCEPT ![r] = @ + 1]
      BY <2>1, <3>1, <3>3, <3>5 DEF UpstreamServes
    <3>9. /\ ups' \in Seq(Connection) /\ Len(ups') = Len(ups) /\ ups'[u] = f
          /\ \A v \in 1..Len(ups) : v # u => ups'[v] = ups[v]
      BY <1>2, <3>7, <3>8, OneChanged
    <3>10. served' \in [Requests -> Nat]
      BY <3>2, <3>8 DEF Typed, PoolTypes
    <3>11. Takes(u)
      BY <1>2, <2>1, <3>1, <3>2, <3>7, <3>8, <3>9 DEF Takes, UpstreamServes
    <3>12. QED BY <3>9, <3>10, <3>11
  <2>2. CASE UpstreamDies(u)
    <3>1. PICK n \in 0..Len(ups[u].out) :
            ups' = [ups EXCEPT ![u].st = "gone", ![u].inq = <<>>, ![u].out = SubSeq(@, 1, n)]
      BY <2>2 DEF UpstreamDies
    <3>2. SubSeq(ups[u].out, 1, n) \in Seq(Parts)
      <4>1. Len(ups[u].out) \in Nat /\ \A i \in 1..Len(ups[u].out) : ups[u].out[i] \in Parts
        BY <1>2, ElementOfSeq
      <4>2. \A i \in 1..n : ups[u].out[i] \in Parts
        BY <4>1
      <4>3. QED BY <4>1, <4>2, SubSeqProperties
    <3>3. PICK f : f = [ups[u] EXCEPT !.st = "gone", !.inq = <<>>, !.out = SubSeq(@, 1, n)]
      OBVIOUS
    <3>4. f \in Connection /\ f.inq = <<>>
      <4>1. <<>> \in Seq(Requests)
        OBVIOUS
      <4>2. QED BY <1>2, <3>2, <3>3, <4>1 DEF Connection
    <3>5. ups' = [ups EXCEPT ![u] = f]
      BY <1>2, <3>1, <3>3, ConnectionType
    <3>6. /\ ups' \in Seq(Connection) /\ Len(ups') = Len(ups) /\ ups'[u] = f
          /\ \A v \in 1..Len(ups) : v # u => ups'[v] = ups[v]
      BY <1>2, <3>4, <3>5, OneChanged
    <3>7. UNCHANGED served
      BY <2>2 DEF UpstreamDies
    <3>8. NothingAsked
      BY <3>4, <3>6 DEF NothingAsked
    <3>9. QED BY <3>6, <3>7, <3>8 DEF Typed, PoolTypes
  <2>3. QED BY <2>1, <2>2
<1>4. StartTypes' /\ ClientTypes' /\ PoolTypes'
  BY <1>1, <1>3 DEF Typed, StartTypes, ClientTypes, PoolTypes
<1>5. ReadTypes'
  BY <1>1 DEF Typed, ReadTypes
<1>6. CallTypes' /\ WriterTypes'
  BY <1>1, <1>2, <1>3, Unaffected
<1>7. Routed'
  BY <1>1 DEF Typed, Routed, Req
<1>8. QED BY <1>1, <1>3, <1>4, <1>5, <1>6, <1>7 DEF Typed


\* The types are an invariant, together with Inv.
LEMMA StepTyped == Inv /\ Typed /\ [Next]_vars => Typed'
<1> SUFFICES ASSUME Inv, Typed, [Next]_vars PROVE Typed'
  OBVIOUS
<1>1. CASE Listen \/ Publish \/ AcceptClosed \/ Stop \/ (\E c \in Conns : Accept(c))
  BY <1>1, ContainerTyped
<1>2. ASSUME NEW c \in Conns, AddConnector(c) PROVE Typed'
  BY <1>2, ReaderTyped
<1>3. ASSUME NEW c \in Conns, NEW i \in 1..MaxLen, Handle(c, i) PROVE Typed'
  BY <1>3, HandleIsCallStep, HandlerSteps, CallStepTyped DEF HandlerShape
<1>4. ASSUME NEW c \in Conns, Writer(c) PROVE Typed'
  BY <1>4, WriterSteps, WriterTyped
<1>5. ASSUME NEW c \in Conns,
             ClientDials(c) \/ ClientAsks(c) \/ ClientLeaves(c) \/ DeadlinePasses(c)
      PROVE  Typed'
  BY <1>5, ClientTyped
<1>6. ASSUME NEW u \in DOMAIN ups, UpstreamServes(u) \/ UpstreamDies(u) PROVE Typed'
  BY <1>6, UpstreamTyped
<1>7. CASE UNCHANGED vars
  <2>1. UNCHANGED <<closed, startPc, listening, script, sent, late, rpc, cur, tls, mapOf, h, maps,
                    free, ups, served, ch, chClosed, wpc, wcur>>
    BY <1>7 DEF vars, containerVars, clientVars, readVars, poolVars, upVars, chVars, writerVars
  <2>2. StartTypes' /\ ClientTypes' /\ ReadTypes'
    BY <2>1 DEF Typed, StartTypes, ClientTypes, ReadTypes
  <2>3. CallTypes' /\ PoolTypes' /\ WriterTypes'
    BY <2>1, SameConnections
  <2>4. Routed'
    BY <2>1 DEF Typed, Routed, Req
  <2>5. QED BY <2>2, <2>3, <2>4 DEF Typed
<1>8. QED BY <1>1, <1>2, <1>3, <1>4, <1>5, <1>6, <1>7 DEF Next, Finished

LEMMA TypesInvariant == Spec => [](Inv /\ Typed)
<1>1. Init => Typed
  BY InitTyped
<1>2. Inv /\ Typed /\ [Next]_vars => Typed'
  BY StepTyped
<1>3. QED BY <1>1, <1>2, Invariance, PTL DEF Spec

\* Every variable keeps its type, for any connections, servers, maps and hooks: among others
\* clientWriteCh keeps to its capacity, no request is counted that has not been asked, and
\* a connection a handler or a map names is one that has been made (core/mitm.go:98-408,
\* core/client-connector-server.go:79-197).
THEOREM TypeCorrect == Spec => []TypeOK
<1>1. Inv /\ Typed => TypeOK
  BY TypedIsTypeOK
<1>2. QED BY <1>1, TypesInvariant, PTL

-----------------------------------------------------------------------------
(* Requests are executed at most twice *)

Carries(u, r) == \E k \in 1..Len(ups[u].inq) : ups[u].inq[k] = r

Holding(r) == {u \in 1..Len(ups) : Carries(u, r)}

\* A request is executed, on its way, or still to be written, at most twice in all.
Budget ==
  \A r \in Requests : Cardinality(Holding(r)) + served[r] + LeftOf(h[r]) <= 2

\* No connection carries a request twice.
Distinct ==
  \A u \in 1..Len(ups) : \A j, k \in 1..Len(ups[u].inq) :
    ups[u].inq[j] = ups[u].inq[k] => j = k

\* A retry is made on a connection that does not carry the request, though it may carry
\* those of other handlers.
Renewed == \A r \in Requests : Again(h[r]) => ~Carries(h[r].conn, r)

Sparing == Budget /\ Distinct /\ Renewed

LEMMA HoldingFinite ==
  ASSUME Typed, NEW r
  PROVE  IsFiniteSet(Holding(r)) /\ Cardinality(Holding(r)) \in Nat
<1>1. Len(ups) \in Nat
  BY ConnectionType
<1>2. IsFiniteSet(1..Len(ups))
  BY <1>1, FS_Interval
<1>3. IsFiniteSet(Holding(r))
  BY <1>2, FS_Subset DEF Holding
<1>4. QED BY <1>3, FS_CardinalityType

\* What is known of a call's request.
LEMMA CallBudget ==
  ASSUME Typed, NEW r \in Requests
  PROVE  /\ h[r] \in Calls(Len(ups)) /\ LeftOf(h[r]) \in 0..2 /\ served[r] \in Nat
         /\ Budget => Cardinality(Holding(r)) + served[r] + LeftOf(h[r]) <= 2
<1>1. h[r] \in Calls(Len(ups)) /\ served[r] \in Nat
  BY DEF Typed, CallTypes, PoolTypes
<1>2. LeftOf(h[r]) \in 0..2
  BY <1>1, LeftRange
<1>3. QED BY <1>1, <1>2 DEF Budget

\* The steps that neither bring a request to a connection nor let a server execute one.
Calm ==
  /\ UNCHANGED served /\ NothingAsked /\ Len(ups) <= Len(ups')
  /\ \A r \in Requests : Spends(r, h'[r])

LEMMA CalmSpares ==
  ASSUME Typed, Typed', Sparing, Calm
  PROVE  Sparing'
<1> USE DEF Sparing, Calm
<1>1. Len(ups) \in Nat /\ Len(ups') \in Nat
  BY DEF Typed, PoolTypes
<1>2. Distinct'
  BY DEF Distinct, NothingAsked
<1>3. ASSUME NEW u \in 1..Len(ups'), NEW r, Carries(u, r)'
      PROVE  u \in 1..Len(ups) /\ Carries(u, r)
  <2>1. PICK k \in 1..Len(ups'[u].inq) : ups'[u].inq[k] = r
    BY <1>3 DEF Carries
  <2>2. ups'[u].inq # <<>>
    BY <2>1
  <2>3. QED BY <2>1, <2>2 DEF NothingAsked, Carries
<1>4. Renewed'
  <2> SUFFICES ASSUME NEW r \in Requests, Again(h'[r]), NEW v, v = h'[r].conn
               PROVE  ~Carries(v, r)'
    BY DEF Renewed, Carries
  <2>1. v = h'[r].conn
    OBVIOUS
  <2>2. v \in 1..Len(ups')
    <3>1. h'[r] \in Calls(Len(ups'))
      BY DEF Typed, CallTypes
    <3>2. QED BY <1>1, <2>1, <3>1 DEF Again, Calls, CallRecord, UsingPcs
  <2>3. ~Carries(v, r)'
    <3>1. CASE Again(h[r]) /\ v = h[r].conn
      <4>1. ~Carries(v, r)
        BY <3>1 DEF Renewed
      <4>2. QED BY <1>3, <2>2, <4>1
    <3>2. CASE ups'[v].inq = <<>>
      BY <3>2 DEF Carries
    <3>3. QED BY <2>1, <3>1, <3>2 DEF Spends
  <2>4. QED BY <2>3
<1>5. Budget'
  <2> SUFFICES ASSUME NEW r \in Requests
               PROVE  Cardinality(Holding(r)') + served'[r] + LeftOf(h'[r]) <= 2
    BY DEF Budget
  <2>1. Holding(r)' \subseteq Holding(r)
    BY <1>3 DEF Holding
  <2>2. /\ Cardinality(Holding(r)') <= Cardinality(Holding(r))
        /\ Cardinality(Holding(r)') \in Nat /\ Cardinality(Holding(r)) \in Nat
    BY <2>1, HoldingFinite, FS_Subset, FS_CardinalityType
  <2>3. LeftOf(h'[r]) <= LeftOf(h[r]) /\ LeftOf(h'[r]) \in 0..2
    <3>1. h'[r] \in Calls(Len(ups'))
      BY DEF Typed, CallTypes
    <3>2. QED BY <3>1, LeftRange DEF Spends
  <2>4. /\ served[r] \in Nat /\ LeftOf(h[r]) \in 0..2
        /\ Cardinality(Holding(r)) + served[r] + LeftOf(h[r]) <= 2
    BY CallBudget
  <2>5. served'[r] = served[r]
    OBVIOUS
  <2> HIDE DEF Sparing, Calm
  <2>6. QED BY <2>2, <2>3, <2>4, <2>5
<1>6. QED BY <1>2, <1>4, <1>5

\* A handler writes its request.
LEMMA AsksSpares ==
  ASSUME Typed, Typed', Sparing, NEW r \in Requests, NEW f, Becomes(r, f), Asks(r, f),
         UNCHANGED served
  PROVE  Sparing'
<1> USE DEF Sparing
<1>0. PICK w : w = h[r].conn
  OBVIOUS
<1>1. /\ Len(ups) \in Nat /\ Len(ups') = Len(ups)
      /\ h \in [Requests -> Calls(Len(ups))] /\ h[r].pc = "write"
      /\ h'[r] = f /\ \A q \in Requests : q # r => h'[q] = h[q]
  BY DEF Becomes, Asks, Typed, CallTypes, PoolTypes
<1>2. w \in 1..Len(ups)
  <2>1. h[r] \in Calls(Len(ups))
    BY <1>1
  <2>2. QED BY <1>0, <1>1, <2>1 DEF Calls, CallRecord, UsingPcs
<1>3. ups[w].inq \in Seq(Requests)
  BY <1>2, ConnectionType
<1>4. /\ Len(ups'[w].inq) = Len(ups[w].inq) + 1
      /\ ups'[w].inq[Len(ups[w].inq) + 1] = r
      /\ \A k \in 1..Len(ups[w].inq) : ups'[w].inq[k] = ups[w].inq[k]
      /\ Len(ups[w].inq) \in Nat
  <2>1. ups'[w].inq = Append(ups[w].inq, r)
    BY <1>0 DEF Asks
  <2>2. QED BY <1>3, <2>1, AppendProperties
<1>5. \A u \in 1..Len(ups) : u # w => ups'[u].inq = ups[u].inq
  BY <1>0 DEF Asks
<1>6. /\ served[r] \in Nat /\ LeftOf(h[r]) \in 0..2
      /\ Cardinality(Holding(r)) + served[r] + LeftOf(h[r]) <= 2
      /\ Cardinality(Holding(r)) \in Nat
  BY CallBudget, HoldingFinite
<1>7. ~Carries(w, r)
  <2>1. CASE h[r].try = 2
    BY <1>0, <1>1, <2>1 DEF Renewed, Again
  <2>2. CASE h[r].try # 2
    <3>1. h[r].try = 1
      BY <1>1, <2>2 DEF Calls, CallRecord
    <3>2. LeftOf(h[r]) = 2
      BY <1>1, <3>1 DEF LeftOf, BeforePcs
    <3>3. Cardinality(Holding(r)) = 0
      BY <1>6, <3>2
    <3>4. Holding(r) = {}
      BY <3>3, HoldingFinite, FS_EmptySet
    <3>5. QED BY <1>2, <3>4 DEF Holding
  <2>3. QED BY <2>1, <2>2
<1>8. \A k \in 1..Len(ups'[w].inq) :
        \/ k \in 1..Len(ups[w].inq) /\ ups'[w].inq[k] = ups[w].inq[k]
        \/ k = Len(ups[w].inq) + 1 /\ ups'[w].inq[k] = r
  BY <1>4
<1>9. ASSUME NEW q, q # r, NEW u \in 1..Len(ups), Carries(u, q)' PROVE Carries(u, q)
  <2>1. CASE u # w
    BY <1>5, <1>9, <2>1 DEF Carries
  <2>2. CASE u = w
    <3>1. PICK k \in 1..Len(ups'[w].inq) : ups'[w].inq[k] = q
      BY <1>9, <2>2 DEF Carries
    <3>2. QED BY <1>8, <1>9, <2>2, <3>1 DEF Carries
  <2>3. QED BY <2>1, <2>2
<1>10. Distinct'
  <2> SUFFICES ASSUME NEW u \in 1..Len(ups), NEW j \in 1..Len(ups'[u].inq),
                      NEW k \in 1..Len(ups'[u].inq), ups'[u].inq[j] = ups'[u].inq[k]
               PROVE  j = k
    BY <1>1 DEF Distinct
  <2>1. CASE u # w
    BY <1>5, <2>1 DEF Distinct
  <2>2. CASE u = w
    <3>1. \A l \in 1..Len(ups[w].inq) : ups[w].inq[l] # r
      BY <1>7 DEF Carries
    <3>2. \A l, m \in 1..Len(ups[w].inq) : ups[w].inq[l] = ups[w].inq[m] => l = m
      BY <1>2 DEF Distinct
    <3>3. QED BY <1>8, <2>2, <3>1, <3>2
  <2>3. QED BY <2>1, <2>2
<1>11. Renewed'
  <2> SUFFICES ASSUME NEW q \in Requests, Again(h'[q]), NEW v, v = h'[q].conn
               PROVE  ~Carries(v, q)'
    BY DEF Renewed, Carries
  <2>1. q # r
    BY <1>1 DEF Asks
  <2>2. h'[q] = h[q]
    BY <1>1, <2>1
  <2>3. v = h[q].conn
    BY <2>2
  <2>4. v \in 1..Len(ups)
    <3>1. h[q] \in Calls(Len(ups))
      BY <1>1
    <3>2. QED BY <1>1, <2>2, <2>3, <3>1 DEF Again, Calls, CallRecord, UsingPcs
  <2>5. ~Carries(v, q)
    BY <2>2, <2>3 DEF Renewed
  <2>6. ~Carries(v, q)'
    BY <1>9, <2>1, <2>4, <2>5
  <2>7. QED BY <2>6
<1>12. Budget'
  <2> SUFFICES ASSUME NEW q \in Requests
               PROVE  Cardinality(Holding(q)') + served[q] + LeftOf(h'[q]) <= 2
    BY DEF Budget
  <2>1. CASE q = r
    <3>1. Holding(r)' = Holding(r) \cup {w} /\ w \notin Holding(r)
      <4>1. ASSUME NEW u \in 1..Len(ups), u # w PROVE Carries(u, r)' <=> Carries(u, r)
        BY <1>5, <4>1 DEF Carries
      <4>2. Carries(w, r)'
        BY <1>4 DEF Carries
      <4>3. \A u : u \in Holding(r)' <=> u \in 1..Len(ups) /\ Carries(u, r)'
        BY <1>1 DEF Holding, Carries
      <4>4. \A u : u \in Holding(r) <=> u \in 1..Len(ups) /\ Carries(u, r)
        BY DEF Holding
      <4>5. \A u : u \in Holding(r)' <=> u \in Holding(r) \/ u = w
        BY <1>2, <4>1, <4>2, <4>3, <4>4
      <4>6. QED BY <1>7, <4>4, <4>5
    <3>2. Cardinality(Holding(r)') = Cardinality(Holding(r)) + 1
      BY <3>1, HoldingFinite, FS_AddElement
    <3>3. LeftOf(h'[r]) = LeftOf(h[r]) - 1
      BY <1>1 DEF Asks
    <3> HIDE DEF LeftOf, Holding, Sparing
    <3>4. QED BY <1>6, <2>1, <3>2, <3>3
  <2>2. CASE q # r
    <3>1. Holding(q)' \subseteq Holding(q)
      BY <1>1, <1>9, <2>2 DEF Holding
    <3>2. /\ Cardinality(Holding(q)') <= Cardinality(Holding(q))
          /\ Cardinality(Holding(q)') \in Nat /\ Cardinality(Holding(q)) \in Nat
      BY <3>1, HoldingFinite, FS_Subset, FS_CardinalityType
    <3>3. h'[q] = h[q]
      BY <1>1, <2>2
    <3>4. /\ served[q] \in Nat /\ LeftOf(h[q]) \in 0..2
          /\ Cardinality(Holding(q)) + served[q] + LeftOf(h[q]) <= 2
      BY CallBudget
    <3> HIDE DEF LeftOf, Holding, Sparing
    <3>5. QED BY <3>2, <3>3, <3>4
  <2>3. QED BY <2>1, <2>2
<1>13. QED BY <1>10, <1>11, <1>12


\* A server that executes a request takes it off its connection.
LEMMA TakesSpares ==
  ASSUME Typed, Typed', Sparing, NEW u, Takes(u), UNCHANGED h
  PROVE  Sparing'
<1> USE DEF Sparing
<1>0. PICK r : r = Head(ups[u].inq)
  OBVIOUS
<1>1. /\ u \in 1..Len(ups) /\ Len(ups') = Len(ups) /\ r \in Requests
      /\ \A v \in 1..Len(ups) : v # u => ups'[v].inq = ups[v].inq
      /\ ups'[u].inq = Tail(ups[u].inq) /\ ups[u].inq # <<>>
      /\ served' = [served EXCEPT ![r] = @ + 1]
  BY <1>0 DEF Takes
<1>2. /\ Len(ups'[u].inq) = Len(ups[u].inq) - 1 /\ Len(ups[u].inq) \in Nat \ {0}
      /\ \A k \in 1..Len(ups'[u].inq) :
           k + 1 \in 1..Len(ups[u].inq) /\ ups'[u].inq[k] = ups[u].inq[k + 1]
      /\ ups[u].inq[1] = r
  <2>1. ups[u].inq \in Seq(Requests)
    BY <1>1, ConnectionType
  <2>2. Len(ups[u].inq) \in Nat \ {0} /\ ups[u].inq[1] = r
    BY <1>0, <1>1, <2>1, EmptySeq
  <2>3. QED BY <1>1, <2>1, <2>2, HeadTailProperties
<1>3. ASSUME NEW v \in 1..Len(ups), NEW q, Carries(v, q)'
      PROVE  Carries(v, q) /\ (q = r => v # u)
  <2>1. CASE v # u
    BY <1>1, <1>3, <2>1 DEF Carries
  <2>2. CASE v = u
    <3>1. PICK k \in 1..Len(ups'[u].inq) : ups'[u].inq[k] = q
      BY <1>3, <2>2 DEF Carries
    <3>2. k + 1 \in 1..Len(ups[u].inq) /\ ups[u].inq[k + 1] = q /\ 1 \in 1..Len(ups[u].inq)
      BY SMTT(20), <1>2, <3>1
    <3>3. q # r
      BY <1>1, <1>2, <3>1, <3>2 DEF Distinct
    <3>4. QED BY <2>2, <3>2, <3>3 DEF Carries
  <2>3. QED BY <2>1, <2>2
<1>4. Distinct'
  <2> SUFFICES ASSUME NEW v \in 1..Len(ups), NEW j \in 1..Len(ups'[v].inq),
                      NEW k \in 1..Len(ups'[v].inq), ups'[v].inq[j] = ups'[v].inq[k]
               PROVE  j = k
    BY <1>1 DEF Distinct
  <2>1. CASE v # u
    BY <1>1, <2>1 DEF Distinct
  <2>2. CASE v = u
    <3>1. j \in 1..Len(ups'[u].inq) /\ k \in 1..Len(ups'[u].inq)
          /\ ups'[u].inq[j] = ups'[u].inq[k]
      BY <2>2
    <3> HIDE DEF Sparing
    <3>2. /\ j + 1 \in 1..Len(ups[u].inq) /\ k + 1 \in 1..Len(ups[u].inq)
          /\ ups[u].inq[j + 1] = ups[u].inq[k + 1]
      BY <1>2, <3>1
    <3> USE DEF Sparing
    <3>3. j + 1 = k + 1
      BY <1>1, <3>1, <3>2 DEF Distinct
    <3>4. QED BY <3>3
  <2>3. QED BY <2>1, <2>2
<1>5. Renewed'
  <2> SUFFICES ASSUME NEW q \in Requests, Again(h[q]), NEW v, v = h[q].conn
               PROVE  ~Carries(v, q)'
    BY DEF Renewed, Carries
  <2>1. v \in 1..Len(ups)
    BY CallBudget, ConnectionType DEF Again, Calls, CallRecord, UsingPcs
  <2>2. ~Carries(v, q)
    BY DEF Renewed
  <2>3. QED BY <1>3, <2>1, <2>2
<1>6. Budget'
  <2> SUFFICES ASSUME NEW q \in Requests
               PROVE  Cardinality(Holding(q)') + served'[q] + LeftOf(h[q]) <= 2
    BY DEF Budget
  <2>1. /\ served[q] \in Nat /\ LeftOf(h[q]) \in 0..2
        /\ Cardinality(Holding(q)) + served[q] + LeftOf(h[q]) <= 2
        /\ Cardinality(Holding(q)) \in Nat
        /\ served \in [Requests -> Nat]
    BY CallBudget, HoldingFinite DEF Typed, PoolTypes
  <2>2. CASE q = r
    <3>1. Holding(q)' \subseteq Holding(q) \ {u}
      BY <1>1, <1>3, <2>2 DEF Holding
    <3>2. u \in Holding(q)
      BY <1>1, <1>2, <2>2 DEF Holding, Carries
    <3>3. IsFiniteSet(Holding(q) \ {u})
          /\ Cardinality(Holding(q) \ {u}) = Cardinality(Holding(q)) - 1
      BY <3>2, HoldingFinite, FS_RemoveElement
    <3>4. Cardinality(Holding(q)') <= Cardinality(Holding(q)) - 1
          /\ Cardinality(Holding(q)') \in Nat
      BY <3>1, <3>3, FS_Subset, FS_CardinalityType
    <3>5. served'[q] = served[q] + 1
      BY <1>1, <2>1, <2>2
    <3> HIDE DEF Holding, LeftOf, Sparing
    <3>6. QED BY <2>1, <3>4, <3>5
  <2>3. CASE q # r
    <3>1. Holding(q)' \subseteq Holding(q)
      BY <1>1, <1>3 DEF Holding
    <3>2. /\ Cardinality(Holding(q)') <= Cardinality(Holding(q))
          /\ Cardinality(Holding(q)') \in Nat
      BY <3>1, HoldingFinite, FS_Subset, FS_CardinalityType
    <3>3. served'[q] = served[q]
      BY <1>1, <2>1, <2>3
    <3> HIDE DEF Holding, LeftOf, Sparing
    <3>4. QED BY <2>1, <3>2, <3>3
  <2>4. QED BY <2>2, <2>3
<1>7. QED BY <1>4, <1>5, <1>6

\* The steps that change no call spend nothing.
LEMMA QuietIsCalm ==
  ASSUME Typed, UNCHANGED <<h, served>>, NothingAsked, Len(ups) <= Len(ups')
  PROVE  Calm
<1>1. \A r \in Requests : LeftOf(h[r]) \in 0..2
  BY CallBudget
<1>2. \A r \in Requests : Spends(r, h[r])
  BY <1>1 DEF Spends
<1>3. QED BY <1>2 DEF Calm

\* A request that is read has both attempts.
LEMMA ReaderCalm ==
  ASSUME Inv, Typed, NEW c \in Conns, AddConnector(c)
  PROVE  Calm
<1>1. Len(ups) \in Nat
  BY ConnectionType
<1>2. CASE DropServers(c)
  <2>1. /\ Len(ups') = Len(ups) /\ UNCHANGED <<h, served>>
        /\ \A u \in 1..Len(ups) : ups'[u].inq = ups[u].inq
    BY <1>2, DropServersTyped
  <2>2. NothingAsked
    BY <2>1 DEF NothingAsked
  <2>3. QED BY <1>1, <2>1, <2>2, QuietIsCalm
<1>3. CASE ReadRequest(c)
  <2> DEFINE i == cur[c] + 1
  <2>1. /\ cur[c] \in Nat /\ sent[c] \in Nat /\ cur[c] < sent[c] /\ i \in Nat /\ i > 0
        /\ i <= sent[c] /\ i > cur[c]
        /\ h' = h \/ h' = [h EXCEPT ![<<c, i>>].pc = "route"]
        /\ UNCHANGED <<ups, served>>
    BY <1>3 DEF ReadRequest, ReadFrame, upVars, Inv, Types, Typed, ClientTypes
  <2>2. <<c, i>> \in Requests /\ i \in 1..MaxLen
    BY <2>1, RequestRead
  <2>3. PICK f : f = [h[<<c, i>>] EXCEPT !.pc = "route"]
    OBVIOUS
  <2>4. /\ h[<<c, i>>] \in Calls(Len(ups)) /\ h[<<c, i>>].pc = "none" /\ h[<<c, i>>].try = 1
        /\ h \in [Requests -> Calls(Len(ups))]
    BY <2>1, <2>2 DEF Typed, CallTypes
  <2>5. f.pc = "route" /\ f.try = 1
    BY <2>3, <2>4 DEF Calls, CallRecord
  <2>6. Spends(<<c, i>>, f)
    BY <2>4, <2>5 DEF Spends, LeftOf, Again, BeforePcs
  <2>7. \A r \in Requests : h'[r] = h[r] \/ (r = <<c, i>> /\ h'[r] = f)
    BY <2>1, <2>3, <2>4
  <2>8. ASSUME NEW r \in Requests PROVE Spends(r, h'[r])
    <3>1. LeftOf(h[r]) \in 0..2
      BY CallBudget
    <3>2. Spends(r, h[r])
      BY <3>1 DEF Spends
    <3>3. QED BY <2>6, <2>7, <3>2
  <2>9. QED BY <1>1, <2>1, <2>8, NoTraffic DEF Calm
<1>4. CASE ~DropServers(c) /\ ~ReadRequest(c)
  <2>1. UNCHANGED <<h, ups, served>>
    BY <1>4 DEF AddConnector, Register, Refuse, ReadFails, UpgradeClient2Tls, Unregister,
                CloseClient, ReadFrame, upVars
  <2>2. QED BY <1>1, <2>1, NoTraffic, QuietIsCalm
<1>5. QED BY <1>2, <1>3, <1>4

LEMMA HandlerSpares ==
  ASSUME Inv, Typed, Typed', Sparing, NEW c \in Conns, NEW i \in 1..MaxLen, CallStep(c, i)
  PROVE  Sparing'
<1> DEFINE r == <<c, i>>
<1>1. r \in Requests
  BY DEF Requests
<1>2. PICK f : /\ Becomes(r, f)
               /\ \/ NothingAsked /\ Spends(r, f)
                  \/ Asks(r, f)
  BY DEF CallStep
<1>3. UNCHANGED served /\ Len(ups) <= Len(ups')
  BY DEF CallStep
<1>4. CASE NothingAsked /\ Spends(r, f)
  <2>1. h \in [Requests -> Calls(Len(ups))]
    BY DEF Typed, CallTypes
  <2>2. h'[r] = f /\ \A q \in Requests : q # r => h'[q] = h[q]
    BY <1>1, <1>2, <2>1 DEF Becomes
  <2>3. ASSUME NEW q \in Requests PROVE Spends(q, h'[q])
    <3>1. LeftOf(h[q]) \in 0..2
      BY CallBudget
    <3>2. Spends(q, h[q])
      BY <3>1 DEF Spends
    <3>3. CASE q = r
      BY <1>4, <2>2, <3>3
    <3>4. CASE q # r
      BY <2>2, <3>2, <3>4
    <3>5. QED BY <3>3, <3>4
  <2>4. QED BY <1>3, <1>4, <2>3, CalmSpares DEF Calm
<1>5. CASE Asks(r, f)
  BY <1>1, <1>2, <1>3, <1>5, AsksSpares
<1>6. QED BY <1>2, <1>4, <1>5

LEMMA StepSpares == Inv /\ Typed /\ Typed' /\ Sparing /\ [Next]_vars => Sparing'
<1> SUFFICES ASSUME Inv, Typed, Typed', Sparing, [Next]_vars PROVE Sparing'
  OBVIOUS
<1>0. Len(ups) \in Nat
  BY ConnectionType
<1>1. CASE UNCHANGED <<h, served, ups>>
  BY <1>0, <1>1, NoTraffic, QuietIsCalm, CalmSpares
<1>2. ASSUME Listen \/ Publish \/ AcceptClosed \/ Stop \/ (\E c \in Conns : Accept(c))
      PROVE  UNCHANGED <<h, served, ups>>
  BY <1>2 DEF Listen, Publish, AcceptClosed, Stop, Accept, StartFrame, upVars
<1>3. ASSUME NEW c \in Conns, AddConnector(c) PROVE Sparing'
  BY <1>3, ReaderCalm, CalmSpares
<1>4. ASSUME NEW c \in Conns, NEW i \in 1..MaxLen, Handle(c, i) PROVE Sparing'
  BY <1>4, HandleIsCallStep, HandlerSpares
<1>5. ASSUME NEW c \in Conns, Writer(c) PROVE Sparing'
  <2>1. UNCHANGED <<h, served>> /\ NothingAsked /\ Len(ups) <= Len(ups')
    BY <1>0, <1>5, WriterSteps DEF WriterStep
  <2>2. QED BY <2>1, QuietIsCalm, CalmSpares
<1>6. ASSUME NEW c \in Conns,
             ClientDials(c) \/ ClientAsks(c) \/ ClientLeaves(c) \/ DeadlinePasses(c)
      PROVE  UNCHANGED <<h, served, ups>>
  BY <1>6, ClientTyped
<1>7. ASSUME NEW u \in DOMAIN ups, UpstreamServes(u) \/ UpstreamDies(u) PROVE Sparing'
  <2>1. /\ UNCHANGED h /\ Len(ups') = Len(ups)
        /\ (UNCHANGED served /\ NothingAsked) \/ Takes(u)
    BY <1>7, UpstreamTyped
  <2>2. CASE UNCHANGED served /\ NothingAsked
    BY <1>0, <2>1, <2>2, QuietIsCalm, CalmSpares
  <2>3. CASE Takes(u)
    BY <2>1, <2>3, TakesSpares
  <2>4. QED BY <2>1, <2>2, <2>3
<1>8. CASE UNCHANGED vars
  BY <1>1, <1>8 DEF vars, upVars
<1>9. QED BY <1>1, <1>2, <1>3, <1>4, <1>5, <1>6, <1>7, <1>8 DEF Next, Finished

LEMMA InitSpares == Init => Sparing
<1> SUFFICES ASSUME Init PROVE Sparing
  OBVIOUS
<1>1. Len(ups) = 0
  BY DEF Init
<1>2. \A r \in Requests : Holding(r) = {}
  BY <1>1 DEF Holding
<1>3. \A r \in Requests : LeftOf(h[r]) = 2 /\ ~Again(h[r]) /\ served[r] = 0
  BY DEF Init, Unread, LeftOf, Again, BeforePcs
<1>4. Budget
  BY <1>2, <1>3, FS_EmptySet DEF Budget
<1>5. QED BY <1>1, <1>3, <1>4 DEF Sparing, Distinct, Renewed

LEMMA SparingInvariant == Spec => []Sparing
<1>1. Init => Sparing
  BY InitSpares
<1>2. Inv /\ Typed /\ Typed' /\ Sparing /\ [Next]_vars => Sparing'
  BY StepSpares
<1>3. QED BY <1>1, <1>2, TypesInvariant, PTL DEF Spec

\* DoRequest repeats a request at most once, on any error, and on a connection of its own:
\* though handlers share connections and maps are recycled, a server executes no request
\* more than twice (core/client-connector-server.go:118-197).
THEOREM RetriesOnce == Spec => []ServedAtMostTwice
<1>1. Typed /\ Sparing => ServedAtMostTwice
  <2> SUFFICES ASSUME Typed, Sparing, NEW r \in Requests PROVE served[r] <= 2
    BY DEF ServedAtMostTwice
  <2>1. /\ Cardinality(Holding(r)) \in Nat /\ LeftOf(h[r]) \in 0..2 /\ served[r] \in Nat
        /\ Cardinality(Holding(r)) + served[r] + LeftOf(h[r]) <= 2
    BY CallBudget, HoldingFinite DEF Sparing
  <2>2. QED BY <2>1
<1>2. QED BY <1>1, TypesInvariant, SparingInvariant, PTL

=============================================================================
