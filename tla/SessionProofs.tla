--------------------------- MODULE SessionProofs ---------------------------
(***************************************************************************)
(* The session keeps track of its upstream connections and executes no     *)
(* request too often, for any number of servers, any capacity of writeCh   *)
(* and whatever its client asks, pipelined or not.                         *)
(***************************************************************************)
EXTENDS Session, FiniteSetTheorems, SequenceTheorems, TLAPS

Connection == [st : {"open", "gone", "closed"}, inq : Seq(Requests), out : Seq(Parts)]

UsingPcs == {"write1", "write2", "write3", "read1", "read2", "hooks", "handshake", "tunnel"}
OverPcs == {"exit", "close", "done"}
IdlePcs == {"top", "read"} \cup OverPcs

\* A response that can be sent: its head answers a request, and its body is
\* another's or is still to be read from a connection.
Sendable(e) ==
  /\ e.of \in Requests
  /\ IF e.up = 0 THEN e.body \in Requests ELSE e.up \in 1..Len(ups)

\* What the types rest on: where serve handles a request there is one, how many
\* connections it can have made, and that what is on its way can be sent.
Handles ==
  /\ pc \notin IdlePcs => cur > 0
  /\ pc \in {"upgrade", "body", "route", "dial1"} => Len(ups) <= 3 * cur - 3
  /\ pc \in {"write1", "dial2"} => Len(ups) <= 3 * cur - 2
  /\ pc \in {"write2", "read1", "dial3"} => Len(ups) <= 3 * cur - 1
  /\ pc \in UsingPcs => conn \in 1..Len(ups)
  /\ pc \in {"submit", "hooks", "handshake"} => Sendable(entry)
  /\ \A i \in 1..Len(writeCh) : Sendable(writeCh[i])
  /\ wpc \in {"stream", "drain"} => Sendable(wcur) /\ wcur.up # 0

\* The types, by part of the state.
ClientTypes ==
  /\ script \in Scripts
  /\ sent \in 0..Len(script)
  /\ got \in Seq(Parts)
  /\ sock \in {"open", "shut", "closed"}
  /\ deadline \in {"off", "armed", "expired"}

ServeTypes ==
  /\ pc \in ServePcs
  /\ cur \in 0..sent
  /\ drained \in BOOLEAN
  /\ conn \in 0..Len(ups)
  /\ entry \in Entry
  /\ cancelled \in BOOLEAN

PoolTypes ==
  /\ servers \in [Hosts -> 0..Len(ups)]
  /\ ups \in Seq(Connection)
  /\ Len(ups) <= 3 * cur
  /\ served \in [Requests -> Nat]

WriterTypes ==
  /\ writeCh \in Seq(Entry)
  /\ Len(writeCh) <= Cap
  /\ chClosed \in BOOLEAN
  /\ wpc \in {"idle", "stream", "drain", "done"}
  /\ wcur \in Entry

Types == ClientTypes /\ ServeTypes /\ PoolTypes /\ WriterTypes /\ Handles

-----------------------------------------------------------------------------
(* Types *)

LEMMA TypesAreTypeOK == Types => TypeOK
BY DEF Types, TypeOK, ClientTypes, ServeTypes, PoolTypes, WriterTypes, Connection

\* A response that could be sent can be sent when there are more connections.
LEMMA StillSendable ==
  ASSUME NEW e, Sendable(e), script' = script, Len(ups) \in Nat, Len(ups') \in Nat,
         Len(ups') >= Len(ups)
  PROVE  Sendable(e)'
BY DEF Sendable, Requests

LEMMA SameScript ==
  ASSUME script' = script
  PROVE  Requests' = Requests /\ Parts' = Parts /\ Entry' = Entry /\ Connection' = Connection
BY DEF Requests, Parts, Entry, Connection

\* The request that serve handles.
LEMMA CurrentRequest ==
  ASSUME Types, cur > 0
  PROVE  /\ cur \in Requests /\ req \in Request /\ req.host \in Hosts
         /\ Sendable(Local(cur)) /\ Local(cur) \in Entry
<1>1. script \in Seq(Request) /\ Len(script) \in Nat
  BY SessionAssumption DEF Types, ClientTypes
<1>2. cur \in Requests
  BY <1>1 DEF Types, ClientTypes, ServeTypes, Requests
<1>3. req \in Request
  BY <1>1, <1>2 DEF Requests, req
<1>4. req.host \in Hosts
  BY <1>3 DEF Request
<1>5. Local(cur) \in Entry
  BY <1>2, SessionAssumption DEF Local, Entry, Requests, MaxUps
<1>6. QED BY <1>2, <1>3, <1>4, <1>5 DEF Sendable, Local

\* The number of connections does not exceed the bound of the model.
LEMMA FewConnections ==
  ASSUME Types
  PROVE  /\ Len(script) \in Nat /\ Len(script) <= MaxLen
         /\ cur \in Nat /\ cur <= Len(script)
         /\ Len(ups) \in Nat /\ Len(ups) <= MaxUps /\ MaxUps \in Nat
<1>1. Len(script) \in Nat /\ Len(script) <= MaxLen /\ MaxLen \in Nat
  BY SessionAssumption DEF Types, ClientTypes
<1>2. cur \in Nat /\ cur <= Len(script)
  BY <1>1 DEF Types, ClientTypes, ServeTypes
<1>3. Len(ups) \in Nat
  BY DEF Types, PoolTypes
<1>4. Len(ups) <= 3 * cur
  BY DEF Types, PoolTypes
<1>5. QED BY <1>1, <1>2, <1>3, <1>4 DEF MaxUps

\* What is delivered to the client keeps the type of got.
LEMMA DeliverType ==
  ASSUME NEW parts, parts \in Seq(Parts), got \in Seq(Parts), Deliver(parts)
  PROVE  got' \in Seq(Parts)
BY ConcatProperties DEF Deliver

LEMMA PartsOfResponse ==
  ASSUME NEW e, Sendable(e)
  PROVE  /\ <<Part("head", e.of)>> \in Seq(Parts)
         /\ e.up = 0 => Full(e) \in Seq(Parts)
<1>1. Part("head", e.of) \in Parts
  BY DEF Sendable, Part, Dlg!Part, Parts
<1>2. e.up = 0 => Part("body", e.body) \in Parts
  BY DEF Sendable, Part, Dlg!Part, Parts
<1>3. QED BY <1>1, <1>2, EmptySeq, AppendProperties DEF Full

LEMMA ConnectionType ==
  ASSUME Types
  PROVE  /\ ups \in Seq(Connection) /\ Len(ups) \in Nat
         /\ \A u \in 1..Len(ups) :
              /\ ups[u] \in Connection
              /\ ups[u].st \in {"open", "gone", "closed"}
              /\ ups[u].inq \in Seq(Requests) /\ ups[u].out \in Seq(Parts)
<1>1. ups \in Seq(Connection)
  BY DEF Types, PoolTypes
<1>2. \A u \in 1..Len(ups) : ups[u] \in Connection
  BY <1>1, ElementOfSeq
<1>3. QED BY <1>1, <1>2 DEF Connection

\* The next part of an upstream connection.
LEMMA NextPart ==
  ASSUME Types, NEW u \in 1..Len(ups), HasPart(u)
  PROVE  /\ Head(ups[u].out) \in Parts
         /\ Tail(ups[u].out) \in Seq(Parts)
         /\ Head(ups[u].out).of \in Requests
         /\ <<Part("body", Head(ups[u].out).of)>> \in Seq(Parts)
<1>1. ups[u].out \in Seq(Parts) /\ ups[u].out # <<>>
  BY ConnectionType DEF HasPart
<1>2. Head(ups[u].out) \in Parts /\ Tail(ups[u].out) \in Seq(Parts)
  BY <1>1, HeadTailProperties
<1>3. Head(ups[u].out).of \in Requests
  BY <1>2 DEF Parts
<1>4. Part("body", Head(ups[u].out).of) \in Parts
  BY <1>3 DEF Part, Dlg!Part, Parts
<1>5. QED BY <1>2, <1>3, <1>4

\* Changing one connection.
LEMMA OneChanged ==
  ASSUME ups \in Seq(Connection), NEW u \in 1..Len(ups), NEW f \in Connection,
         ups' = [ups EXCEPT ![u] = f]
  PROVE  /\ ups' \in Seq(Connection) /\ Len(ups') = Len(ups)
         /\ ups'[u] = f
         /\ \A v \in 1..Len(ups) : v # u => ups'[v] = ups[v]
<1>1. /\ [ups EXCEPT ![u] = f] \in Seq(Connection)
      /\ Len([ups EXCEPT ![u] = f]) = Len(ups)
      /\ \A v \in 1..Len(ups) : [ups EXCEPT ![u] = f][v] = IF v = u THEN f ELSE ups[v]
  BY ExceptSeq
<1>2. QED BY <1>1

LEMMA TakePartChanges ==
  ASSUME Types, NEW u \in 1..Len(ups), HasPart(u), TakePart(u), script' = script
  PROVE  /\ ups' = [ups EXCEPT ![u] = [ups[u] EXCEPT !.out = Tail(@)]]
         /\ ups' \in Seq(Connection) /\ Len(ups') = Len(ups)
         /\ ups'[u].out = Tail(ups[u].out)
         /\ \A v \in 1..Len(ups) : v # u => ups'[v] = ups[v]
         /\ \A v \in 1..Len(ups) : ups'[v].st = ups[v].st /\ ups'[v].inq = ups[v].inq
<1>1. ups \in Seq(Connection) /\ ups[u] \in Connection
  BY ConnectionType
<1>2. [ups[u] EXCEPT !.out = Tail(@)] \in Connection
  BY <1>1, NextPart DEF Connection
<1>3. ups' = [ups EXCEPT ![u] = [ups[u] EXCEPT !.out = Tail(@)]]
  BY DEF TakePart
<1>4. /\ ups' \in Seq(Connection) /\ Len(ups') = Len(ups)
      /\ ups'[u] = [ups[u] EXCEPT !.out = Tail(@)]
      /\ \A v \in 1..Len(ups) : v # u => ups'[v] = ups[v]
  BY <1>1, <1>2, <1>3, OneChanged
<1>5. /\ ups'[u].st = ups[u].st /\ ups'[u].inq = ups[u].inq
      /\ ups'[u].out = Tail(ups[u].out)
  BY <1>1, <1>4 DEF Connection
<1>6. QED BY <1>3, <1>4, <1>5

\* The loop of serve keeps the types.
LEMMA LoopTypes ==
  ASSUME Types, Top \/ ReadRequest \/ ReadFails \/ UpgradeClient
  PROVE  Types'
<1> USE DEF Types, poolVars, writerVars, clientVars
<1>0. Len(script) \in Nat /\ cur \in Nat /\ Len(ups) \in Nat
  BY FewConnections
<1>1. /\ UNCHANGED <<script, sent, sock, drained, conn, entry, cancelled, poolVars,
                     writerVars>>
      /\ deadline' \in {deadline, "armed"}
  BY DEF Top, ReadRequest, ReadFails, UpgradeClient
<1>2. got' \in Seq(Parts)
  <2>1. CASE UpgradeClient
    <3>1. cur > 0  BY <2>1 DEF UpgradeClient, Handles, IdlePcs, OverPcs
    <3>2. Full(Local(cur)) \in Seq(Parts)
      BY <3>1, CurrentRequest, PartsOfResponse DEF Local
    <3>3. QED BY <2>1, <3>2, DeliverType DEF UpgradeClient, ClientTypes
  <2>2. CASE Top \/ ReadRequest \/ ReadFails
    BY <2>2 DEF Top, ReadRequest, ReadFails, ClientTypes
  <2>3. QED BY <2>1, <2>2
<1>3. ClientTypes' /\ WriterTypes'
  BY <1>1, <1>2, SameScript DEF ClientTypes, WriterTypes
<1>4. CASE ReadRequest
  <2>1. pc' \in {"upgrade", "body"} /\ cur < sent /\ cur' = cur + 1
    BY <1>4 DEF ReadRequest
  <2>2. cur' \in 0..sent
    BY <1>0, <2>1 DEF ClientTypes
  <2>3. Len(ups) <= 3 * cur' - 3 /\ Len(ups) <= 3 * cur'
    BY <2>1, <1>0 DEF PoolTypes
  <2>4. ServeTypes' /\ PoolTypes'
    BY <1>1, <2>1, <2>2, <2>3, SameScript DEF ServeTypes, PoolTypes, ServePcs
  <2>5. Handles'
    BY <1>1, <2>1, <2>3, <1>0 DEF Handles, Sendable, Requests, IdlePcs, OverPcs, UsingPcs
  <2>6. QED BY <1>3, <2>4, <2>5
<1>5. CASE Top \/ ReadFails \/ UpgradeClient
  <2>1. cur' = cur /\ pc' \in {"top", "read", "exit"}
    BY <1>5 DEF Top, ReadFails, UpgradeClient
  <2>2. ServeTypes' /\ PoolTypes'
    BY <1>1, <2>1, SameScript DEF ServeTypes, PoolTypes, ServePcs
  <2>3. Handles'
    BY <1>1, <2>1 DEF Handles, Sendable, Requests, IdlePcs, OverPcs, UsingPcs
  <2>4. QED BY <1>3, <2>2, <2>3
<1>6. QED BY <1>4, <1>5

\* So does what comes before and after forward.
LEMMA HandleTypes ==
  ASSUME Types, BufferBody \/ Route
  PROVE  Types'
<1> USE DEF Types, poolVars, writerVars, clientVars
<1>0. Len(script) \in Nat /\ cur \in Nat /\ Len(ups) \in Nat
  BY FewConnections
<1>1. /\ UNCHANGED <<script, clientVars, cur, drained, conn, cancelled, poolVars,
                     writerVars>>
      /\ pc \in {"body", "route"} /\ pc' \in {"submit", "route", "dial1"}
  BY DEF BufferBody, Route, HandleManage, ShortCircuit, BadGateway
<1>2. cur > 0
  BY <1>1 DEF Handles, IdlePcs, OverPcs
<1>3. entry' \in Entry /\ (pc' = "submit" => Sendable(entry'))
  <2>1. \/ pc' # "submit" /\ entry' = entry
        \/ entry' = Local(cur)
        \/ \E b \in BOOLEAN : entry' = [Local(cur) EXCEPT !.silent = b]
    BY DEF BufferBody, Route, HandleManage, ShortCircuit, BadGateway
  <2>2. QED BY <1>2, <2>1, CurrentRequest DEF ServeTypes, Local, Entry, Sendable
<1>4. ClientTypes' /\ WriterTypes' /\ PoolTypes'
  BY <1>1, SameScript DEF ClientTypes, WriterTypes, PoolTypes
<1>5. ServeTypes'
  BY <1>1, <1>3, SameScript DEF ServeTypes, ServePcs
<1>6. Handles'
  BY <1>1, <1>2, <1>3, <1>0 DEF Handles, Sendable, Requests, IdlePcs, OverPcs, UsingPcs
<1>7. QED BY <1>4, <1>5, <1>6

LEMMA SubmitTypes ==
  ASSUME Types, Submit
  PROVE  Types'
<1> USE DEF Types, poolVars, clientVars
<1>0. Len(script) \in Nat /\ cur \in Nat /\ Len(ups) \in Nat
  BY FewConnections
<1>1. /\ UNCHANGED <<script, clientVars, cur, cancelled, poolVars, chClosed, wpc, wcur>>
      /\ pc = "submit" /\ pc' \in {"exit", "top"}
  BY DEF Submit
<1>2. writeCh \in Seq(Entry) /\ Len(writeCh) \in Nat /\ entry \in Entry /\ Sendable(entry)
  BY <1>1 DEF WriterTypes, ServeTypes, Handles
<1>3. /\ writeCh' \in Seq(Entry) /\ Len(writeCh') <= Cap
      /\ \A i \in 1..Len(writeCh') : Sendable(writeCh'[i])
  <2>1. CASE writeCh' = writeCh
    BY <2>1 DEF WriterTypes, Handles
  <2>2. CASE Len(writeCh) < Cap /\ writeCh' = Append(writeCh, entry)
    <3>1. /\ writeCh' \in Seq(Entry) /\ Len(writeCh') = Len(writeCh) + 1
          /\ writeCh'[Len(writeCh) + 1] = entry
          /\ \A i \in 1..Len(writeCh) : writeCh'[i] = writeCh[i]
      BY <1>2, <2>2, AppendProperties
    <3>2. Len(writeCh') <= Cap
      BY <1>2, <2>2, <3>1, SessionAssumption
    <3>3. ASSUME NEW i \in 1..Len(writeCh') PROVE Sendable(writeCh'[i])
      BY <1>2, <3>1 DEF Handles
    <3>4. QED BY <3>1, <3>2, <3>3
  <2>3. QED BY <2>1, <2>2 DEF Submit
<1>4. drained' \in BOOLEAN
  BY DEF Submit
<1>5. conn' \in 0..Len(ups)
  BY <1>0 DEF Submit
<1>6. entry' \in Entry
  BY SessionAssumption, <1>0 DEF Submit, NoEntry, Local, Entry, MaxUps
<1>7. ClientTypes' /\ PoolTypes' /\ WriterTypes'
  BY <1>1, <1>3, SameScript DEF ClientTypes, PoolTypes, WriterTypes
<1>8. ServeTypes'
  BY <1>1, <1>4, <1>5, <1>6, SameScript DEF ServeTypes, ServePcs
<1>9. Handles'
  BY <1>1, <1>3 DEF Handles, Sendable, Requests, IdlePcs, OverPcs, UsingPcs
<1>10. QED BY <1>7, <1>8, <1>9
\* Where forward calls getServer, writeRequest and ReadResponse.
DialsAt(from, to) ==
  \/ from = "dial1" /\ to = "write1"
  \/ from = "dial2" /\ to = "write2"
  \/ from = "dial3" /\ to = "write3"

WritesAt(from, to, retry) ==
  \/ from = "write1" /\ to = "read1" /\ retry = "dial2"
  \/ from = "write2" /\ to = "read1" /\ retry = "no"
  \/ from = "write3" /\ to = "read2" /\ retry = "no"

ReadsAt(from, retry) ==
  \/ from = "read1" /\ retry = "dial3"
  \/ from = "read2" /\ retry = "no"

LEMMA ForwardSteps ==
  ASSUME Forward
  PROVE  \/ \E from, to : GetServer(from, to) /\ DialsAt(from, to)
         \/ \E from, to, retry : WriteRequest(from, to, retry) /\ WritesAt(from, to, retry)
         \/ \E from, retry : ReadResponse(from, retry) /\ ReadsAt(from, retry)
<1>1. /\ DialsAt("dial1", "write1") /\ DialsAt("dial2", "write2") /\ DialsAt("dial3", "write3")
      /\ WritesAt("write1", "read1", "dial2") /\ WritesAt("write2", "read1", "no")
      /\ WritesAt("write3", "read2", "no")
      /\ ReadsAt("read1", "dial3") /\ ReadsAt("read2", "no")
  BY DEF DialsAt, WritesAt, ReadsAt
<1>2. QED BY <1>1 DEF Forward

\* getServer, whose new connection is one more.
LEMMA GetServerTypes ==
  ASSUME Types, NEW from, NEW to, GetServer(from, to), DialsAt(from, to)
  PROVE  Types'
<1> USE DEF Types, DialsAt, writerVars, clientVars
<1>0. Len(script) \in Nat /\ cur \in Nat /\ Len(ups) \in Nat
  BY FewConnections
<1>1. /\ UNCHANGED <<script, clientVars, cur, drained, cancelled, served, writerVars>>
      /\ pc = from
  BY DEF GetServer
<1>2. cur > 0
  BY <1>1 DEF Handles, IdlePcs, OverPcs
<1>3. req.host \in Hosts /\ Local(cur) \in Entry /\ Sendable(Local(cur))
  BY <1>2, CurrentRequest
<1>4. Fresh("open") \in Connection /\ Fresh("closed") \in Connection
  BY EmptySeq DEF Fresh, Connection
<1>5. ASSUME NEW st \in {"open", "closed"}, ups' = Append(ups, Fresh(st))
      PROVE  ups' \in Seq(Connection) /\ Len(ups') = Len(ups) + 1
  BY <1>4, <1>5, AppendProperties DEF PoolTypes
<1>6. /\ ups' \in Seq(Connection) /\ Len(ups') \in {Len(ups), Len(ups) + 1}
      /\ servers' \in [Hosts -> 0..Len(ups')] /\ conn' \in 0..Len(ups')
      /\ entry' \in Entry
      /\ \/ pc' = "submit" /\ Sendable(entry')
         \/ pc' = to /\ conn' # 0
  <2>1. CASE servers[req.host] # 0 /\ conn' = servers[req.host]
             /\ pc' = to /\ UNCHANGED <<servers, ups, entry>>
    BY <2>1, <1>0, <1>3 DEF PoolTypes, ServeTypes
  <2>2. CASE NoServer
    BY <2>2, <1>0, <1>3 DEF NoServer, BadGateway, PoolTypes, ServeTypes
  <2>3. CASE BadServer
    <3>1. ups' \in Seq(Connection) /\ Len(ups') = Len(ups) + 1
      BY <2>3, <1>5 DEF BadServer
    <3>2. servers' \in [Hosts -> 0..Len(ups')]
      BY <2>3, <3>1, <1>0 DEF BadServer, PoolTypes
    <3>3. QED BY <2>3, <3>1, <3>2, <1>0, <1>3 DEF BadServer, BadGateway, ServeTypes
  <2>4. CASE NewServer /\ pc' = to
    <3>1. ups' \in Seq(Connection) /\ Len(ups') = Len(ups) + 1
      BY <2>4, <1>5 DEF NewServer
    <3>2. servers' \in [Hosts -> 0..Len(ups')]
      BY <2>4, <3>1, <1>0, <1>3 DEF NewServer, PoolTypes
    <3>3. QED BY <2>4, <3>1, <3>2, <1>0, <1>3 DEF NewServer, ServeTypes
  <2>5. QED BY <2>1, <2>2, <2>3, <2>4 DEF GetServer
<1>7. Len(ups') \in Nat /\ Len(ups') >= Len(ups) /\ Len(ups') <= Len(ups) + 1
  BY <1>0, <1>6
<1>8. /\ Len(ups') <= 3 * cur
      /\ pc' = "write1" => Len(ups') <= 3 * cur - 2
      /\ pc' = "write2" => Len(ups') <= 3 * cur - 1
  <2>1. /\ from = "dial1" => Len(ups) <= 3 * cur - 3
        /\ from = "dial2" => Len(ups) <= 3 * cur - 2
        /\ from = "dial3" => Len(ups) <= 3 * cur - 1
    BY <1>1 DEF Handles
  <2>2. /\ pc' = "write1" => from = "dial1"
        /\ pc' = "write2" => from = "dial2"
    BY <1>6
  <2>3. QED BY <1>0, <1>7, <2>1, <2>2
<1>9. ClientTypes' /\ WriterTypes'
  BY <1>1, SameScript DEF ClientTypes, WriterTypes
<1>10. ServeTypes'
  BY <1>1, <1>6, SameScript DEF ServeTypes, ServePcs
<1>11. PoolTypes'
  BY <1>1, <1>6, <1>8, SameScript DEF PoolTypes
<1>12. Handles'
  <2>1. \A i \in 1..Len(writeCh) : Sendable(writeCh[i])'
    BY <1>0, <1>1, <1>7, StillSendable DEF Handles
  <2>2. wpc \in {"stream", "drain"} => Sendable(wcur)'
    BY <1>0, <1>1, <1>7, StillSendable DEF Handles
  <2>3. pc' = "submit" => Sendable(entry)'
    BY <1>0, <1>1, <1>6, <1>7 DEF Sendable, Requests
  <2>4. pc' \in UsingPcs => conn' \in 1..Len(ups')
    BY <1>6, <1>7, <1>0 DEF UsingPcs
  <2>5. pc' \in {"submit", "write1", "write2", "write3"}
    BY <1>6
  <2>6. QED
    BY <1>1, <1>2, <1>8, <2>1, <2>2, <2>3, <2>4, <2>5 DEF Handles, IdlePcs, OverPcs, Sendable
<1>13. QED BY <1>9, <1>10, <1>11, <1>12

\* removeServer closes the connection, and may queue a 502.
LEMMA RemoveServerEffect ==
  ASSUME Types, NEW retry, RemoveServer(retry), script' = script, cur > 0,
         conn \in 1..Len(ups)
  PROVE  /\ ups' \in Seq(Connection) /\ Len(ups') = Len(ups)
         /\ ups'[conn] = Closed(conn)
         /\ \A v \in 1..Len(ups) : v # conn => ups'[v] = ups[v]
         /\ servers' \in [Hosts -> 0..Len(ups)]
         /\ entry' \in Entry
         /\ \/ pc' = "submit" /\ Sendable(entry')
            \/ pc' = retry /\ retry # "no" /\ entry' = entry
<1>1. Closed(conn) \in Connection
  BY ConnectionType, EmptySeq DEF Closed, Connection
<1>2. ups' = [ups EXCEPT ![conn] = Closed(conn)] /\ servers' = [servers EXCEPT ![req.host] = 0]
  BY DEF RemoveServer
<1>3. /\ ups' \in Seq(Connection) /\ Len(ups') = Len(ups)
      /\ ups'[conn] = Closed(conn)
      /\ \A v \in 1..Len(ups) : v # conn => ups'[v] = ups[v]
  BY <1>1, <1>2, OneChanged, ConnectionType
<1>4. servers' \in [Hosts -> 0..Len(ups)]
  BY <1>2, FewConnections, CurrentRequest DEF Types, PoolTypes
<1>5. /\ entry' \in Entry
      /\ \/ pc' = "submit" /\ Sendable(entry')
         \/ pc' = retry /\ retry # "no" /\ entry' = entry
  BY CurrentRequest DEF RemoveServer, BadGateway, Types, ServeTypes
<1>6. QED BY <1>3, <1>4, <1>5

\* A step of forward that makes no connection.
LEMMA AttemptTypes ==
  ASSUME Types, UNCHANGED <<script, clientVars, cur, conn, cancelled, served, writerVars>>,
         pc \in UsingPcs, drained' \in BOOLEAN,
         ups' \in Seq(Connection), Len(ups') = Len(ups), servers' \in [Hosts -> 0..Len(ups)],
         entry' \in Entry,
         pc' \in {"submit", "hooks", "handshake"} => Sendable(entry'),
         pc' \in {"submit", "dial2", "read1", "dial3", "read2", "hooks", "handshake"},
         pc' = "dial2" => Len(ups) <= 3 * cur - 2,
         pc' \in {"read1", "dial3"} => Len(ups) <= 3 * cur - 1
  PROVE  Types'
<1> USE DEF Types, writerVars, clientVars
<1>1. cur > 0 /\ conn \in 1..Len(ups)
  BY DEF Handles, IdlePcs, OverPcs, UsingPcs
<1>2. ClientTypes' /\ WriterTypes' /\ PoolTypes'
  BY SameScript DEF ClientTypes, WriterTypes, PoolTypes
<1>3. ServeTypes'
  BY SameScript DEF ServeTypes, ServePcs
<1>4. Handles'
  BY <1>1 DEF Handles, Sendable, Requests, IdlePcs, OverPcs, UsingPcs
<1>5. QED BY <1>2, <1>3, <1>4

LEMMA WriteRequestTypes ==
  ASSUME Types, NEW from, NEW to, NEW retry, WriteRequest(from, to, retry),
         WritesAt(from, to, retry)
  PROVE  Types'
<1> USE DEF WritesAt
<1>1. /\ UNCHANGED <<script, clientVars, cur, conn, cancelled, served, writerVars>>
      /\ pc = from
  BY DEF WriteRequest
<1>2. cur > 0 /\ conn \in 1..Len(ups)
  BY <1>1 DEF Types, Handles, IdlePcs, OverPcs, UsingPcs
<1>3. Len(ups) \in Nat /\ cur \in Nat
  BY FewConnections
<1>4. /\ from = "write1" => Len(ups) <= 3 * cur - 2
      /\ from = "write2" => Len(ups) <= 3 * cur - 1
  BY <1>1 DEF Types, Handles
<1>5. CASE /\ ups' = IF ups[conn].st = "open"
                     THEN [ups EXCEPT ![conn].inq = Append(@, cur)] ELSE ups
           /\ drained' = HasBody /\ pc' = to /\ UNCHANGED <<servers, entry>>
  <2>1. [ups[conn] EXCEPT !.inq = Append(@, cur)] \in Connection
    <3>1. ups[conn] \in Connection /\ ups[conn].inq \in Seq(Requests)
      BY <1>2, ConnectionType
    <3>2. Append(ups[conn].inq, cur) \in Seq(Requests)
      BY <1>2, <3>1, AppendProperties, CurrentRequest
    <3>3. QED BY <3>1, <3>2 DEF Connection
  <2>2. ups' = ups \/ ups' = [ups EXCEPT ![conn] = [ups[conn] EXCEPT !.inq = Append(@, cur)]]
    BY <1>5
  <2>3. ups' \in Seq(Connection) /\ Len(ups') = Len(ups)
    BY <1>2, <2>1, <2>2, OneChanged, ConnectionType
  <2>4. drained' \in BOOLEAN
    BY <1>5 DEF HasBody
  <2>5. servers' \in [Hosts -> 0..Len(ups)] /\ entry' \in Entry
    BY <1>5 DEF Types, PoolTypes, ServeTypes
  <2>6. pc' \in {"read1", "read2"} /\ pc \in UsingPcs
    BY <1>1, <1>5 DEF UsingPcs
  <2>7. pc' = "read1" => Len(ups) <= 3 * cur - 1
    BY <1>3, <1>4, <1>5
  <2>8. QED BY <1>1, <2>3, <2>4, <2>5, <2>6, <2>7, AttemptTypes
<1>6. CASE drained' \in {HasBody, drained /\ req.body = "small"} /\ RemoveServer(retry)
  <2>1. drained' \in BOOLEAN
    BY <1>6 DEF HasBody
  <2>2. /\ ups' \in Seq(Connection) /\ Len(ups') = Len(ups)
        /\ servers' \in [Hosts -> 0..Len(ups)]
        /\ entry' \in Entry
        /\ \/ pc' = "submit" /\ Sendable(entry')
           \/ pc' = retry /\ retry # "no" /\ entry' = entry
    BY <1>1, <1>2, <1>6, RemoveServerEffect
  <2>3. pc \in UsingPcs
    BY <1>1 DEF UsingPcs
  <2>4. pc' \in {"submit", "dial2"} /\ (pc' = "dial2" => Len(ups) <= 3 * cur - 2)
    BY <1>4, <2>2
  <2>5. QED BY <1>1, <2>1, <2>2, <2>3, <2>4, AttemptTypes
<1>7. QED BY <1>5, <1>6 DEF WriteRequest

LEMMA ReadResponseTypes ==
  ASSUME Types, NEW from, NEW retry, ReadResponse(from, retry), ReadsAt(from, retry)
  PROVE  Types'
<1> USE DEF ReadsAt
<1>1. /\ UNCHANGED <<script, clientVars, cur, drained, conn, cancelled, served, writerVars>>
      /\ pc = from
  BY DEF ReadResponse
<1>2. cur > 0 /\ conn \in 1..Len(ups)
  BY <1>1 DEF Types, Handles, IdlePcs, OverPcs, UsingPcs
<1>3. pc \in UsingPcs /\ drained' \in BOOLEAN
  BY <1>1 DEF UsingPcs, Types, ServeTypes
<1>4. CASE /\ HasPart(conn) /\ TakePart(conn)
           /\ entry' = [of |-> Head(ups[conn].out).of, body |-> 0, up |-> conn,
                        silent |-> FALSE]
           /\ pc' = "hooks" /\ UNCHANGED servers
  <2>1. ups' \in Seq(Connection) /\ Len(ups') = Len(ups)
    BY <1>1, <1>2, <1>4, TakePartChanges
  <2>2. Head(ups[conn].out).of \in Requests
    BY <1>2, <1>4, NextPart
  <2>3. entry' \in Entry
    BY <1>2, <1>4, <2>2, FewConnections DEF Entry, Requests
  <2>4. Sendable(entry')
    BY <1>2, <1>4, <2>2, FewConnections DEF Sendable
  <2>5. servers' \in [Hosts -> 0..Len(ups)]
    BY <1>4 DEF Types, PoolTypes
  <2>6. QED BY <1>1, <1>3, <1>4, <2>1, <2>3, <2>4, <2>5, AttemptTypes
<1>5. CASE RemoveServer(retry)
  <2>1. /\ ups' \in Seq(Connection) /\ Len(ups') = Len(ups)
        /\ servers' \in [Hosts -> 0..Len(ups)]
        /\ entry' \in Entry
        /\ \/ pc' = "submit" /\ Sendable(entry')
           \/ pc' = retry /\ retry # "no" /\ entry' = entry
    BY <1>1, <1>2, <1>5, RemoveServerEffect
  <2>2. pc' \in {"submit", "dial3"} /\ (pc' = "dial3" => Len(ups) <= 3 * cur - 1)
    BY <1>1, <2>1 DEF Types, Handles
  <2>3. QED BY <1>1, <1>3, <2>1, <2>2, AttemptTypes
<1>6. QED BY <1>4, <1>5 DEF ReadResponse
LEMMA HooksTypes ==
  ASSUME Types, ApplyHooks
  PROVE  Types'
<1>1. /\ UNCHANGED <<script, clientVars, cur, drained, conn, cancelled, servers, served,
                     writerVars>>
      /\ pc = "hooks" /\ pc' \in {"handshake", "submit"}
  BY DEF ApplyHooks
<1>2. conn \in 1..Len(ups) /\ Sendable(entry) /\ entry \in Entry
  BY <1>1 DEF Types, Handles, UsingPcs, ServeTypes
<1>3. pc \in UsingPcs /\ drained' \in BOOLEAN /\ servers' \in [Hosts -> 0..Len(ups)]
  BY <1>1 DEF UsingPcs, Types, ServeTypes, PoolTypes
<1>4. ASSUME NEW r \in Requests, InHand(r) PROVE entry' \in Entry /\ Sendable(entry')
  <2>1. entry' = [entry EXCEPT !.body = r, !.up = 0] /\ r \in 0..Len(script) /\ 0 \in 0..MaxUps
    BY <1>4, FewConnections DEF InHand, Requests
  <2>2. entry' \in Entry
    BY <1>2, <2>1 DEF Entry
  <2>3. Sendable(entry')
    BY <1>2, <2>1 DEF Entry, Sendable
  <2>4. QED BY <2>2, <2>3
<1>5. CASE UNCHANGED <<entry, ups>>
  BY <1>1, <1>2, <1>3, <1>5, ConnectionType, AttemptTypes
<1>6. CASE HasPart(conn) /\ TakePart(conn) /\ (InHand(entry.of) \/ InHand(Head(ups[conn].out).of))
  <2>1. ups' \in Seq(Connection) /\ Len(ups') = Len(ups)
    BY <1>1, <1>2, <1>6, TakePartChanges
  <2>2. entry' \in Entry /\ Sendable(entry')
    BY <1>2, <1>4, <1>6, NextPart DEF Sendable
  <2>3. QED BY <1>1, <1>3, <2>1, <2>2, AttemptTypes
<1>7. CASE InHand(entry.of) /\ UNCHANGED ups
  <2>1. entry' \in Entry /\ Sendable(entry')
    BY <1>2, <1>4, <1>7 DEF Sendable
  <2>2. QED BY <1>1, <1>3, <1>7, <2>1, ConnectionType, AttemptTypes
<1>8. QED BY <1>5, <1>6, <1>7 DEF ApplyHooks

\* The steps that lead to the end of serve.
LEMMA EndTypes ==
  ASSUME Types, Handshake \/ TunnelEnds \/ CloseServers \/ CloseClient
  PROVE  Types'
<1> USE DEF Types, clientVars, poolVars, writerVars
<1>1. /\ UNCHANGED <<script, sent, cur, drained, conn, entry, servers, served,
                     writeCh, wpc, wcur>>
      /\ pc \in {"handshake", "tunnel", "exit", "close"}
      /\ pc' \in {"tunnel", "exit", "close", "done"}
      /\ pc' = "tunnel" => pc = "handshake"
      /\ sock' \in {sock, "closed"} /\ deadline' \in {deadline, "off"}
  BY DEF Handshake, TunnelEnds, CloseServers, CloseClient
<1>2. cancelled' \in BOOLEAN /\ chClosed' \in BOOLEAN
  BY DEF Handshake, TunnelEnds, CloseServers, CloseClient, ServeTypes, WriterTypes
<1>3. pc \in {"handshake", "tunnel"} => conn \in 1..Len(ups) /\ cur > 0
  BY DEF Handles, UsingPcs, IdlePcs, OverPcs
<1>4. ups' \in Seq(Connection) /\ Len(ups') = Len(ups)
  <2>1. \A u \in 1..Len(ups) : Closed(u) \in Connection /\ ups[u] \in Connection
    BY ConnectionType, EmptySeq DEF Closed, Connection
  <2>2. CASE Handshake
    BY <1>1, <1>3, <2>2, ConnectionType, TakePartChanges DEF Handshake
  <2>3. CASE TunnelEnds
    BY <1>3, <2>1, <2>3, ConnectionType, OneChanged DEF TunnelEnds
  <2>4. CASE CloseServers
    <3> DEFINE f(u) == IF \E h \in Hosts : servers[h] = u THEN Closed(u) ELSE ups[u]
    <3>1. DOMAIN ups = 1..Len(ups) /\ Len(ups) \in Nat
      BY ConnectionType
    <3>2. ups' = [u \in 1..Len(ups) |-> f(u)]
      BY <2>4, <3>1 DEF CloseServers
    <3>3. \A u \in 1..Len(ups) : f(u) \in Connection
      BY <2>1
    <3> HIDE DEF f
    <3>4. QED BY <3>1, <3>2, <3>3
  <2>5. CASE CloseClient
    BY <2>5, ConnectionType DEF CloseClient
  <2>6. QED BY <2>2, <2>3, <2>4, <2>5
<1>5. got' \in Seq(Parts)
  <2>1. CASE Handshake
    <3>1. Sendable(entry)
      BY <2>1 DEF Handshake, Handles
    <3>2. <<Part("head", entry.of)>> \in Seq(Parts)
      BY <3>1, PartsOfResponse
    <3>3. entry.up = 0 => Full(entry) \in Seq(Parts)
      BY <3>1, PartsOfResponse
    <3>4. HasPart(conn) => <<Part("head", entry.of), Part("body", Head(ups[conn].out).of)>> \in Seq(Parts)
      <4>1. Part("head", entry.of) \in Parts
        BY <3>1 DEF Sendable, Part, Dlg!Part, Parts
      <4>2. HasPart(conn) => Part("body", Head(ups[conn].out).of) \in Parts
        BY <1>3, <2>1, NextPart DEF Handshake, Part, Dlg!Part, Parts
      <4>3. QED BY <4>1, <4>2, EmptySeq, AppendProperties
    <3>5. QED BY <2>1, <3>2, <3>3, <3>4, DeliverType DEF Handshake, ClientTypes
  <2>2. CASE TunnelEnds \/ CloseServers \/ CloseClient
    BY <2>2 DEF TunnelEnds, CloseServers, CloseClient, ClientTypes
  <2>3. QED BY <2>1, <2>2
<1>6. ClientTypes'
  BY <1>1, <1>5, SameScript DEF ClientTypes
<1>7. ServeTypes'
  BY <1>1, <1>2, <1>4, SameScript DEF ServeTypes, ServePcs
<1>8. PoolTypes' /\ WriterTypes'
  BY <1>1, <1>2, <1>4, SameScript DEF PoolTypes, WriterTypes
<1>9. Handles'
  BY <1>1, <1>3, <1>4 DEF Handles, Sendable, Requests, IdlePcs, OverPcs, UsingPcs
<1>10. QED BY <1>6, <1>7, <1>8, <1>9

LEMMA ServeTypesKept == Types /\ Serve => Types'
<1> SUFFICES ASSUME Types, Serve PROVE Types'
  OBVIOUS
<1>1. CASE Forward
  BY <1>1, ForwardSteps, GetServerTypes, WriteRequestTypes, ReadResponseTypes
<1>2. CASE ~Forward
  BY <1>2, LoopTypes, HandleTypes, SubmitTypes, HooksTypes, EndTypes DEF Serve
<1>3. QED BY <1>1, <1>2
\* The writer takes the first response of the channel, or a part of its body.
LEMMA WriterTypesKept ==
  ASSUME Types, Writer
  PROVE  Types'
<1> USE DEF Types, serveVars, WriterFrame
<1>0. Len(script) \in Nat /\ cur \in Nat /\ Len(ups) \in Nat
  BY FewConnections
<1>1. UNCHANGED <<script, sent, sock, deadline, serveVars, servers, served, chClosed>>
  BY DEF Writer, WriteLocal, WriteHead, WriteBody, DrainBody, WriterEnds
<1>2. writeCh \in Seq(Entry) /\ Len(writeCh) \in Nat /\ wcur \in Entry
  BY DEF WriterTypes
<1>3. writeCh # <<>> =>
        /\ Head(writeCh) \in Entry /\ Sendable(Head(writeCh))
        /\ Tail(writeCh) \in Seq(Entry) /\ Len(Tail(writeCh)) <= Cap
        /\ \A i \in 1..Len(Tail(writeCh)) : Sendable(Tail(writeCh)[i])
  <2> SUFFICES ASSUME writeCh # <<>>
               PROVE  /\ Head(writeCh) \in Entry /\ Sendable(Head(writeCh))
                      /\ Tail(writeCh) \in Seq(Entry) /\ Len(Tail(writeCh)) <= Cap
                      /\ \A i \in 1..Len(Tail(writeCh)) : Sendable(Tail(writeCh)[i])
    OBVIOUS
  <2>1. /\ Head(writeCh) \in Entry /\ Tail(writeCh) \in Seq(Entry)
        /\ Len(Tail(writeCh)) = Len(writeCh) - 1
        /\ \A i \in 1..Len(Tail(writeCh)) : Tail(writeCh)[i] = writeCh[i + 1]
    BY <1>2, HeadTailProperties
  <2>2. Head(writeCh) = writeCh[1] /\ Len(writeCh) > 0
    BY <1>2
  <2>3. Sendable(Head(writeCh))
    BY <1>2, <2>2 DEF Handles
  <2>4. \A i \in 1..Len(Tail(writeCh)) : Sendable(Tail(writeCh)[i])
    BY <1>2, <2>1 DEF Handles
  <2>5. Len(Tail(writeCh)) <= Cap
    BY <1>2, <2>1, SessionAssumption DEF WriterTypes
  <2>6. QED BY <2>1, <2>3, <2>4, <2>5
<1>4. NoEntry \in Entry
  BY SessionAssumption, <1>0 DEF NoEntry, Local, Entry, MaxUps
<1>5. wpc \in {"stream", "drain"} => wcur.up \in 1..Len(ups) /\ Sendable(wcur)
  BY DEF Handles, Sendable
<1>6. writeCh' = writeCh \/ (writeCh # <<>> /\ writeCh' = Tail(writeCh))
  BY DEF Writer, WriteLocal, WriteHead, WriteBody, DrainBody, WriterEnds
<1>7. /\ wpc' \in {"idle", "stream", "drain", "done"} /\ wcur' \in Entry
      /\ wpc' \in {"stream", "drain"} => Sendable(wcur') /\ wcur'.up # 0
  <2>1. CASE WriteHead
    BY <2>1, <1>3 DEF WriteHead
  <2>2. CASE WriteLocal \/ WriterEnds
    BY <2>2, <1>4, <1>2 DEF WriteLocal, WriterEnds, WriterGivesUp, WriterTypes
  <2>3. CASE WriteBody \/ DrainBody
    BY <2>3, <1>4 DEF WriteBody, DrainBody, WriterGivesUp
  <2>4. QED BY <2>1, <2>2, <2>3 DEF Writer
<1>8. cancelled' \in BOOLEAN
  BY DEF Writer, WriteLocal, WriteHead, WriteBody, DrainBody, WriterEnds, WriterGivesUp,
         ServeTypes
<1>9. ups' \in Seq(Connection) /\ Len(ups') = Len(ups)
  BY <1>1, <1>5, ConnectionType, TakePartChanges
     DEF Writer, WriteLocal, WriteHead, WriteBody, DrainBody, WriterEnds
<1>10. got' \in Seq(Parts)
  <2>1. CASE WriteLocal
    BY <2>1, <1>3, PartsOfResponse, DeliverType DEF WriteLocal, ClientTypes
  <2>2. CASE WriteHead
    BY <2>2, <1>3, PartsOfResponse, DeliverType DEF WriteHead, ClientTypes
  <2>3. CASE WriteBody
    BY <2>3, <1>5, NextPart, DeliverType DEF WriteBody, ClientTypes
  <2>4. CASE DrainBody \/ WriterEnds
    BY <2>4 DEF DrainBody, WriterEnds, ClientTypes
  <2>5. QED BY <2>1, <2>2, <2>3, <2>4 DEF Writer
<1>11. ClientTypes'
  BY <1>1, <1>10, SameScript DEF ClientTypes
<1>12. ServeTypes'
  BY <1>1, <1>8, <1>9, SameScript DEF ServeTypes
<1>13. PoolTypes'
  BY <1>1, <1>9, SameScript DEF PoolTypes
<1>14. WriterTypes'
  BY <1>1, <1>3, <1>6, <1>7, SameScript DEF WriterTypes
<1>15. Handles'
  <2>1. \A i \in 1..Len(writeCh') : Sendable(writeCh'[i])
    BY <1>3, <1>6 DEF Handles
  <2>2. QED
    BY <1>1, <1>7, <1>9, <2>1 DEF Handles, Sendable, Requests
<1>16. QED BY <1>11, <1>12, <1>13, <1>14, <1>15

\* What an upstream server does to the connections.
LEMMA UpstreamEffect ==
  ASSUME Types, NEW u \in 1..MaxUps, Upstream(u)
  PROVE  /\ u \in 1..Len(ups) /\ Len(ups') = Len(ups) /\ ups' \in Seq(Connection)
         /\ served' \in [Requests -> Nat]
         /\ \A v \in 1..Len(ups) : v # u => ups'[v] = ups[v]
         /\ UpstreamServes(u) =>
              /\ ups[u].st # "gone" /\ ups[u].inq # <<>> /\ Head(ups[u].inq) \in Requests
              /\ ups'[u].st = ups[u].st /\ ups'[u].inq = Tail(ups[u].inq)
              /\ ups'[u].out = IF ups[u].st = "open"
                               THEN ups[u].out \o <<Part("head", Head(ups[u].inq)),
                                                    Part("body", Head(ups[u].inq))>>
                               ELSE ups[u].out
         /\ UpstreamDies(u) =>
              /\ ups[u].st = "open" /\ ups'[u].st = "gone" /\ ups'[u].inq = <<>>
              /\ \E n \in 0..Len(ups[u].out) : ups'[u].out = SubSeq(ups[u].out, 1, n)
<1>1. u \in 1..Len(ups)
  BY SMTT(20), FewConnections DEF Upstream, UpstreamServes, UpstreamDies
<1>2. /\ ups \in Seq(Connection) /\ ups[u] \in Connection
      /\ ups[u].inq \in Seq(Requests) /\ ups[u].out \in Seq(Parts)
  BY <1>1, ConnectionType
<1>3. ASSUME UpstreamServes(u)
      PROVE  /\ Len(ups') = Len(ups) /\ ups' \in Seq(Connection)
             /\ served' \in [Requests -> Nat]
             /\ \A v \in 1..Len(ups) : v # u => ups'[v] = ups[v]
             /\ ups[u].st # "gone" /\ ups[u].inq # <<>> /\ Head(ups[u].inq) \in Requests
             /\ ups'[u].st = ups[u].st /\ ups'[u].inq = Tail(ups[u].inq)
             /\ ups'[u].out = IF ups[u].st = "open"
                              THEN ups[u].out \o <<Part("head", Head(ups[u].inq)),
                                                   Part("body", Head(ups[u].inq))>>
                              ELSE ups[u].out
  <2> DEFINE r == Head(ups[u].inq)
             out == IF ups[u].st = "open"
                    THEN ups[u].out \o <<Part("head", r), Part("body", r)>> ELSE ups[u].out
             f == [ups[u] EXCEPT !.inq = Tail(@), !.out = out]
  <2>1. r \in Requests /\ Tail(ups[u].inq) \in Seq(Requests)
    BY <1>2, <1>3, HeadTailProperties DEF UpstreamServes
  <2>2. Part("head", r) \in Parts /\ Part("body", r) \in Parts
    BY <2>1 DEF Part, Dlg!Part, Parts
  <2>3. <<Part("head", r), Part("body", r)>> \in Seq(Parts)
    BY <2>2, EmptySeq, AppendProperties
  <2>4. out \in Seq(Parts)
    BY <1>2, <2>3, ConcatProperties
  <2>5. f \in Connection /\ f.st = ups[u].st /\ f.inq = Tail(ups[u].inq) /\ f.out = out
    BY <1>2, <2>1, <2>4 DEF Connection
  <2>6. ups' = [ups EXCEPT ![u] = f]
    BY <1>2, <1>3 DEF UpstreamServes
  <2>7. /\ Len(ups') = Len(ups) /\ ups' \in Seq(Connection) /\ ups'[u] = f
        /\ \A v \in 1..Len(ups) : v # u => ups'[v] = ups[v]
    <3> HIDE DEF f
    <3>1. QED BY <1>1, <1>2, <2>5, <2>6, OneChanged
  <2>8. served' \in [Requests -> Nat]
    BY SMTT(20), <1>3, <2>1 DEF UpstreamServes, Types, PoolTypes
  <2>9. QED BY <1>1, <1>3, <2>1, <2>5, <2>7, <2>8 DEF UpstreamServes
<1>4. ASSUME UpstreamDies(u)
      PROVE  /\ Len(ups') = Len(ups) /\ ups' \in Seq(Connection)
             /\ served' \in [Requests -> Nat]
             /\ \A v \in 1..Len(ups) : v # u => ups'[v] = ups[v]
             /\ ups[u].st = "open" /\ ups'[u].st = "gone" /\ ups'[u].inq = <<>>
             /\ \E n \in 0..Len(ups[u].out) : ups'[u].out = SubSeq(ups[u].out, 1, n)
  <2>1. PICK n \in 0..Len(ups[u].out) :
          ups' = [ups EXCEPT ![u] = [st |-> "gone", inq |-> <<>>,
                                     out |-> SubSeq(ups[u].out, 1, n)]]
    BY <1>4 DEF UpstreamDies
  <2>2. SubSeq(ups[u].out, 1, n) \in Seq(Parts)
    BY <1>2, SubSeqProperties
  <2>3. [st |-> "gone", inq |-> <<>>, out |-> SubSeq(ups[u].out, 1, n)] \in Connection
    BY <2>2, EmptySeq DEF Connection
  <2>4. /\ Len(ups') = Len(ups) /\ ups' \in Seq(Connection)
        /\ ups'[u] = [st |-> "gone", inq |-> <<>>, out |-> SubSeq(ups[u].out, 1, n)]
        /\ \A v \in 1..Len(ups) : v # u => ups'[v] = ups[v]
    BY <1>1, <1>2, <2>1, <2>3, OneChanged
  <2>5. /\ ups'[u].st = "gone" /\ ups'[u].inq = <<>>
        /\ \E k \in 0..Len(ups[u].out) : ups'[u].out = SubSeq(ups[u].out, 1, k)
    BY <2>1, <2>4
  <2>6. ups[u].st = "open" /\ served' \in [Requests -> Nat]
    BY <1>4 DEF UpstreamDies, Types, PoolTypes
  <2>7. QED BY <1>1, <1>4, <2>4, <2>5, <2>6
<1>5. QED BY <1>1, <1>3, <1>4 DEF Upstream

\* The client and the upstream servers keep the types.
LEMMA EnvironmentTypesKept ==
  ASSUME Types, Environment
  PROVE  Types'
<1> USE DEF Types, serveVars, poolVars, writerVars
<1>0. Len(script) \in Nat /\ cur \in Nat /\ Len(ups) \in Nat /\ MaxUps \in Nat
  BY FewConnections
<1>1. CASE ClientAsks \/ ClientLeaves \/ StopCloses \/ DeadlinePasses
  <2>1. /\ UNCHANGED <<script, got, serveVars, cancelled, poolVars, writerVars>>
        /\ sock' \in {sock, "shut", "closed"} /\ deadline' \in {deadline, "expired"}
        /\ sent' = sent \/ (sent < Len(script) /\ sent' = sent + 1)
    BY <1>1 DEF ClientAsks, ClientLeaves, StopCloses, DeadlinePasses
  <2>2. sent' \in 0..Len(script) /\ cur \in 0..sent'
    BY <1>0, <2>1 DEF ClientTypes, ServeTypes
  <2>3. ClientTypes' /\ PoolTypes' /\ WriterTypes'
    BY <2>1, <2>2, SameScript DEF ClientTypes, PoolTypes, WriterTypes
  <2>4. ServeTypes'
    BY <2>1, <2>2, SameScript DEF ServeTypes
  <2>5. Handles'
    BY <2>1 DEF Handles, Sendable, Requests
  <2>6. QED BY <2>3, <2>4, <2>5
<1>2. ASSUME NEW u \in 1..MaxUps, Upstream(u) PROVE Types'
  <2>1. UNCHANGED <<script, clientVars, serveVars, cancelled, servers, writerVars>>
    BY <1>2 DEF Upstream, UpstreamServes, UpstreamDies
  <2>3. /\ ups' \in Seq(Connection) /\ Len(ups') = Len(ups)
        /\ served' \in [Requests -> Nat]
    BY <1>2, UpstreamEffect
  <2>4. ClientTypes' /\ ServeTypes' /\ WriterTypes'
    BY <2>1, <2>3, SameScript DEF ClientTypes, ServeTypes, WriterTypes, clientVars
  <2>5. PoolTypes'
    BY <2>1, <2>3, SameScript DEF PoolTypes
  <2>6. Handles'
    BY <2>1, <2>3 DEF Handles, Sendable, Requests
  <2>7. QED BY <2>4, <2>5, <2>6
<1>3. QED BY <1>1, <1>2 DEF Environment

LEMMA InitTypes == Init => Types
<1> SUFFICES ASSUME Init PROVE Types
  OBVIOUS
<1>1. Len(script) \in Nat /\ MaxUps \in Nat /\ Cap \in Nat
  BY SessionAssumption DEF Init, MaxUps
<1>2. NoEntry \in Entry
  BY <1>1 DEF NoEntry, Local, Entry
<1>3. ClientTypes
  BY <1>1, EmptySeq DEF Init, ClientTypes
<1>4. ServeTypes
  <2>1. drained \in BOOLEAN /\ cancelled \in BOOLEAN
    BY DEF Init
  <2>2. cur \in 0..sent /\ conn \in 0..Len(ups)
    BY EmptySeq DEF Init
  <2>3. pc \in ServePcs /\ entry \in Entry
    BY <1>2 DEF Init, ServePcs
  <2>4. QED BY <2>1, <2>2, <2>3 DEF ServeTypes
<1>5. PoolTypes
  <2>1. ups \in Seq(Connection) /\ Len(ups) = 0
    BY EmptySeq DEF Init
  <2>2. servers \in [Hosts -> 0..Len(ups)] /\ served \in [Requests -> Nat] /\ cur = 0
    BY <2>1 DEF Init, Requests
  <2>3. QED BY <2>1, <2>2 DEF PoolTypes
<1>6. WriterTypes
  <2>1. chClosed \in BOOLEAN
    BY DEF Init
  <2>2. writeCh \in Seq(Entry) /\ Len(writeCh) <= Cap
    BY <1>1, EmptySeq DEF Init
  <2>3. wpc \in {"idle", "stream", "drain", "done"} /\ wcur \in Entry
    BY <1>2 DEF Init
  <2>4. QED BY <2>1, <2>2, <2>3 DEF WriterTypes
<1>7. Handles
  BY DEF Init, Handles, IdlePcs, OverPcs, UsingPcs
<1>8. QED BY <1>3, <1>4, <1>5, <1>6, <1>7 DEF Types

LEMMA StutterTypes ==
  ASSUME Types, UNCHANGED vars
  PROVE  Types'
<1> USE DEF Types, vars, clientVars, serveVars, poolVars, writerVars
<1>1. ClientTypes' /\ ServeTypes' /\ PoolTypes' /\ WriterTypes'
  BY SameScript DEF ClientTypes, ServeTypes, PoolTypes, WriterTypes
<1>2. Handles'
  BY DEF Handles, Sendable, Requests
<1>3. QED BY <1>1, <1>2

\* Types is inductive.
LEMMA TypesInvariant == Spec => []Types
<1>1. Types /\ [Next]_vars => Types'
  BY ServeTypesKept, WriterTypesKept, EnvironmentTypesKept, StutterTypes DEF Next, Finished
<1>2. QED BY <1>1, InitTypes, PTL DEF Spec

\* Every variable keeps its type: among others writeCh never holds more than its
\* capacity, and no request has more than three connections made for it
\* (session.go:143-182).
THEOREM TypeCorrect == Spec => []TypeOK
BY TypesInvariant, TypesAreTypeOK, PTL
-----------------------------------------------------------------------------
(* The pool of upstream connections *)

\* A pooled connection is not closed, until serve ends.
PoolOpen ==
  pc \notin OverPcs => \A h \in Hosts : servers[h] # 0 => ups[servers[h]].st # "closed"

\* Two servers do not share a connection.
Apart ==
  \A h, k \in Hosts : servers[h] = servers[k] /\ servers[h] # 0 => h = k

Pool == PoolOpen /\ Apart /\ UsesPooled /\ NoUpstreamLeak

\* The steps that neither make, pool nor close an upstream connection.
Steady ==
  /\ UNCHANGED <<script, servers>>
  /\ Len(ups') = Len(ups)
  /\ \A u \in 1..Len(ups) : ups'[u].st = "closed" <=> ups[u].st = "closed"
  /\ pc' \in UsingPcs => pc \in UsingPcs /\ UNCHANGED <<cur, conn>>
  /\ pc' \in {"close", "done"} => pc \in {"close", "done"}
  /\ pc \in OverPcs => pc' \in OverPcs

LEMMA SteadyKeepsPool ==
  ASSUME Types, Pool, Steady
  PROVE  Pool'
<1> USE DEF Pool, Steady
<1>1. servers \in [Hosts -> 0..Len(ups)] /\ Len(ups) \in Nat
  BY ConnectionType DEF Types, PoolTypes
<1>2. PoolOpen'
  BY <1>1 DEF PoolOpen
<1>3. Apart'
  BY DEF Apart
<1>4. UsesPooled'
  <2> SUFFICES ASSUME pc' \in UsingPcs
               PROVE  conn' # 0 /\ servers'[req'.host] = conn' /\ ups'[conn'].st # "closed"
    BY DEF UsesPooled, UsingPcs
  <2>1. /\ pc \in UsingPcs /\ UNCHANGED <<cur, conn>> /\ req' = req
        /\ conn # 0 /\ servers[req.host] = conn /\ ups[conn].st # "closed"
    BY DEF UsesPooled, UsingPcs, req
  <2>2. conn \in 1..Len(ups)
    BY <2>1 DEF Types, Handles
  <2>3. QED BY <2>1, <2>2
<1>5. NoUpstreamLeak'
  BY DEF NoUpstreamLeak
<1>6. QED BY <1>2, <1>3, <1>4, <1>5

\* A write appends to what a connection carries, and nothing else.
LEMMA WriteEffect ==
  ASSUME Types, conn \in 1..Len(ups), cur > 0, script' = script,
         ups' = IF ups[conn].st = "open"
                THEN [ups EXCEPT ![conn].inq = Append(@, cur)] ELSE ups
  PROVE  /\ Len(ups') = Len(ups)
         /\ \A u \in 1..Len(ups) : ups'[u].st = ups[u].st /\ ups'[u].out = ups[u].out
         /\ \A u \in 1..Len(ups) :
              \/ ups'[u].inq = ups[u].inq
              \/ u = conn /\ ups'[u].inq = Append(ups[u].inq, cur)
<1>1. ups[conn] \in Connection /\ ups[conn].inq \in Seq(Requests) /\ cur \in Requests
  BY ConnectionType, CurrentRequest
<1>2. DEFINE f == [ups[conn] EXCEPT !.inq = Append(@, cur)]
<1>3. f \in Connection /\ f.st = ups[conn].st /\ f.out = ups[conn].out
      /\ f.inq = Append(ups[conn].inq, cur)
  BY <1>1, AppendProperties DEF Connection
<1>4. ups' = ups \/ ups' = [ups EXCEPT ![conn] = f]
  OBVIOUS
<1> HIDE DEF f
<1>5. CASE ups' = [ups EXCEPT ![conn] = f]
  BY SMTT(20), <1>3, <1>5, OneChanged, ConnectionType
<1>6. QED BY <1>4, <1>5

\* Every step but these is Steady.
PoolSteps ==
  \/ \E from, to : GetServer(from, to) /\ DialsAt(from, to)
  \/ \E retry : RemoveServer(retry) /\ UNCHANGED <<script, cur, conn>>
                /\ pc \in UsingPcs /\ retry \in {"no", "dial2", "dial3"}
  \/ TunnelEnds
  \/ CloseServers

LEMMA SteadySteps ==
  ASSUME Types, Pool, [Next]_vars
  PROVE  Steady \/ PoolSteps
<1> USE DEF UsingPcs, OverPcs, clientVars, serveVars, poolVars, writerVars
<1>1. CASE Top \/ ReadRequest \/ ReadFails \/ UpgradeClient \/ BufferBody \/ Route \/ Submit
           \/ CloseClient
  <2>1. UNCHANGED <<script, servers, ups>>
    BY <1>1 DEF Top, ReadRequest, ReadFails, UpgradeClient, BufferBody, Route, Submit,
                CloseClient
  <2>2. /\ pc' \notin UsingPcs
        /\ pc' \in {"close", "done"} => pc \in {"close", "done"}
        /\ pc \in OverPcs => pc' \in OverPcs
    BY <1>1 DEF Top, ReadRequest, ReadFails, UpgradeClient, BufferBody, BadGateway, Route,
                HandleManage, ShortCircuit, Submit, CloseClient
  <2>3. QED BY <2>1, <2>2 DEF Steady
<1>2. CASE Forward
  <2>1. ASSUME NEW from, NEW to, NEW retry, WriteRequest(from, to, retry),
               WritesAt(from, to, retry)
        PROVE  Steady \/ PoolSteps
    <3>1. pc \in UsingPcs /\ pc = from /\ UNCHANGED <<script, cur, conn>>
      BY <2>1 DEF WriteRequest, WritesAt
    <3>2. CASE RemoveServer(retry)
      BY <2>1, <3>1, <3>2 DEF PoolSteps, WritesAt
    <3>3. CASE ~RemoveServer(retry)
      <4>1. /\ ups' = IF ups[conn].st = "open"
                      THEN [ups EXCEPT ![conn].inq = Append(@, cur)] ELSE ups
            /\ pc' = to /\ UNCHANGED servers
        BY <2>1, <3>3 DEF WriteRequest
      <4>2. cur > 0 /\ conn \in 1..Len(ups)
        BY <3>1 DEF Types, Handles, IdlePcs
      <4>3. QED BY <2>1, <3>1, <4>1, <4>2, WriteEffect DEF Steady, WritesAt
    <3>4. QED BY <3>2, <3>3
  <2>2. ASSUME NEW from, NEW retry, ReadResponse(from, retry), ReadsAt(from, retry)
        PROVE  Steady \/ PoolSteps
    <3>1. pc \in UsingPcs /\ pc = from /\ UNCHANGED <<script, cur, conn>>
      BY <2>2 DEF ReadResponse, ReadsAt
    <3>2. CASE RemoveServer(retry)
      BY <2>2, <3>1, <3>2 DEF PoolSteps, ReadsAt
    <3>3. CASE ~RemoveServer(retry)
      <4>1. HasPart(conn) /\ TakePart(conn) /\ pc' = "hooks" /\ UNCHANGED servers
        BY <2>2, <3>3 DEF ReadResponse
      <4>2. conn \in 1..Len(ups)
        BY <3>1 DEF Types, Handles
      <4>3. /\ Len(ups') = Len(ups)
            /\ \A u \in 1..Len(ups) : ups'[u].st = ups[u].st
        BY <3>1, <4>1, <4>2, TakePartChanges
      <4>4. QED BY <2>2, <3>1, <4>1, <4>3 DEF Steady, ReadsAt
    <3>4. QED BY <3>2, <3>3
  <2>3. QED BY <1>2, <2>1, <2>2, ForwardSteps DEF PoolSteps
<1>3. CASE ApplyHooks \/ Handshake
  <2>1. /\ UNCHANGED <<script, servers, cur, conn>> /\ pc \in {"hooks", "handshake"}
        /\ pc' \in {"handshake", "submit", "tunnel", "exit"}
        /\ ups' = ups \/ (HasPart(conn) /\ TakePart(conn))
    BY <1>3 DEF ApplyHooks, Handshake
  <2>2. conn \in 1..Len(ups)
    BY <2>1 DEF Types, Handles
  <2>3. /\ Len(ups') = Len(ups)
        /\ \A u \in 1..Len(ups) : ups'[u].st = ups[u].st
    BY <2>1, <2>2, TakePartChanges
  <2>4. QED BY <2>1, <2>3 DEF Steady
<1>4. CASE Writer
  <2>1. /\ UNCHANGED <<script, servers, cur, conn, pc>>
        /\ ups' = ups \/ (wpc \in {"stream", "drain"} /\ HasPart(wcur.up) /\ TakePart(wcur.up))
    BY <1>4 DEF Writer, WriterFrame, WriteLocal, WriteHead, WriteBody, DrainBody, WriterEnds
  <2>2. wpc \in {"stream", "drain"} => wcur.up \in 1..Len(ups)
    BY DEF Types, Handles, Sendable
  <2>3. /\ Len(ups') = Len(ups)
        /\ \A u \in 1..Len(ups) : ups'[u].st = ups[u].st
    BY <2>1, <2>2, TakePartChanges
  <2>4. QED BY <2>1, <2>3 DEF Steady
<1>5. CASE Environment
  <2>1. CASE ClientAsks \/ ClientLeaves \/ StopCloses \/ DeadlinePasses
    <3>1. UNCHANGED <<script, servers, ups, pc, cur, conn>>
      BY <2>1 DEF ClientAsks, ClientLeaves, StopCloses, DeadlinePasses
    <3>2. QED BY <3>1 DEF Steady
  <2>2. ASSUME NEW u \in 1..MaxUps, Upstream(u) PROVE Steady
    <3>1. UNCHANGED <<script, servers, pc, cur, conn>>
      BY <2>2 DEF Upstream, UpstreamServes, UpstreamDies
    <3>2. /\ Len(ups') = Len(ups)
          /\ \A v \in 1..Len(ups) : v # u => ups'[v] = ups[v]
          /\ ups'[u].st = ups[u].st \/ (ups[u].st = "open" /\ ups'[u].st = "gone")
      BY <2>2, UpstreamEffect DEF Upstream
    <3>3. QED BY <3>1, <3>2 DEF Steady
  <2>3. QED BY <1>5, <2>1, <2>2 DEF Environment
<1>6. CASE UNCHANGED vars
  BY <1>6 DEF vars, Steady
<1>7. CASE TunnelEnds \/ CloseServers
  BY <1>7 DEF PoolSteps
<1>8. QED BY <1>1, <1>2, <1>3, <1>4, <1>5, <1>6, <1>7 DEF Next, Serve, Finished
\* What getServer does to the connections: it takes the pooled one, fails, or adds one.
LEMMA GetServerEffect ==
  ASSUME Types, NEW from, NEW to, GetServer(from, to), DialsAt(from, to)
  PROVE  /\ UNCHANGED <<script, cur, drained, served>> /\ pc = from /\ cur > 0
         /\ req.host \in Hosts /\ req' = req
         /\ Len(ups') \in Nat /\ Len(ups') >= Len(ups)
         /\ \A u \in 1..Len(ups) : ups'[u] = ups[u]
         /\ \A u \in 1..Len(ups') : u \notin 1..Len(ups) =>
              u = Len(ups) + 1 /\ ups'[u].inq = <<>> /\ ups'[u].out = <<>>
         /\ \/ /\ pc' = to /\ UNCHANGED <<servers, ups>>
               /\ servers[req.host] # 0 /\ conn' = servers[req.host]
            \/ /\ pc' = to /\ servers[req.host] = 0
               /\ servers' = [servers EXCEPT ![req.host] = Len(ups) + 1]
               /\ conn' = Len(ups) + 1 /\ Len(ups') = Len(ups) + 1
               /\ ups'[conn'].st = "open"
            \/ /\ pc' = "submit" /\ UNCHANGED <<servers, conn>> /\ entry' = Local(cur)
               /\ \A u \in 1..Len(ups') : u \notin 1..Len(ups) => ups'[u].st = "closed"
<1>1. UNCHANGED <<script, cur, drained, served>> /\ pc = from
  BY DEF GetServer
<1>2. cur > 0 /\ req.host \in Hosts /\ req' = req
  BY <1>1, CurrentRequest DEF Types, Handles, DialsAt, IdlePcs, OverPcs, req
<1>3. ups \in Seq(Connection) /\ Len(ups) \in Nat
  BY ConnectionType
<1>4. ASSUME NEW st \in {"open", "closed"}, ups' = Append(ups, Fresh(st))
      PROVE  /\ Len(ups') = Len(ups) + 1
             /\ \A u \in 1..Len(ups) : ups'[u] = ups[u]
             /\ ups'[Len(ups) + 1] = Fresh(st)
  <2>1. Fresh(st) \in Connection
    BY EmptySeq DEF Fresh, Connection
  <2>2. QED BY <1>3, <1>4, <2>1, AppendProperties
<1>5. CASE servers[req.host] # 0 /\ conn' = servers[req.host]
           /\ pc' = to /\ UNCHANGED <<servers, ups, entry>>
  BY <1>1, <1>2, <1>3, <1>5
<1>6. CASE NoServer
  BY <1>1, <1>2, <1>3, <1>6 DEF NoServer, BadGateway
<1>7. CASE BadServer
  <2>1. /\ Len(ups') = Len(ups) + 1
        /\ \A u \in 1..Len(ups) : ups'[u] = ups[u]
        /\ ups'[Len(ups) + 1] = Fresh("closed")
    BY <1>4, <1>7 DEF BadServer
  <2>2. \A u \in 1..Len(ups') : u \notin 1..Len(ups) => u = Len(ups) + 1
    BY <1>3, <2>1
  <2>3. QED BY <1>1, <1>2, <1>3, <1>7, <2>1, <2>2 DEF BadServer, BadGateway, Fresh
<1>8. CASE servers[req.host] = 0 /\ NewServer /\ pc' = to
  <2>1. /\ Len(ups') = Len(ups) + 1
        /\ \A u \in 1..Len(ups) : ups'[u] = ups[u]
        /\ ups'[Len(ups) + 1] = Fresh("open")
    BY <1>4, <1>8 DEF NewServer
  <2>2. \A u \in 1..Len(ups') : u \notin 1..Len(ups) => u = Len(ups) + 1
    BY <1>3, <2>1
  <2>3. QED BY <1>1, <1>2, <1>3, <1>8, <2>1, <2>2 DEF NewServer, Fresh
<1>9. QED BY <1>5, <1>6, <1>7, <1>8 DEF GetServer

LEMMA GetServerKeepsPool ==
  ASSUME Types, Pool, NEW from, NEW to, GetServer(from, to), DialsAt(from, to)
  PROVE  Pool'
<1>1. servers \in [Hosts -> 0..Len(ups)] /\ Len(ups) \in Nat
  BY ConnectionType DEF Types, PoolTypes
<1>2. /\ UNCHANGED <<script, cur>> /\ pc = from /\ req.host \in Hosts /\ req' = req
      /\ Len(ups') \in Nat /\ Len(ups') >= Len(ups)
      /\ \A u \in 1..Len(ups) : ups'[u] = ups[u]
  BY GetServerEffect
<1>3. /\ pc \notin OverPcs
      /\ \A h \in Hosts : servers[h] # 0 => ups[servers[h]].st # "closed"
      /\ \A h, k \in Hosts : servers[h] = servers[k] /\ servers[h] # 0 => h = k
      /\ \A u \in 1..Len(ups) : ups[u].st # "closed" => \E h \in Hosts : servers[h] = u
  BY <1>2 DEF Pool, PoolOpen, Apart, NoUpstreamLeak, DialsAt, OverPcs
<1>4. pc' \notin {"exit", "close", "done"}
  BY GetServerEffect DEF DialsAt
<1>5. pc' = to => to \in {"write1", "write2", "write3"}
  BY DEF DialsAt
<1>6. CASE /\ pc' = to /\ UNCHANGED <<servers, ups>>
           /\ servers[req.host] # 0 /\ conn' = servers[req.host]
  BY <1>1, <1>2, <1>3, <1>4, <1>6 DEF Pool, PoolOpen, Apart, UsesPooled, NoUpstreamLeak
<1>7. CASE /\ pc' = to /\ servers[req.host] = 0
           /\ servers' = [servers EXCEPT ![req.host] = Len(ups) + 1]
           /\ conn' = Len(ups) + 1 /\ Len(ups') = Len(ups) + 1
           /\ ups'[conn'].st = "open"
  <2>1. \A h \in Hosts : servers'[h] = IF h = req.host THEN conn' ELSE servers[h]
    BY <1>1, <1>2, <1>7
  <2>2. PoolOpen'
    BY <1>1, <1>2, <1>3, <1>7, <2>1 DEF PoolOpen
  <2>3. Apart'
    BY <1>1, <1>3, <1>7, <2>1 DEF Apart
  <2>4. UsesPooled'
    BY <1>1, <1>2, <1>7, <2>1 DEF UsesPooled
  <2>5. NoUpstreamLeak'
    <3> SUFFICES ASSUME NEW u \in 1..Len(ups'), ups'[u].st # "closed"
                 PROVE  \E h \in Hosts : servers'[h] = u
      BY <1>4 DEF NoUpstreamLeak
    <3>1. CASE u = conn'
      BY <1>2, <2>1, <3>1
    <3>2. CASE u # conn'
      <4>1. u \in 1..Len(ups)
        BY <1>1, <1>7, <3>2
      <4>2. PICK h \in Hosts : servers[h] = u
        BY <1>2, <1>3, <4>1
      <4>3. h # req.host
        BY <1>7, <4>1, <4>2
      <4>4. QED BY <2>1, <4>2, <4>3
    <3>3. QED BY <3>1, <3>2
  <2>6. QED BY <2>2, <2>3, <2>4, <2>5 DEF Pool
<1>8. CASE /\ pc' = "submit" /\ UNCHANGED <<servers, conn>>
           /\ \A u \in 1..Len(ups') : u \notin 1..Len(ups) => ups'[u].st = "closed"
  <2>1. PoolOpen' /\ Apart'
    BY <1>1, <1>2, <1>3, <1>8 DEF PoolOpen, Apart
  <2>2. UsesPooled' /\ NoUpstreamLeak'
    BY <1>1, <1>2, <1>3, <1>8 DEF UsesPooled, NoUpstreamLeak
  <2>3. QED BY <2>1, <2>2 DEF Pool
<1>9. QED BY <1>6, <1>7, <1>8, GetServerEffect

LEMMA RemoveServerKeepsPool ==
  ASSUME Types, Pool, NEW retry \in {"no", "dial2", "dial3"}, RemoveServer(retry),
         UNCHANGED <<script, cur, conn>>, pc \in UsingPcs
  PROVE  Pool'
<1>1. cur > 0 /\ conn \in 1..Len(ups) /\ pc \notin {"exit", "close", "done"}
  BY DEF Types, Handles, UsingPcs, IdlePcs, OverPcs
<1>2. /\ servers \in [Hosts -> 0..Len(ups)] /\ Len(ups) \in Nat /\ req.host \in Hosts
      /\ servers[req.host] = conn
  BY <1>1, ConnectionType, CurrentRequest DEF Types, PoolTypes, Pool, UsesPooled, UsingPcs
<1>3. /\ Len(ups') = Len(ups) /\ ups'[conn].st = "closed"
      /\ \A v \in 1..Len(ups) : v # conn => ups'[v] = ups[v]
      /\ pc' \in {"submit", "dial2", "dial3"}
  <2>1. ups[conn] \in Connection
    BY <1>1, ConnectionType
  <2>2. Closed(conn).st = "closed"
    BY <2>1 DEF Closed, Connection
  <2>3. QED BY <1>1, <2>2, RemoveServerEffect
<1>4. \A h \in Hosts : servers'[h] = IF h = req.host THEN 0 ELSE servers[h]
  BY <1>2 DEF RemoveServer
<1>5. PoolOpen'
  BY <1>1, <1>2, <1>3, <1>4 DEF Pool, PoolOpen, Apart, OverPcs
<1>6. Apart'
  BY <1>4 DEF Pool, Apart
<1>7. UsesPooled'
  BY <1>3 DEF UsesPooled
<1>8. NoUpstreamLeak'
  BY SMTT(20), <1>1, <1>2, <1>3, <1>4 DEF Pool, NoUpstreamLeak
<1>9. QED BY <1>5, <1>6, <1>7, <1>8 DEF Pool

LEMMA ClosingEffect ==
  ASSUME Types, CloseServers
  PROVE  /\ Len(ups') = Len(ups)
         /\ \A u \in 1..Len(ups) :
              ups'[u] = IF \E h \in Hosts : servers[h] = u THEN Closed(u) ELSE ups[u]
<1>1. DOMAIN ups = 1..Len(ups) /\ Len(ups) \in Nat
  BY ConnectionType
<1>2. \A u \in 1..Len(ups) :
        ups'[u] = IF \E h \in Hosts : servers[h] = u THEN Closed(u) ELSE ups[u]
  BY <1>1 DEF CloseServers
<1>3. DOMAIN ups' = 1..Len(ups)
  BY <1>1 DEF CloseServers
<1>4. Len(ups') \in Nat /\ DOMAIN ups' = 1..Len(ups')
  BY EndTypes DEF Types, PoolTypes
<1>5. QED BY <1>1, <1>2, <1>3, <1>4

\* At the end every pooled connection is closed, and so every connection.
LEMMA ClosingKeepsPool ==
  ASSUME Types, Pool, TunnelEnds \/ CloseServers
  PROVE  Pool'
<1>1. servers \in [Hosts -> 0..Len(ups)] /\ ups \in Seq(Connection) /\ Len(ups) \in Nat
  BY ConnectionType DEF Types, PoolTypes
<1>2. \A u \in 1..Len(ups) : Closed(u) \in Connection /\ Closed(u).st = "closed"
  BY ConnectionType, EmptySeq DEF Closed, Connection
<1>3. UNCHANGED <<servers, script, cur>> /\ pc' \in {"exit", "close"}
  BY DEF TunnelEnds, CloseServers
<1>4. PoolOpen' /\ Apart' /\ UsesPooled'
  BY <1>3 DEF Pool, PoolOpen, Apart, UsesPooled, OverPcs
<1>5. NoUpstreamLeak'
  <2>1. CASE TunnelEnds
    <3>1. conn \in 1..Len(ups)
      BY <2>1 DEF TunnelEnds, Types, Handles, UsingPcs
    <3>2. /\ Len(ups') = Len(ups) /\ ups'[conn].st = "closed"
          /\ \A v \in 1..Len(ups) : v # conn => ups'[v] = ups[v]
      BY <1>1, <1>2, <2>1, <3>1, OneChanged DEF TunnelEnds
    <3>3. QED BY <1>3, <2>1, <3>2 DEF Pool, NoUpstreamLeak, TunnelEnds
  <2>2. CASE CloseServers
    <3>1. Len(ups') = Len(ups) /\ \A u \in 1..Len(ups) : ups'[u].st = "closed"
      BY <1>2, <2>2, ClosingEffect DEF Pool, NoUpstreamLeak
    <3>2. QED BY <3>1 DEF NoUpstreamLeak
  <2>3. QED BY <2>1, <2>2
<1>6. QED BY <1>4, <1>5 DEF Pool

LEMMA PoolInvariant == Spec => [](Types /\ Pool)
<1>1. Init => Pool
  BY DEF Init, Pool, PoolOpen, Apart, UsesPooled, NoUpstreamLeak
<1>2. Types /\ Pool /\ [Next]_vars => Pool'
  <2> SUFFICES ASSUME Types, Pool, [Next]_vars PROVE Pool'
    OBVIOUS
  <2>1. CASE Steady
    BY <2>1, SteadyKeepsPool
  <2>2. CASE PoolSteps
    BY <2>2, GetServerKeepsPool, RemoveServerKeepsPool, ClosingKeepsPool DEF PoolSteps
  <2>3. QED BY <2>1, <2>2, SteadySteps
<1>3. QED BY <1>1, <1>2, TypesInvariant, PTL DEF Spec

\* However its requests fail and are retried, the session loses track of no upstream
\* connection: one it has not closed is in the pool, and none is left when it has
\* ended (session.go:43-51, 218-226).
THEOREM KeepsTrack == Spec => []NoUpstreamLeak
<1>1. Types /\ Pool => NoUpstreamLeak
  BY DEF Pool
<1>2. QED BY <1>1, PoolInvariant, PTL

\* forward never writes to or reads from a connection that has been closed, or one
\* that is not the pooled connection of the request's host (session.go:143-216).
THEOREM AlwaysPooled == Spec => []UsesPooled
<1>1. Types /\ Pool => UsesPooled
  BY DEF Pool
<1>2. QED BY <1>1, PoolInvariant, PTL
-----------------------------------------------------------------------------
(* How often a request is executed *)

\* Connection u carries request r to its server.
Carries(u, r) == \E i \in 1..Len(ups[u].inq) : ups[u].inq[i] = r

Holding(r) == {u \in 1..Len(ups) : Carries(u, r)}

\* The most often a request may be written, and how often it may be from here on.
Most(r) == IF script[r].body = "none" THEN 2 ELSE 1

FirstPcs == {"upgrade", "body", "route", "dial1", "write1", "dial2", "write2"}
SecondPcs == {"read1", "dial3", "write3"}

Left(r) ==
  IF r > cur THEN Most(r)
  ELSE IF r < cur THEN 0
  ELSE IF pc \in FirstPcs THEN Most(r)
  ELSE IF pc \in SecondPcs THEN Most(r) - 1 ELSE 0

\* A request is executed, on its way, or still to be written.
Budget ==
  \A r \in Requests : Cardinality(Holding(r)) + served[r] + Left(r) <= Most(r)

\* No connection carries a request twice.
Distinct ==
  \A u \in 1..Len(ups) : \A i, j \in 1..Len(ups[u].inq) :
    ups[u].inq[i] = ups[u].inq[j] => i = j

\* A retry is made on a connection that has carried nothing yet.
Renewed ==
  /\ pc \in {"dial2", "dial3"} => servers[req.host] = 0
  /\ pc \in {"write2", "write3"} => ups[conn].inq = <<>>

\* A body that has been sent cannot be sent again.
EmptiedPcs == {"read1", "dial3", "write3", "read2"}
Emptied == pc \in EmptiedPcs /\ HasBody => drained

Sparing == Budget /\ Distinct /\ Renewed /\ Emptied

LEMMA MostLeft ==
  \A r : /\ Most(r) \in 1..2 /\ Left(r) \in 0..Most(r)
         /\ script' = script => Most(r)' = Most(r)
BY DEF Most, Left

LEMMA HoldingFinite ==
  ASSUME Types, NEW r
  PROVE  IsFiniteSet(Holding(r)) /\ Cardinality(Holding(r)) \in Nat
<1>1. Len(ups) \in Nat
  BY ConnectionType
<1>2. IsFiniteSet(1..Len(ups))
  BY <1>1, FS_Interval
<1>3. IsFiniteSet(Holding(r))
  BY <1>2, FS_Subset DEF Holding
<1>4. QED BY <1>3, FS_CardinalityType

\* writeRequest succeeds.
PastWrite ==
  /\ UNCHANGED <<script, served, cur, conn>>
  /\ ~(HasBody /\ drained) /\ drained' = HasBody
  /\ \/ pc \in {"write1", "write2"} /\ pc' = "read1"
     \/ pc = "write3" /\ pc' = "read2"

\* The steps that neither bring a request to a connection (what is written to one
\* that its server has closed is lost) nor let a server execute one.
Calm ==
  /\ UNCHANGED <<script, served>>
  /\ Len(ups') \in Nat /\ Len(ups') >= Len(ups)
  /\ \A u \in 1..Len(ups') : ups'[u].inq = <<>> \/ (u \in 1..Len(ups) /\ ups'[u].inq = ups[u].inq)
  /\ \/ cur' = cur + 1 /\ pc' \in {"upgrade", "body"}
     \/ /\ cur' = cur
        /\ pc' \in FirstPcs => pc \in FirstPcs
        /\ pc' \in SecondPcs => pc \in SecondPcs
        /\ pc' \in EmptiedPcs => pc \in EmptiedPcs /\ drained' = drained
     \/ PastWrite

LEMMA CalmSpares ==
  ASSUME Types, Sparing, Calm
  PROVE  Budget' /\ Distinct' /\ Emptied'
<1> USE DEF Sparing, Calm
<1>1. Len(ups) \in Nat /\ cur \in Nat
  BY FewConnections
<1>2. Distinct'
  BY DEF Distinct
<1>3. Emptied'
  <2>1. CASE cur' = cur /\ (pc' \in EmptiedPcs => pc \in EmptiedPcs /\ drained' = drained)
    <3>1. HasBody' = HasBody
      BY <2>1 DEF HasBody, req
    <3>2. QED BY <2>1, <3>1 DEF Emptied
  <2>2. CASE cur' = cur + 1 /\ pc' \in {"upgrade", "body"}
    BY <2>2 DEF Emptied, EmptiedPcs
  <2>3. CASE PastWrite
    <3>1. HasBody' = HasBody
      BY <2>3 DEF PastWrite, HasBody, req
    <3>2. QED BY <2>3, <3>1 DEF PastWrite, Emptied
  <2>4. QED BY <2>1, <2>2, <2>3
<1>4. Budget'
  <2> SUFFICES ASSUME NEW r \in Requests
               PROVE  Cardinality(Holding(r)') + served[r] + Left(r)' <= Most(r)
    BY MostLeft, SameScript DEF Budget
  <2>1. Holding(r)' \subseteq Holding(r)
    BY DEF Holding, Carries
  <2>2. /\ Cardinality(Holding(r)') <= Cardinality(Holding(r))
        /\ Cardinality(Holding(r)') \in Nat /\ Cardinality(Holding(r)) \in Nat
    BY <2>1, HoldingFinite, FS_Subset, FS_CardinalityType
  <2>3. Left(r)' <= Left(r) /\ Left(r)' \in Nat /\ Left(r) \in Nat /\ Most(r) \in Nat
    <3>1. Most(r) \in 1..2 /\ Left(r) \in 0..Most(r) /\ Most(r)' = Most(r) /\ r \in Nat
      BY MostLeft DEF Requests
    <3> HIDE DEF Most
    <3>2. CASE /\ cur' = cur
               /\ pc' \in FirstPcs => pc \in FirstPcs
               /\ pc' \in SecondPcs => pc \in SecondPcs
      BY <1>1, <3>1, <3>2 DEF Left, FirstPcs, SecondPcs
    <3>3. CASE cur' = cur + 1 /\ pc' \in {"upgrade", "body"}
      BY <1>1, <3>1, <3>3 DEF Left, FirstPcs, SecondPcs
    <3>4. CASE PastWrite
      BY <1>1, <3>1, <3>4 DEF PastWrite, Left, FirstPcs, SecondPcs
    <3>5. QED BY <3>2, <3>3, <3>4
  <2>4. served[r] \in Nat /\ Cardinality(Holding(r)) + served[r] + Left(r) <= Most(r)
    BY DEF Budget, Types, PoolTypes
  <2>5. QED BY <2>2, <2>3, <2>4
<1>5. QED BY <1>2, <1>3, <1>4

\* Request cur is written to connection conn.
Written ==
  /\ PastWrite
  /\ Len(ups') = Len(ups)
  /\ \A u \in 1..Len(ups) : u # conn => ups'[u].inq = ups[u].inq
  /\ ups'[conn].inq = Append(ups[conn].inq, cur)

LEMMA WrittenSpares ==
  ASSUME Types, Sparing, Written
  PROVE  Budget' /\ Distinct' /\ Emptied'
<1> USE DEF Sparing, Written, PastWrite
<1>1. cur \in Requests /\ conn \in 1..Len(ups) /\ Len(ups) \in Nat /\ cur \in Nat
  BY CurrentRequest, FewConnections DEF Types, Handles, IdlePcs, OverPcs, UsingPcs
<1>2. ups[conn].inq \in Seq(Requests)
  BY <1>1, ConnectionType
<1>3. /\ Len(ups'[conn].inq) = Len(ups[conn].inq) + 1
      /\ ups'[conn].inq[Len(ups[conn].inq) + 1] = cur
      /\ \A i \in 1..Len(ups[conn].inq) : ups'[conn].inq[i] = ups[conn].inq[i]
      /\ Len(ups[conn].inq) \in Nat
  BY <1>1, <1>2, AppendProperties
<1>4. /\ Most(cur) \in 1..2 /\ Left(cur) \in 0..Most(cur) /\ Most(cur)' = Most(cur)
      /\ served[cur] \in Nat
      /\ Cardinality(Holding(cur)) \in Nat
      /\ Cardinality(Holding(cur)) + served[cur] + Left(cur) <= Most(cur)
  BY <1>1, MostLeft, HoldingFinite DEF Budget, Types, PoolTypes
<1>5. ~Carries(conn, cur)
  <2>1. CASE pc = "write1"
    <3>1. Left(cur) = Most(cur)
      BY <1>1, <2>1 DEF Left, FirstPcs
    <3>2. Cardinality(Holding(cur)) = 0
      <4> HIDE DEF Most, Left
      <4>1. QED BY <1>4, <3>1
    <3>3. Holding(cur) = {}
      BY <3>2, HoldingFinite, FS_EmptySet
    <3>4. QED BY <1>1, <3>3 DEF Holding
  <2>2. CASE pc \in {"write2", "write3"}
    BY <2>2, EmptySeq DEF Renewed, Carries
  <2>3. QED BY <2>1, <2>2
<1>6. Distinct'
  <2> SUFFICES ASSUME NEW u \in 1..Len(ups), NEW i \in 1..Len(ups'[u].inq),
                      NEW j \in 1..Len(ups'[u].inq), ups'[u].inq[i] = ups'[u].inq[j]
               PROVE  i = j
    BY DEF Distinct
  <2>1. CASE u # conn
    BY <2>1 DEF Distinct
  <2>2. CASE u = conn
    <3> HIDE DEF Sparing, Written, PastWrite
    <3>1. \A k \in 1..Len(ups'[conn].inq) :
            \/ k \in 1..Len(ups[conn].inq) /\ ups'[conn].inq[k] = ups[conn].inq[k]
            \/ k = Len(ups[conn].inq) + 1 /\ ups'[conn].inq[k] = cur
      BY SMTT(20), <1>3
    <3> USE DEF Sparing
    <3>2. \A k \in 1..Len(ups[conn].inq) : ups[conn].inq[k] # cur
      BY <1>5 DEF Carries
    <3>3. \A k, l \in 1..Len(ups[conn].inq) : ups[conn].inq[k] = ups[conn].inq[l] => k = l
      BY <1>1 DEF Distinct
    <3> HIDE DEF Written, PastWrite
    <3>4. QED BY <2>2, <3>1, <3>2, <3>3
  <2>3. QED BY <2>1, <2>2
<1>7. Emptied'
  BY DEF Emptied, HasBody, req
<1>8. Budget'
  <2> SUFFICES ASSUME NEW r \in Requests
               PROVE  Cardinality(Holding(r)') + served[r] + Left(r)' <= Most(r)
    BY MostLeft, SameScript DEF Budget
  <2>1. CASE r = cur
    <3>1. Holding(cur)' = Holding(cur) \cup {conn} /\ conn \notin Holding(cur)
      <4>1. ASSUME NEW u \in 1..Len(ups), u # conn PROVE Carries(u, cur)' <=> Carries(u, cur)
        BY <4>1 DEF Carries
      <4>2. Carries(conn, cur)'
        BY <1>3 DEF Carries
      <4>3. \A u : u \in Holding(cur)' <=> u \in 1..Len(ups) /\ Carries(u, cur)'
        BY DEF Holding, Carries
      <4>4. \A u : u \in Holding(cur) <=> u \in 1..Len(ups) /\ Carries(u, cur)
        BY DEF Holding
      <4>5. \A u : u \in Holding(cur)' <=> u \in Holding(cur) \/ u = conn
        BY <1>1, <4>1, <4>2, <4>3, <4>4
      <4>6. QED BY <1>5, <4>4, <4>5
    <3>2. Cardinality(Holding(cur)') = Cardinality(Holding(cur)) + 1
      BY <3>1, HoldingFinite, FS_AddElement
    <3>3. Left(cur)' = Left(cur) - 1
      <4>1. CASE pc \in {"write1", "write2"}
        BY SMTT(20), <1>1, <1>4, <4>1 DEF Left, FirstPcs, SecondPcs
      <4>2. CASE pc = "write3"
        <5>1. ~HasBody
          BY <4>2 DEF Emptied, EmptiedPcs
        <5>2. Most(cur) = 2
          BY <5>1 DEF HasBody, req, Most
        <5>3. QED BY <1>1, <1>4, <4>2, <5>2 DEF Left, FirstPcs, SecondPcs
      <4>3. QED BY <4>1, <4>2
    <3> HIDE DEF Most, Left, Holding
    <3>4. QED BY <1>4, <2>1, <3>2, <3>3
  <2>2. CASE r # cur
    <3>1. Holding(r)' \subseteq Holding(r)
      <4>1. ASSUME NEW u \in 1..Len(ups), Carries(u, r)' PROVE Carries(u, r)
        <5>1. PICK i \in 1..Len(ups'[u].inq) : ups'[u].inq[i] = r
          BY <4>1 DEF Carries
        <5>2. CASE u = conn
          <6>1. i # Len(ups[conn].inq) + 1
            BY <1>3, <2>2, <5>1, <5>2
          <6>2. i \in 1..Len(ups[conn].inq)
            BY <1>3, <5>1, <5>2, <6>1
          <6>3. QED BY <1>3, <5>1, <5>2, <6>2 DEF Carries
        <5>3. CASE u # conn
          BY <4>1, <5>3 DEF Carries
        <5>4. QED BY <5>2, <5>3
      <4>2. QED BY <4>1 DEF Holding
    <3>2. /\ Cardinality(Holding(r)') <= Cardinality(Holding(r))
          /\ Cardinality(Holding(r)') \in Nat /\ Cardinality(Holding(r)) \in Nat
      BY <3>1, HoldingFinite, FS_Subset, FS_CardinalityType
    <3>3. Left(r)' = Left(r) /\ Left(r) \in Nat /\ Most(r) \in Nat
      BY <1>1, <2>2, MostLeft DEF Left, Requests
    <3>4. served[r] \in Nat /\ Cardinality(Holding(r)) + served[r] + Left(r) <= Most(r)
      BY DEF Budget, Types, PoolTypes
    <3> HIDE DEF Most, Left, Holding
    <3>5. QED BY <3>2, <3>3, <3>4
  <2>3. QED BY <2>1, <2>2
<1>9. QED BY <1>6, <1>7, <1>8

\* A server that executes a request takes it off its connection.
LEMMA ServingSpares ==
  ASSUME Types, Sparing, NEW u \in 1..MaxUps, UpstreamServes(u)
  PROVE  Budget' /\ Distinct' /\ Emptied'
<1> USE DEF Sparing
<1> DEFINE r == Head(ups[u].inq)
<1>1. /\ u \in 1..Len(ups) /\ Len(ups') = Len(ups) /\ r \in Requests
      /\ \A v \in 1..Len(ups) : v # u => ups'[v] = ups[v]
      /\ ups'[u].inq = Tail(ups[u].inq) /\ ups[u].inq # <<>>
  BY UpstreamEffect DEF Upstream, UpstreamServes, UpstreamDies
<1>2. /\ UNCHANGED <<script, pc, cur, drained>>
      /\ served' = [served EXCEPT ![r] = @ + 1]
  BY DEF UpstreamServes, serveVars
<1>3. /\ Len(ups'[u].inq) = Len(ups[u].inq) - 1 /\ Len(ups[u].inq) \in Nat \ {0}
      /\ \A i \in 1..Len(ups'[u].inq) :
           i + 1 \in 1..Len(ups[u].inq) /\ ups'[u].inq[i] = ups[u].inq[i + 1]
      /\ ups[u].inq[1] = r
  <2>1. ups[u].inq \in Seq(Requests)
    BY <1>1, ConnectionType
  <2>2. Len(ups[u].inq) \in Nat \ {0} /\ ups[u].inq[1] = r
    BY <1>1, <2>1, EmptySeq
  <2>3. QED BY <1>1, <2>1, <2>2, HeadTailProperties
<1> HIDE DEF r
<1>4. Distinct'
  <2> SUFFICES ASSUME NEW v \in 1..Len(ups), NEW i \in 1..Len(ups'[v].inq),
                      NEW j \in 1..Len(ups'[v].inq), ups'[v].inq[i] = ups'[v].inq[j]
               PROVE  i = j
    BY <1>1 DEF Distinct
  <2>1. CASE v # u
    BY <1>1, <2>1 DEF Distinct
  <2>2. CASE v = u
    <3>1. i \in 1..Len(ups'[u].inq) /\ j \in 1..Len(ups'[u].inq)
          /\ ups'[u].inq[i] = ups'[u].inq[j]
      BY <2>2
    <3>2. /\ i + 1 \in 1..Len(ups[u].inq) /\ j + 1 \in 1..Len(ups[u].inq)
          /\ ups[u].inq[i + 1] = ups[u].inq[j + 1]
      BY <1>3, <3>1
    <3>3. i + 1 = j + 1
      BY <1>1, <3>1, <3>2 DEF Distinct
    <3>4. QED BY <3>3
  <2>3. QED BY <2>1, <2>2
<1>5. Emptied'
  BY <1>2 DEF Emptied, HasBody, req
<1>6. Budget'
  <2> SUFFICES ASSUME NEW q \in Requests
               PROVE  Cardinality(Holding(q)') + served'[q] + Left(q)' <= Most(q)
    BY <1>2, MostLeft, SameScript DEF Budget
  <2>1. /\ Left(q)' = Left(q) /\ Left(q) \in Nat /\ Most(q) \in Nat
        /\ served \in [Requests -> Nat]
        /\ Cardinality(Holding(q)) \in Nat
        /\ Cardinality(Holding(q)) + served[q] + Left(q) <= Most(q)
    BY <1>2, MostLeft, HoldingFinite DEF Left, Most, Budget, Types, PoolTypes
  <2>2. ASSUME NEW v \in 1..Len(ups), Carries(v, q)'
        PROVE  Carries(v, q) /\ (q = r => v # u)
    <3>1. CASE v # u
      BY <1>1, <2>2, <3>1 DEF Carries
    <3>2. CASE v = u
      <4>1. PICK i \in 1..Len(ups'[u].inq) : ups'[u].inq[i] = q
        BY <2>2, <3>2 DEF Carries
      <4>2. i + 1 \in 1..Len(ups[u].inq) /\ ups[u].inq[i + 1] = q /\ 1 \in 1..Len(ups[u].inq)
        BY SMTT(20), <1>3, <4>1
      <4>3. q # r
        BY <1>1, <1>3, <4>1, <4>2 DEF Distinct
      <4>4. QED BY <3>2, <4>2, <4>3 DEF Carries
    <3>3. QED BY <3>1, <3>2
  <2>3. CASE q = r
    <3>1. Holding(q)' \subseteq Holding(q) \ {u}
      BY <1>1, <2>2, <2>3 DEF Holding
    <3>2. u \in Holding(q)
      BY <1>1, <1>3, <2>3 DEF Holding, Carries
    <3>3. IsFiniteSet(Holding(q) \ {u})
          /\ Cardinality(Holding(q) \ {u}) = Cardinality(Holding(q)) - 1
      BY <3>2, HoldingFinite, FS_RemoveElement
    <3>4. Cardinality(Holding(q)') <= Cardinality(Holding(q)) - 1
          /\ Cardinality(Holding(q)') \in Nat
      BY <3>1, <3>3, FS_Subset, FS_CardinalityType
    <3>5. served'[q] = served[q] + 1
      BY <1>2, <2>1, <2>3
    <3> HIDE DEF Holding, Left, Most
    <3>6. served[q] \in Nat
      BY <2>1
    <3>7. QED BY <2>1, <3>4, <3>5, <3>6
  <2>4. CASE q # r
    <3>1. Holding(q)' \subseteq Holding(q)
      BY <1>1, <2>2 DEF Holding
    <3>2. Cardinality(Holding(q)') <= Cardinality(Holding(q)) /\ Cardinality(Holding(q)') \in Nat
      BY <3>1, HoldingFinite, FS_Subset, FS_CardinalityType
    <3>3. served'[q] = served[q] /\ served[q] \in Nat
      BY <1>2, <2>1, <2>4
    <3> HIDE DEF Holding, Left, Most
    <3>4. QED BY <2>1, <3>2, <3>3
  <2>5. QED BY <2>3, <2>4
<1>7. QED BY <1>4, <1>5, <1>6

\* Every step is one of these.
LEMMA SparingSteps ==
  ASSUME Types, [Next]_vars
  PROVE  Calm \/ Written \/ \E u \in 1..MaxUps : UpstreamServes(u)
<1> USE DEF FirstPcs, SecondPcs, EmptiedPcs, clientVars, serveVars, poolVars, writerVars
<1>0. Len(ups) \in Nat /\ cur \in Nat
  BY FewConnections
<1>1. ASSUME UNCHANGED <<script, served, ups>>,
             \/ cur' = cur + 1 /\ pc' \in {"upgrade", "body"}
             \/ /\ cur' = cur
                /\ pc' \in FirstPcs => pc \in FirstPcs
                /\ pc' \in SecondPcs => pc \in SecondPcs
                /\ pc' \in EmptiedPcs => pc \in EmptiedPcs /\ drained' = drained
      PROVE  Calm
  BY <1>0, <1>1 DEF Calm
<1>2. ASSUME UNCHANGED <<script, served, cur>>, Len(ups') = Len(ups),
             \A u \in 1..Len(ups) : ups'[u].inq = ups[u].inq,
             pc' \in FirstPcs => pc \in FirstPcs,
             pc' \in SecondPcs => pc \in SecondPcs,
             pc' \in EmptiedPcs => pc \in EmptiedPcs /\ drained' = drained
      PROVE  Calm
  BY <1>0, <1>2 DEF Calm
<1>3. CASE Top \/ ReadRequest \/ ReadFails \/ UpgradeClient \/ BufferBody \/ Route \/ Submit
           \/ CloseClient
  <2>1. UNCHANGED <<script, served, ups>>
    BY <1>3 DEF Top, ReadRequest, ReadFails, UpgradeClient, BufferBody, Route, Submit,
                CloseClient
  <2>2. \/ cur' = cur + 1 /\ pc' \in {"upgrade", "body"}
        \/ cur' = cur /\ pc \in FirstPcs /\ pc' \in {"route", "dial1", "top", "exit", "submit"}
        \/ cur' = cur /\ pc' \in {"top", "read", "exit", "done"}
    BY <1>3 DEF Top, ReadRequest, ReadFails, UpgradeClient, BufferBody, BadGateway, Route,
                HandleManage, ShortCircuit, Submit, CloseClient
  <2>3. QED BY <2>1, <2>2, <1>1
<1>4. ASSUME NEW from, NEW to, GetServer(from, to), DialsAt(from, to)
      PROVE  Calm
  <2>1. /\ UNCHANGED <<script, served, cur, drained>> /\ pc = from
        /\ Len(ups') \in Nat /\ Len(ups') >= Len(ups)
        /\ \A u \in 1..Len(ups) : ups'[u] = ups[u]
        /\ \A u \in 1..Len(ups') : u \notin 1..Len(ups) => ups'[u].inq = <<>>
    BY <1>4, GetServerEffect
  <2>2. pc' \in {to, "submit"}
    BY <1>4, GetServerEffect
  <2>3. QED BY <1>4, <2>1, <2>2 DEF Calm, DialsAt
<1>5. ASSUME NEW retry, RemoveServer(retry), UNCHANGED <<script, served, cur, conn>>,
             pc \in UsingPcs
      PROVE  /\ Len(ups') = Len(ups) /\ \A u \in 1..Len(ups) : ups'[u].inq = ups[u].inq
             /\ pc' = "submit" \/ (pc' = retry /\ retry # "no")
  <2>1. cur > 0 /\ conn \in 1..Len(ups)
    BY <1>5 DEF Types, Handles, UsingPcs, IdlePcs, OverPcs
  <2>2. Closed(conn).inq = ups[conn].inq
    BY <2>1, ConnectionType DEF Closed, Connection
  <2>3. QED BY <1>5, <2>1, <2>2, RemoveServerEffect
<1>6. ASSUME NEW from, NEW to, NEW retry, WriteRequest(from, to, retry),
             WritesAt(from, to, retry)
      PROVE  Calm \/ Written
  <2>1. UNCHANGED <<script, served, cur, conn>> /\ pc = from /\ pc \in UsingPcs
    BY <1>6 DEF WriteRequest, WritesAt, UsingPcs
  <2>2. CASE RemoveServer(retry)
    BY <1>2, <1>5, <1>6, <2>1, <2>2 DEF WritesAt
  <2>3. CASE ~RemoveServer(retry)
    <3>1. /\ ups' = IF ups[conn].st = "open"
                    THEN [ups EXCEPT ![conn].inq = Append(@, cur)] ELSE ups
          /\ pc' = to /\ ~(HasBody /\ drained) /\ drained' = HasBody
      BY <1>6, <2>3 DEF WriteRequest
    <3>0. PastWrite
      BY <1>6, <2>1, <3>1 DEF PastWrite, WritesAt
    <3>2. cur > 0 /\ conn \in 1..Len(ups)
      BY <2>1 DEF Types, Handles, IdlePcs, OverPcs, UsingPcs
    <3>3. CASE ups[conn].st = "open"
      <4>1. /\ Len(ups') = Len(ups)
            /\ \A u \in 1..Len(ups) : u # conn => ups'[u].inq = ups[u].inq
        BY <2>1, <3>1, <3>2, WriteEffect
      <4>2. ups'[conn].inq = Append(ups[conn].inq, cur)
        BY <3>1, <3>2, <3>3, ConnectionType, LenProperties DEF Connection
      <4>3. QED BY <3>0, <4>1, <4>2 DEF Written
    <3>4. CASE ups[conn].st # "open"
      BY <1>0, <2>1, <3>1, <3>0, <3>4 DEF Calm
    <3>5. QED BY <3>3, <3>4
  <2>4. QED BY <2>2, <2>3
<1>7. ASSUME NEW from, NEW retry, ReadResponse(from, retry), ReadsAt(from, retry)
      PROVE  Calm
  <2>1. /\ UNCHANGED <<script, served, cur, conn, drained>> /\ pc = from /\ pc \in UsingPcs
        /\ conn \in 1..Len(ups)
    BY <1>7 DEF ReadResponse, ReadsAt, UsingPcs, Types, Handles
  <2>2. CASE RemoveServer(retry)
    <3>1. pc' \in {"submit", "dial3"} /\ (pc' = "dial3" => pc = "read1")
      BY <1>5, <1>7, <2>1, <2>2 DEF ReadsAt
    <3>2. QED BY <1>2, <1>5, <2>1, <2>2, <3>1
  <2>3. CASE ~RemoveServer(retry)
    <3>1. HasPart(conn) /\ TakePart(conn) /\ pc' = "hooks"
      BY <1>7, <2>3 DEF ReadResponse
    <3>2. Len(ups') = Len(ups) /\ \A u \in 1..Len(ups) : ups'[u].inq = ups[u].inq
      BY <2>1, <3>1, TakePartChanges
    <3>3. QED BY <1>2, <2>1, <3>1, <3>2
  <2>4. QED BY <2>2, <2>3
<1>8. CASE ApplyHooks \/ Handshake
  <2>1. /\ UNCHANGED <<script, served, cur, conn>> /\ pc \in {"hooks", "handshake"}
        /\ pc' \in {"handshake", "submit", "tunnel", "exit"}
        /\ ups' = ups \/ (HasPart(conn) /\ TakePart(conn))
    BY <1>8 DEF ApplyHooks, Handshake
  <2>2. conn \in 1..Len(ups)
    BY <2>1 DEF Types, Handles, UsingPcs
  <2>3. Len(ups') = Len(ups) /\ \A u \in 1..Len(ups) : ups'[u].inq = ups[u].inq
    BY <2>1, <2>2, TakePartChanges
  <2>4. QED BY <1>2, <2>1, <2>3
<1>9. CASE TunnelEnds \/ CloseServers
  <2>1. UNCHANGED <<script, served, cur>> /\ pc' \in {"exit", "close"}
    BY <1>9 DEF TunnelEnds, CloseServers
  <2>2. \A u \in 1..Len(ups) : Closed(u).inq = ups[u].inq /\ Closed(u) \in Connection
    BY ConnectionType, EmptySeq DEF Closed, Connection
  <2>3. Len(ups') = Len(ups) /\ \A u \in 1..Len(ups) : ups'[u].inq = ups[u].inq
    <3>1. CASE TunnelEnds
      <4>1. conn \in 1..Len(ups)
        BY <3>1 DEF TunnelEnds, Types, Handles, UsingPcs
      <4>2. QED BY <2>2, <3>1, <4>1, OneChanged, ConnectionType DEF TunnelEnds
    <3>2. CASE CloseServers
      BY <2>2, <3>2, ClosingEffect
    <3>3. QED BY <1>9, <3>1, <3>2
  <2>4. QED BY <1>2, <2>1, <2>3
<1>10. CASE Writer
  <2>1. /\ UNCHANGED <<script, served, cur, pc, drained>>
        /\ ups' = ups \/ (wpc \in {"stream", "drain"} /\ HasPart(wcur.up) /\ TakePart(wcur.up))
    BY <1>10 DEF Writer, WriterFrame, WriteLocal, WriteHead, WriteBody, DrainBody, WriterEnds
  <2>2. wpc \in {"stream", "drain"} => wcur.up \in 1..Len(ups)
    BY DEF Types, Handles, Sendable
  <2>3. Len(ups') = Len(ups) /\ \A u \in 1..Len(ups) : ups'[u].inq = ups[u].inq
    BY <2>1, <2>2, TakePartChanges
  <2>4. QED BY <1>2, <2>1, <2>3
<1>11. CASE ClientAsks \/ ClientLeaves \/ StopCloses \/ DeadlinePasses \/ UNCHANGED vars
  <2>1. UNCHANGED <<script, served, ups, pc, cur, drained>>
    BY <1>11 DEF ClientAsks, ClientLeaves, StopCloses, DeadlinePasses, vars
  <2>2. QED BY <1>1, <2>1
<1>12. ASSUME NEW u \in 1..MaxUps, UpstreamDies(u) PROVE Calm
  <2>1. UNCHANGED <<script, served, pc, cur, drained>>
    BY <1>12 DEF UpstreamDies
  <2>2. /\ Len(ups') = Len(ups) /\ ups'[u].inq = <<>>
        /\ \A v \in 1..Len(ups) : v # u => ups'[v] = ups[v]
    BY <1>12, UpstreamEffect DEF Upstream
  <2>3. QED BY <1>0, <2>1, <2>2 DEF Calm
<1>13. CASE Forward
  BY <1>4, <1>6, <1>7, <1>13, ForwardSteps
<1>14. QED
  BY <1>3, <1>8, <1>9, <1>10, <1>11, <1>12, <1>13
     DEF Next, Serve, Environment, Upstream, Finished

\* forward retries only after removeServer, so getServer makes a new connection.
RetryPcs == {"dial2", "write2", "dial3", "write3"}

LEMMA OtherStepsRetryNothing ==
  ASSUME Serve, ~Forward
  PROVE  pc' \notin RetryPcs
BY DEF Serve, Top, ReadRequest, ReadFails, UpgradeClient, BufferBody, BadGateway, Route,
       HandleManage, ShortCircuit, Submit, ApplyHooks, Handshake, TunnelEnds,
       CloseServers, CloseClient, RetryPcs

LEMMA ForwardRenews ==
  ASSUME Types, Renewed, Forward
  PROVE  Renewed'
<1>1. ASSUME NEW from, NEW to, GetServer(from, to), DialsAt(from, to)
      PROVE  Renewed'
  <2>1. pc = from /\ UNCHANGED <<script, cur>>
    BY <1>1 DEF GetServer
  <2>2. CASE pc' = to /\ to # "write1"
    <3>1. servers[req.host] = 0
      BY <1>1, <2>1, <2>2 DEF DialsAt, Renewed
    <3>2. ups' = Append(ups, Fresh("open")) /\ conn' = Len(ups) + 1
      BY <1>1, <2>2, <3>1 DEF GetServer, NewServer, NoServer, BadServer, BadGateway, DialsAt
    <3>3. ups'[conn'] = Fresh("open")
      BY <3>2, ConnectionType, AppendProperties, EmptySeq DEF Fresh, Connection
    <3>4. QED BY <1>1, <2>2, <3>3 DEF Renewed, DialsAt, Fresh
  <2>3. CASE pc' \in {"submit", "write1"}
    BY <2>3 DEF Renewed
  <2>4. QED BY <1>1, <2>2, <2>3, GetServerEffect DEF DialsAt
<1>2. ASSUME NEW retry, RemoveServer(retry), UNCHANGED <<script, cur>>, pc \in UsingPcs,
             retry \in {"no", "dial2", "dial3"}
      PROVE  Renewed'
  <2>1. cur > 0 /\ req' = req
    BY <1>2 DEF Types, Handles, UsingPcs, IdlePcs, OverPcs, req
  <2>2. servers' = [servers EXCEPT ![req.host] = 0] /\ pc' \in {"submit", "dial2", "dial3"}
    BY <1>2 DEF RemoveServer, BadGateway
  <2>3. servers'[req.host] = 0
    BY <2>1, <2>2, CurrentRequest DEF Types, PoolTypes
  <2>4. QED BY <2>1, <2>2, <2>3 DEF Renewed
<1>3. ASSUME NEW from, NEW to, NEW retry, WriteRequest(from, to, retry),
             WritesAt(from, to, retry)
      PROVE  Renewed'
  <2>1. UNCHANGED <<script, cur>> /\ pc \in UsingPcs /\ retry \in {"no", "dial2", "dial3"}
    BY <1>3 DEF WriteRequest, WritesAt, UsingPcs
  <2>2. RemoveServer(retry) \/ pc' \in {"read1", "read2"}
    BY <1>3 DEF WriteRequest, WritesAt
  <2>3. QED BY <1>2, <2>1, <2>2 DEF Renewed
<1>4. ASSUME NEW from, NEW retry, ReadResponse(from, retry), ReadsAt(from, retry)
      PROVE  Renewed'
  <2>1. UNCHANGED <<script, cur>> /\ pc \in UsingPcs /\ retry \in {"no", "dial2", "dial3"}
    BY <1>4 DEF ReadResponse, ReadsAt, UsingPcs
  <2>2. RemoveServer(retry) \/ pc' = "hooks"
    BY <1>4 DEF ReadResponse
  <2>3. QED BY <1>2, <2>1, <2>2 DEF Renewed
<1>5. QED BY <1>1, <1>3, <1>4, ForwardSteps

LEMMA RenewedKept ==
  ASSUME Types, Renewed, [Next]_vars
  PROVE  Renewed'
<1>1. CASE Serve
  BY <1>1, OtherStepsRetryNothing, ForwardRenews DEF Renewed, RetryPcs
<1>2. CASE ~Serve
  <2>1. UNCHANGED <<script, cur, pc, conn, servers>>
    BY <1>2 DEF Next, Writer, WriterFrame, WriteLocal, WriteHead, WriteBody, DrainBody,
                WriterEnds, Environment, ClientAsks, ClientLeaves, StopCloses,
                DeadlinePasses, Upstream, UpstreamServes, UpstreamDies, Finished, vars,
                serveVars, poolVars
  <2>2. CASE pc \in {"write2", "write3"}
    <3>1. conn \in 1..Len(ups) /\ ups[conn].inq = <<>>
      BY <2>2 DEF Renewed, Types, Handles, UsingPcs
    <3>2. ups'[conn].inq = <<>>
      <4>1. CASE Calm
        <5>1. conn \in 1..Len(ups')
          BY <3>1, <4>1, FewConnections DEF Calm
        <5>2. QED BY <3>1, <4>1, <5>1 DEF Calm
      <4>2. ASSUME NEW u \in 1..MaxUps, UpstreamServes(u) PROVE ups'[conn] = ups[conn]
        BY <3>1, <4>2, UpstreamEffect DEF UpstreamServes, Upstream
      <4>3. ~Written
        BY <2>1 DEF Written, PastWrite
      <4>4. QED BY <3>1, <4>1, <4>2, <4>3, SparingSteps
    <3>3. QED BY <2>1, <2>2, <3>2 DEF Renewed
  <2>3. CASE pc \notin {"write2", "write3"}
    <3>1. req' = req
      BY <2>1 DEF req
    <3>2. QED BY <2>1, <2>3, <3>1 DEF Renewed
  <2>4. QED BY <2>2, <2>3
<1>3. QED BY <1>1, <1>2

LEMMA SparingInvariant == Spec => [](Types /\ Pool /\ Sparing)
<1>1. Init => Sparing
  <2> SUFFICES ASSUME Init PROVE Sparing
    OBVIOUS
  <2>1. Types
    BY InitTypes
  <2>2. ups = <<>> /\ pc = "top" /\ cur = 0 /\ served = [r \in Requests |-> 0]
    BY DEF Init, Requests
  <2>3. Distinct /\ Renewed /\ Emptied
    BY <2>2 DEF Distinct, Renewed, Emptied, EmptiedPcs
  <2>4. ASSUME NEW r \in Requests
        PROVE  Cardinality(Holding(r)) + served[r] + Left(r) <= Most(r)
    <3>1. Cardinality(Holding(r)) = 0
      BY <2>1, <2>2, HoldingFinite, FS_EmptySet DEF Holding
    <3>2. served[r] = 0
      BY <2>2
    <3>3. Left(r) <= Most(r) /\ Left(r) \in Nat /\ Most(r) \in Nat
      BY MostLeft
    <3> HIDE DEF Left, Most
    <3>4. QED BY <3>1, <3>2, <3>3
  <2>5. QED BY <2>3, <2>4 DEF Sparing, Budget
<1>2. Types /\ Pool /\ Sparing /\ [Next]_vars => Sparing'
  BY CalmSpares, WrittenSpares, ServingSpares, SparingSteps, RenewedKept DEF Sparing
<1>3. QED BY <1>1, <1>2, PoolInvariant, PTL DEF Spec

\* An upstream server executes a request at most twice, and one with a body only
\* once, however forward retries it: of its three attempts the second is made only
\* if the first was not written, and the body is there only for one
\* (session.go:143-182, 228-232).
THEOREM RetriesFew == Spec => []ServedAtMost
<1>1. Types /\ Pool /\ Sparing => ServedAtMost
  <2> SUFFICES ASSUME Types, Sparing, NEW r \in Requests PROVE served[r] <= Most(r)
    BY DEF ServedAtMost, Most
  <2>1. /\ Cardinality(Holding(r)) \in Nat /\ served[r] \in Nat
        /\ Left(r) \in Nat /\ Most(r) \in Nat
        /\ Cardinality(Holding(r)) + served[r] + Left(r) <= Most(r)
    BY HoldingFinite, MostLeft DEF Sparing, Budget, Types, PoolTypes
  <2> HIDE DEF Left, Most
  <2>2. QED BY <2>1
<1>2. QED BY <1>1, SparingInvariant, PTL
=============================================================================
