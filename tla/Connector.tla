----------------------------- MODULE Connector -----------------------------
(***************************************************************************)
(* The first version of the proxy (core/mitm.go, client-connector-server.go, *)
(* responseWriter.go): a Container accepts client connections, and each     *)
(* has a Connector with three kinds of goroutines - one that reads          *)
(* requests, one for each request without a streamed body, and one that     *)
(* runs the functions they send over clientWriteCh.  They share a map of    *)
(* upstream connections, which comes from a pool of maps.                   *)
(*                                                                         *)
(* Messages are abstracted as in Session: a head and a body, each atomic.   *)
(***************************************************************************)
EXTENDS Naturals, Sequences, FiniteSets

CONSTANTS
  Conns,       \* the client connections that may be made
  Scripts,     \* for each of them, the sequences of requests it may carry
  MaxLen,      \* bound: no script is longer
  Hosts,       \* the upstream servers (the values of the Host header)
  Maps,        \* the maps mapPool hands out
  Cap,         \* the capacity of clientWriteCh (10 in the code)
  Pipelining,  \* may a client ask again before it has its answer?
  Hooks        \* which of "replace" (processResponse), "inject" (insertHTMLFn)
               \* are set, and whether queued functions "panic"

\* What becomes of a request: "manage" is answered by the proxy, "short" has a
\* function returned by processRequest, "connect" opens TLS.
Request ==
  [kind : {"manage", "short", "forward", "connect"}, host : Hosts,
   body : {"none", "small", "stream"}, ws : BOOLEAN]

ASSUME ConnectorAssumption ==
  /\ MaxLen \in Nat
  /\ Cap \in Nat \ {0}
  /\ Pipelining \in BOOLEAN
  /\ Hooks \subseteq {"replace", "inject", "panic"}
  /\ \A c \in Conns : \A s \in Scripts[c] : s \in Seq(Request) /\ Len(s) <= MaxLen

VARIABLES
  closed,     \* c.closed
  startPc,    \* where the goroutine in Start is
  listening,  \* the listening socket accepts connections
  registered, \* c.connectors
  script, sent, got,  \* of each client: its requests, how many it has sent,
                      \* the parts of responses it has received
  sock,       \* its socket: "none", "backlog", "open", "shut" by it, "closed"
  late,       \* the deadline of its connection has passed
  rpc,        \* where the goroutine of addConnector is
  cur,        \* the last request it has read
  tls,        \* client.isTls
  mapOf,      \* connector.server (0 before addConnector)
  h,          \* the call of the handler function for each request
  maps, free, \* the contents of the maps, and those in mapPool
  ups,        \* every upstream connection ever made
  served,     \* how often an upstream server has executed each request
  ch, chClosed,  \* clientWriteCh, and whether it is closed
  wpc, wcur      \* where the writer goroutine is, and the response it writes

containerVars == <<closed, startPc, listening, registered>>
clientVars == <<sent, got, sock, late>>
readVars == <<rpc, cur, tls, mapOf>>
poolVars == <<maps, free>>
upVars == <<ups, served>>
writerVars == <<wpc, wcur>>
chVars == <<ch, chClosed>>
vars == <<containerVars, script, clientVars, readVars, h, poolVars, upVars,
          chVars, writerVars>>

Dlg(c) == INSTANCE Dialogue WITH
            asked <- sent[c], said <- got[c], ended <- (sock[c] \in {"shut", "closed"})

Requests == Conns \X (1..MaxLen)
Req(c, i) == script[c][i]

\* A response: the request its head and its body answer.  "stream": the body is
\* still to be read from connection up; "replace": up is still to be drained.
Local(r) == [as |-> "local", of |-> r, body |-> r, up |-> 0]

Unread(r) == [pc |-> "none", conn |-> 0, try |-> 1, drained |-> FALSE,
              entry |-> Local(r)]

Fresh == [st |-> "open", tls |-> FALSE, inq |-> <<>>, out |-> <<>>]

Init ==
  /\ closed = FALSE /\ startPc = "idle" /\ listening = FALSE /\ registered = {}
  /\ script \in {s \in [Conns -> UNION {Scripts[c] : c \in Conns}] :
                   \A c \in Conns : s[c] \in Scripts[c]}
  /\ sent = [c \in Conns |-> 0] /\ got = [c \in Conns |-> <<>>]
  /\ sock = [c \in Conns |-> "none"] /\ late = [c \in Conns |-> FALSE]
  /\ rpc = [c \in Conns |-> "none"] /\ cur = [c \in Conns |-> 0]
  /\ tls = [c \in Conns |-> FALSE] /\ mapOf = [c \in Conns |-> 0]
  /\ h = [r \in Requests |-> Unread(r)]
  /\ maps = [m \in Maps |-> [x \in Hosts |-> 0]] /\ free = Maps
  /\ ups = <<>> /\ served = [r \in Requests |-> 0]
  /\ ch = [c \in Conns |-> <<>>] /\ chClosed = [c \in Conns |-> FALSE]
  /\ wpc = [c \in Conns |-> "none"] /\ wcur = [c \in Conns |-> Local(<<c, 0>>)]

-----------------------------------------------------------------------------
(* Reads and writes on the connections *)

\* The proxy may still write; what it writes after the client left is lost.
ClientTakes(c) == sock[c] # "closed" /\ ~late[c]

\* A read or a write on the client connection may fail.
ClientFails(c) == sock[c] # "open" \/ late[c]

\* A part as client c sees it: 0 stands for a request that is not its own.
Seen(c, kind, r) == Dlg(c)!Part(kind, IF r[1] = c THEN r[2] ELSE 0)

Deliver(c, parts) ==
  got' = IF sock[c] = "open" THEN [got EXCEPT ![c] = @ \o parts] ELSE got

Full(c, e) == <<Seen(c, "head", e.of), Seen(c, "body", e.body)>>

TakePart(u) == ups' = [ups EXCEPT ![u].out = Tail(@)]

HasPart(u) == ups[u].st # "closed" /\ ups[u].out # <<>>

\* Nothing more can be read from u.
Dry(u) == ups[u].st = "closed" \/ (ups[u].st = "gone" /\ ups[u].out = <<>>)

-----------------------------------------------------------------------------
(* Start and Stop *)

\* Closing the listening socket also resets what waits in its backlog.
WithoutBacklog == [c \in Conns |-> IF sock[c] = "backlog" THEN "closed" ELSE sock[c]]

StartFrame == UNCHANGED <<script, sent, got, late, cur, tls, mapOf, h, poolVars,
                          upVars, chVars, writerVars>>

Listen ==
  /\ startPc = "idle"
  /\ \/ startPc' = "publish" /\ listening' = TRUE
     \/ startPc' = "failed" /\ UNCHANGED listening
  /\ StartFrame /\ UNCHANGED <<closed, registered, sock, rpc>>

\* Under c.mu: give up if Stop came first, else hand the listener to Stop.
Publish ==
  /\ startPc = "publish"
  /\ \/ closed /\ startPc' = "done" /\ listening' = FALSE /\ sock' = WithoutBacklog
     \/ ~closed /\ startPc' = "accept" /\ UNCHANGED <<listening, sock>>
  /\ StartFrame /\ UNCHANGED <<closed, registered, rpc>>

\* Accept, and the go statement that follows it.
Accept(c) ==
  /\ startPc = "accept" /\ listening
  /\ sock[c] = "backlog"
  /\ sock' = [sock EXCEPT ![c] = "open"]
  /\ rpc' = [rpc EXCEPT ![c] = "accepted"]
  /\ StartFrame /\ UNCHANGED containerVars

\* Accept returns net.ErrClosed.
AcceptClosed ==
  /\ startPc = "accept" /\ ~listening
  /\ startPc' = "done"
  /\ StartFrame /\ UNCHANGED <<closed, listening, registered, sock, rpc>>

\* All of Stop runs under c.mu: the listener, if Start has handed it over, and
\* the registered connections are closed.
Stop ==
  /\ ~closed
  /\ closed' = TRUE
  /\ LET left == IF startPc = "accept" THEN WithoutBacklog ELSE sock
     IN sock' = [c \in Conns |-> IF c \in registered THEN "closed" ELSE left[c]]
  /\ listening' = (listening /\ startPc # "accept")
  /\ StartFrame /\ UNCHANGED <<startPc, registered, rpc>>

-----------------------------------------------------------------------------
(* The goroutine of addConnector *)

ReadFrame == UNCHANGED <<closed, startPc, listening, script, sent, upVars>>

Goto(c, p) == rpc' = [rpc EXCEPT ![c] = p]

\* Mutant: whether the container is closed is not looked at.
Register_IgnoresClosed(c) ==
  /\ rpc[c] = "accepted"
  /\ \E m \in free : mapOf' = [mapOf EXCEPT ![c] = m] /\ free' = free \ {m}
  /\ registered' = registered \cup {c}
  /\ wpc' = [wpc EXCEPT ![c] = "idle"]
  /\ Goto(c, "read")
  /\ ReadFrame /\ UNCHANGED <<got, sock, late, cur, tls, h, maps, chVars, wcur>>

\* Under c.mu: a Connector with a map from the pool is registered and its writer
\* started; closed is looked at while the lock is held.
Register(c) ==
  /\ rpc[c] = "accepted"
  /\ \E m \in free : mapOf' = [mapOf EXCEPT ![c] = m] /\ free' = free \ {m}
  /\ registered' = registered \cup {c}
  /\ wpc' = [wpc EXCEPT ![c] = "idle"]
  /\ Goto(c, IF closed THEN "refuse" ELSE "read")
  /\ ReadFrame /\ UNCHANGED <<got, sock, late, cur, tls, h, maps, chVars, wcur>>

\* The container is closed already, and so the connection is.
Refuse(c) ==
  /\ rpc[c] = "refuse"
  /\ sock' = [sock EXCEPT ![c] = "closed"]
  /\ Goto(c, "read")
  /\ ReadFrame /\ UNCHANGED <<registered, got, late, cur, tls, mapOf, h, poolVars,
                              chVars, writerVars>>

\* The handler function is called by the reading goroutine itself.
Synchronous(r) == r.ws \/ r.body = "stream"

\* The next request is read, which re-arms the deadline.  One that the client
\* pipelined may be in the reader already, whatever has become of the connection.
\* A small body is read into memory, which may fail with the connection.
ReadRequest(c) ==
  /\ rpc[c] = "read"
  /\ cur[c] < sent[c]
  /\ Pipelining \/ (sock[c] # "closed" /\ ~late[c])
  /\ LET i == cur[c] + 1
         r == Req(c, i)
         Handle == h' = [h EXCEPT ![<<c, i>>].pc = "route"]
     IN /\ cur' = [cur EXCEPT ![c] = i]
        /\ \/ r.kind = "connect" /\ Goto(c, "upgrade") /\ UNCHANGED h
           \/ r.kind # "connect" /\ Synchronous(r) /\ Goto(c, "handle") /\ Handle
           \/ r.kind # "connect" /\ ~Synchronous(r) /\ Handle /\ UNCHANGED rpc
           \/ /\ r.kind # "connect" /\ ~Synchronous(r) /\ r.body = "small"
              /\ ClientFails(c)
              /\ Goto(c, "exit") /\ UNCHANGED h
  /\ late' = [late EXCEPT ![c] = FALSE]
  /\ ReadFrame /\ UNCHANGED <<registered, got, sock, tls, mapOf, poolVars, chVars,
                              writerVars>>

ReadFails(c) ==
  /\ rpc[c] = "read"
  /\ ClientFails(c)
  /\ Goto(c, "exit")
  /\ ReadFrame /\ UNCHANGED <<registered, got, sock, late, cur, tls, mapOf, h,
                              poolVars, chVars, writerVars>>

\* The answer to CONNECT is written at once; then a certificate is signed.
UpgradeClient2Tls(c) ==
  /\ rpc[c] = "upgrade"
  /\ \/ ClientFails(c) /\ Goto(c, "exit") /\ UNCHANGED <<got, tls>>
     \/ /\ ClientTakes(c)
        /\ Deliver(c, Full(c, Local(<<c, cur[c]>>)))
        /\ \/ Goto(c, "exit") /\ UNCHANGED tls
           \/ Goto(c, "read") /\ tls' = [tls EXCEPT ![c] = TRUE]
  /\ ReadFrame /\ UNCHANGED <<registered, sock, late, cur, mapOf, h, poolVars,
                              chVars, writerVars>>

\* The deferred clean-up: under c.mu the Connector is unregistered,
Unregister(c) ==
  /\ rpc[c] = "exit"
  /\ registered' = registered \ {c}
  /\ Goto(c, "drop")
  /\ ReadFrame /\ UNCHANGED <<got, sock, late, cur, tls, mapOf, h, poolVars, chVars,
                              writerVars>>

\* the upstream connections in its map are closed and the map goes to the pool,
DropServers(c) ==
  /\ rpc[c] = "drop"
  /\ LET mine == {maps[mapOf[c]][x] : x \in Hosts}
     IN ups' = [u \in DOMAIN ups |->
                  IF u \in mine THEN [ups[u] EXCEPT !.st = "closed", !.out = <<>>]
                                ELSE ups[u]]
  /\ maps' = [maps EXCEPT ![mapOf[c]] = [x \in Hosts |-> 0]]
  /\ free' = free \cup {mapOf[c]}
  /\ Goto(c, "close")
  /\ UNCHANGED <<containerVars, script, clientVars, cur, tls, mapOf, h, served,
                 chVars, writerVars>>

\* Mutant: the channel is left open.
CloseClient_KeepsChannel(c) ==
  /\ rpc[c] = "close"
  /\ sock' = [sock EXCEPT ![c] = "closed"]
  /\ Goto(c, "gone")
  /\ ReadFrame /\ UNCHANGED <<registered, got, late, cur, tls, mapOf, h, poolVars,
                              chVars, writerVars>>

\* the client connection is closed, and clientWriteCh.
CloseClient(c) ==
  /\ rpc[c] = "close"
  /\ sock' = [sock EXCEPT ![c] = "closed"]
  /\ chClosed' = [chClosed EXCEPT ![c] = TRUE]
  /\ Goto(c, "gone")
  /\ ReadFrame /\ UNCHANGED <<registered, got, late, cur, tls, mapOf, h, poolVars,
                              ch, writerVars>>

AddConnector(c) ==
  \/ Register(c) \/ Refuse(c) \/ ReadRequest(c) \/ ReadFails(c)
  \/ UpgradeClient2Tls(c) \/ Unregister(c) \/ DropServers(c) \/ CloseClient(c)

-----------------------------------------------------------------------------
(* The handler function, called for request i of connection c *)

HandlerFrame(c) == UNCHANGED <<containerVars, script, sent, sock, cur, tls, mapOf,
                               free, served, chClosed, writerVars>>

\* The handler of the request goes to p, with some of its variables changed.
Step(c, i, p, f) == h' = [h EXCEPT ![<<c, i>>] = [f EXCEPT !.pc = p]]

\* The handler function returns, also by a panic, which it recovers from.
Finish(c, i) ==
  /\ h' = [h EXCEPT ![<<c, i>>] = [Unread(<<c, i>>) EXCEPT !.pc = "done"]]
  /\ rpc' = IF Synchronous(Req(c, i)) THEN [rpc EXCEPT ![c] = "read"] ELSE rpc

Host(c, i) == Req(c, i).host
HasBody(c, i) == Req(c, i).body # "none"

\* The entry of the map the Connector has, or had, for the request's host.
Entry(c, i) == maps[mapOf[c]][Host(c, i)]

\* The reply to send is a 502.
BadGateway(c, i, f) == Step(c, i, "reply", [f EXCEPT !.entry = Local(<<c, i>>)])

\* Mutant: a management request is forwarded as well.
Route_FallsThrough(c, i) ==
  /\ h[<<c, i>>].pc = "route"
  /\ Step(c, i, IF Req(c, i).kind = "forward" THEN "lookup" ELSE "early", h[<<c, i>>])
  /\ HandlerFrame(c) /\ UNCHANGED <<got, late, rpc, maps, ups, ch>>

\* Answered by the proxy, answered by processRequest's function - and forwarded
\* all the same -, or forwarded.
Route(c, i) ==
  /\ h[<<c, i>>].pc = "route"
  /\ LET kind == Req(c, i).kind
     IN Step(c, i, CASE kind = "manage" -> "reply"
                     [] kind = "short" -> "early"
                     [] kind = "forward" -> "lookup", h[<<c, i>>])
  /\ HandlerFrame(c) /\ UNCHANGED <<got, late, rpc, maps, ups, ch>>

\* clientWriteCh <- fn, which panics once the channel is closed.
Send(c, i) ==
  /\ h[<<c, i>>].pc \in {"early", "reply"}
  /\ \/ chClosed[c] /\ Finish(c, i) /\ UNCHANGED ch
     \/ /\ ~chClosed[c] /\ Len(ch[c]) < Cap
        /\ ch' = [ch EXCEPT ![c] = Append(@, h[<<c, i>>].entry)]
        /\ IF h[<<c, i>>].pc = "early"
             THEN Step(c, i, "lookup", h[<<c, i>>]) /\ UNCHANGED rpc
             ELSE Finish(c, i)
  /\ HandlerFrame(c) /\ UNCHANGED <<got, late, maps, ups>>

\* connectServer leaves with connection u, unless TLS is still to be opened.
Connected(c, i, u, f) ==
  Step(c, i, IF tls[c] /\ ~ups'[u].tls THEN "upgrade" ELSE "write",
       [f EXCEPT !.conn = u])

\* connectServer: the map's connection to the host, unless this is a retry.
Lookup(c, i) ==
  /\ h[<<c, i>>].pc = "lookup"
  /\ UNCHANGED ups
  /\ IF Entry(c, i) = 0 \/ h[<<c, i>>].try = 2
       THEN Step(c, i, "dial", h[<<c, i>>])
       ELSE Connected(c, i, Entry(c, i), h[<<c, i>>])
  /\ HandlerFrame(c) /\ UNCHANGED <<got, late, rpc, maps, ch>>

\* connectServer: a new connection takes its place in the map; one that was
\* there is forgotten, not closed.
Dial(c, i) ==
  /\ h[<<c, i>>].pc = "dial"
  /\ \/ BadGateway(c, i, h[<<c, i>>]) /\ UNCHANGED <<maps, ups>>
     \/ /\ ups' = Append(ups, Fresh)
        /\ maps' = [maps EXCEPT ![mapOf[c]][Host(c, i)] = Len(ups) + 1]
        /\ Connected(c, i, Len(ups) + 1, h[<<c, i>>])
  /\ HandlerFrame(c) /\ UNCHANGED <<got, late, rpc, ch>>

\* UpgradeServer2TLS, on the connection that is now in the map: a nil pointer is
\* followed if there is none.  A connection whose CONNECT was refused stays as it is; one
\* whose handshake failed counts as upgraded.
UpgradeServer2TLS(c, i) ==
  /\ h[<<c, i>>].pc = "upgrade"
  /\ LET u == Entry(c, i)
     IN \/ u = 0 /\ Finish(c, i) /\ UNCHANGED ups
        \/ /\ u # 0 /\ ups[u].st = "open" /\ ~ups[u].tls
           /\ ups' = [ups EXCEPT ![u].tls = TRUE]
           /\ Step(c, i, "write", h[<<c, i>>]) /\ UNCHANGED rpc
        \/ /\ u # 0
           /\ \/ UNCHANGED ups
              \/ ups' = [ups EXCEPT ![u].tls = TRUE,
                                    ![u].st = IF @ = "open" THEN "gone" ELSE @]
           /\ BadGateway(c, i, h[<<c, i>>]) /\ UNCHANGED rpc
  /\ HandlerFrame(c) /\ UNCHANGED <<got, late, maps, ch>>

\* Mutants: retries are counted but not limited; a retry is retried again.
Retry_Counts(c, i, f) == Step(c, i, "lookup", [f EXCEPT !.try = @ + 1])

Retry_Always(c, i, f) == Step(c, i, "lookup", [f EXCEPT !.try = 2])

\* DoRequest calls itself once more.
Retry(c, i, f) ==
  IF f.try = 1 THEN Step(c, i, "lookup", [f EXCEPT !.try = 2])
               ELSE BadGateway(c, i, f)

\* DoRequest: the request is written.  A write to a connection the server has closed
\* may succeed all the same.  The clone of the request has the body of the original, which is
\* at its end after the first attempt - unless the headers, longer than the write
\* buffer, failed before a small one was read.
WriteRequest(c, i) ==
  /\ h[<<c, i>>].pc = "write"
  /\ LET f == h[<<c, i>>]
         spent == HasBody(c, i) /\ f.drained
     IN \/ /\ ~spent /\ ups[f.conn].st # "closed"
           /\ ups' = IF ups[f.conn].st = "open" /\ ups[f.conn].tls = tls[c]
                     THEN [ups EXCEPT ![f.conn].inq = Append(@, <<c, i>>)] ELSE ups
           /\ Step(c, i, "await", [f EXCEPT !.drained = HasBody(c, i)])
        \/ /\ \/ ups[f.conn].st # "open"
              \/ spent
              \/ Req(c, i).body = "stream" /\ ClientFails(c)
           /\ \E d \in {HasBody(c, i), f.drained /\ Req(c, i).body = "small"} :
                Retry(c, i, [f EXCEPT !.drained = d])
           /\ UNCHANGED ups
  /\ HandlerFrame(c) /\ UNCHANGED <<got, late, rpc, maps, ch>>

\* DoRequest: the next head on the connection is taken for the answer.
ReadResponse(c, i) ==
  /\ h[<<c, i>>].pc = "await"
  /\ LET f == h[<<c, i>>]
     IN \/ /\ HasPart(f.conn)
           /\ Head(ups[f.conn].out).part = "head"
           /\ TakePart(f.conn)
           /\ Step(c, i, "hooks", [f EXCEPT !.entry =
                [as |-> "stream", of |-> Head(ups[f.conn].out).of,
                 body |-> <<c, 0>>, up |-> f.conn]])
        \/ /\ Dry(f.conn) \/ (HasPart(f.conn) /\ Head(ups[f.conn].out).part = "body")
           /\ Retry(c, i, f)
           /\ UNCHANGED ups
  /\ HandlerFrame(c) /\ UNCHANGED <<got, late, rpc, maps, ch>>

\* insertHTMLFn reads the body into memory, if it can.
InjectHTML(c, i, next, f) ==
  /\ "inject" \in Hooks /\ HasPart(f.conn)
  /\ TakePart(f.conn)
  /\ Step(c, i, next, [f EXCEPT !.entry.as = "local",
                                !.entry.body = Head(ups[f.conn].out).of])

\* processResponse's function answers instead, and closes the body.
ApplyHooks(c, i) ==
  /\ h[<<c, i>>].pc = "hooks"
  /\ LET f == h[<<c, i>>]
         next == IF Req(c, i).ws THEN "handshake" ELSE "reply"
     IN \/ Step(c, i, next, f) /\ UNCHANGED ups
        \/ InjectHTML(c, i, next, f)
        \/ /\ "replace" \in Hooks
           /\ Step(c, i, "reply", [f EXCEPT !.entry.as = "replace",
                                            !.entry.body = f.entry.of])
           /\ UNCHANGED ups
  /\ HandlerFrame(c) /\ UNCHANGED <<got, late, rpc, maps, ch>>

\* The answer to a WebSocket request is written by the handler itself, which does
\* not learn of an error; a 101 opens the tunnel and gives it a day.
Handshake(c, i) ==
  /\ h[<<c, i>>].pc = "handshake"
  /\ LET f == h[<<c, i>>]
         e == f.entry
     IN /\ \/ ClientFails(c) /\ UNCHANGED <<got, ups>>
           \/ ClientTakes(c) /\ e.as = "local" /\ Deliver(c, Full(c, e)) /\ UNCHANGED ups
           \/ /\ ClientTakes(c) /\ e.as = "stream" /\ HasPart(e.up)
              /\ Deliver(c, Full(c, [e EXCEPT !.body = Head(ups[e.up].out).of]))
              /\ TakePart(e.up)
           \/ /\ ClientTakes(c) /\ e.as = "stream" /\ Dry(e.up)
              /\ Deliver(c, <<Seen(c, "head", e.of)>>) /\ UNCHANGED ups
        /\ \/ Finish(c, i) /\ UNCHANGED late
           \/ Step(c, i, "tunnel", f) /\ late' = [late EXCEPT ![c] = FALSE] /\ UNCHANGED rpc
  /\ HandlerFrame(c) /\ UNCHANGED <<maps, ch>>

\* The copy from the client to the server ends.
TunnelEnds(c, i) ==
  /\ h[<<c, i>>].pc = "tunnel"
  /\ ClientFails(c) \/ Dry(Entry(c, i))
  /\ Finish(c, i)
  /\ HandlerFrame(c) /\ UNCHANGED <<got, late, maps, ups, ch>>

Handle(c, i) ==
  \/ Route(c, i) \/ Send(c, i)
  \/ Lookup(c, i) \/ Dial(c, i) \/ UpgradeServer2TLS(c, i)
  \/ WriteRequest(c, i) \/ ReadResponse(c, i)
  \/ ApplyHooks(c, i) \/ Handshake(c, i) \/ TunnelEnds(c, i)

-----------------------------------------------------------------------------
(* The writer goroutine *)

WriterFrame == UNCHANGED <<containerVars, script, sent, late, readVars, h, poolVars,
                           served, chClosed>>

Writes(c, p, e) ==
  wpc' = [wpc EXCEPT ![c] = p] /\ wcur' = [wcur EXCEPT ![c] = e]

\* A function is taken from the channel and writes what it has in memory.  It
\* does not report an error: the writer goes on to the next.
WriteReply(c) ==
  /\ wpc[c] = "idle" /\ ch[c] # <<>>
  /\ ch' = [ch EXCEPT ![c] = Tail(@)]
  /\ LET e == Head(ch[c])
         parts == IF e.as = "stream" THEN <<Seen(c, "head", e.of)>> ELSE Full(c, e)
     IN \/ ClientTakes(c) /\ Deliver(c, parts)
           /\ Writes(c, CASE e.as = "local" -> "idle" [] e.as = "stream" -> "stream"
                          [] e.as = "replace" -> "drain", e)
        \/ ClientFails(c) /\ UNCHANGED got
           /\ Writes(c, IF e.as = "replace" THEN "drain" ELSE "idle", e)
  /\ WriterFrame /\ UNCHANGED <<sock, ups>>

\* resp.Write copies the body from the upstream connection.  Some of it is read
\* before a write fails.
WriteBody(c) ==
  /\ wpc[c] = "stream"
  /\ LET u == wcur[c].up
     IN \/ /\ HasPart(u) /\ ClientTakes(c) /\ TakePart(u)
           /\ Deliver(c, <<Seen(c, "body", Head(ups[u].out).of)>>)
        \/ /\ HasPart(u) /\ ClientFails(c)
           /\ UNCHANGED ups \/ TakePart(u)
           /\ UNCHANGED got
        \/ Dry(u) /\ UNCHANGED <<got, ups>>
  /\ Writes(c, "idle", Local(<<c, 0>>))
  /\ WriterFrame /\ UNCHANGED <<sock, ch>>

\* The deferred resp.Body.Close().
DrainBody(c) ==
  /\ wpc[c] = "drain"
  /\ LET u == wcur[c].up
     IN \/ HasPart(u) /\ TakePart(u)
        \/ Dry(u) /\ UNCHANGED ups
  /\ Writes(c, "idle", Local(<<c, 0>>))
  /\ WriterFrame /\ UNCHANGED <<got, sock, ch>>

\* A function given by the user of the package panics.
WriterPanics(c) ==
  /\ "panic" \in Hooks
  /\ wpc[c] = "idle" /\ ch[c] # <<>> /\ Head(ch[c]).as = "local"
  /\ ch' = [ch EXCEPT ![c] = Tail(@)]
  /\ Writes(c, "panicked", wcur[c])
  /\ WriterFrame /\ UNCHANGED <<got, sock, ups>>

\* The recovery empties the channel, then closes the client connection.  A
\* channel that is closed never runs dry of (nil) values.
WriterRecovers(c) ==
  /\ wpc[c] = "panicked"
  /\ \/ /\ ch[c] # <<>>
        /\ ch' = [ch EXCEPT ![c] = Tail(@)]
        /\ UNCHANGED <<sock, wpc, wcur>>
     \/ /\ ch[c] = <<>> /\ ~chClosed[c]
        /\ sock' = [sock EXCEPT ![c] = "closed"]
        /\ Writes(c, "done", wcur[c])
        /\ UNCHANGED ch
  /\ WriterFrame /\ UNCHANGED <<got, ups>>

\* The channel is closed and empty.
WriterEnds(c) ==
  /\ wpc[c] = "idle" /\ ch[c] = <<>> /\ chClosed[c]
  /\ Writes(c, "done", wcur[c])
  /\ WriterFrame /\ UNCHANGED <<got, sock, ups, ch>>

Writer(c) ==
  \/ WriteReply(c) \/ WriteBody(c) \/ DrainBody(c)
  \/ WriterPanics(c) \/ WriterRecovers(c) \/ WriterEnds(c)

-----------------------------------------------------------------------------
(* The environment *)

EnvFrame == UNCHANGED <<containerVars, script, readVars, h, poolVars, chVars,
                        writerVars>>

ClientDials(c) ==
  /\ listening
  /\ sock[c] = "none"
  /\ sock' = [sock EXCEPT ![c] = "backlog"]
  /\ EnvFrame /\ UNCHANGED <<sent, got, late, upVars>>

\* A client that does not pipeline asks again once it has its answer.
ClientAsks(c) ==
  /\ sock[c] = "open"
  /\ sent[c] < Len(script[c])
  /\ Pipelining \/ Len(got[c]) = 2 * sent[c]
  /\ sent' = [sent EXCEPT ![c] = @ + 1]
  /\ EnvFrame /\ UNCHANGED <<got, sock, late, upVars>>

ClientLeaves(c) ==
  /\ sock[c] = "open"
  /\ sock' = [sock EXCEPT ![c] = "shut"]
  /\ EnvFrame /\ UNCHANGED <<sent, got, late, upVars>>

\* A minute has passed since the last request (a day, in a tunnel).
DeadlinePasses(c) ==
  /\ rpc[c] \notin {"none", "accepted", "gone"}
  /\ ~late[c]
  /\ late' = [late EXCEPT ![c] = TRUE]
  /\ EnvFrame /\ UNCHANGED <<sent, got, sock, upVars>>

\* An upstream server executes a request; the answer reaches a connection that
\* is still open.
UpstreamServes(u) ==
  /\ ups[u].st # "gone" /\ ups[u].inq # <<>>
  /\ LET r == Head(ups[u].inq)
         answer == <<[part |-> "head", of |-> r], [part |-> "body", of |-> r]>>
     IN /\ served' = [served EXCEPT ![r] = @ + 1]
        /\ ups' = [ups EXCEPT ![u].inq = Tail(@),
                              ![u].out = IF ups[u].st = "open" THEN @ \o answer ELSE @]
  /\ EnvFrame /\ UNCHANGED clientVars

\* A server closes a connection or crashes; the end of what it sent may be lost.
UpstreamDies(u) ==
  /\ ups[u].st = "open"
  /\ \E n \in 0..Len(ups[u].out) :
       ups' = [ups EXCEPT ![u].st = "gone", ![u].inq = <<>>,
                          ![u].out = SubSeq(@, 1, n)]
  /\ EnvFrame /\ UNCHANGED <<clientVars, served>>

-----------------------------------------------------------------------------

\* Nothing is left to do: no connection is in hand and none can be made.
Finished ==
  /\ startPc \in {"failed", "done"}
  /\ \A c \in Conns : /\ rpc[c] \in {"none", "gone"}
                      /\ wpc[c] \in {"none", "done", "panicked"}
                      /\ \A i \in 1..MaxLen : h[<<c, i>>].pc \in {"none", "done"}
  /\ UNCHANGED vars

Next ==
  \/ Listen \/ Publish \/ AcceptClosed \/ Stop
  \/ \E c \in Conns :
       \/ Accept(c) \/ AddConnector(c) \/ Writer(c)
       \/ \E i \in 1..MaxLen : Handle(c, i)
       \/ ClientDials(c) \/ ClientAsks(c) \/ ClientLeaves(c) \/ DeadlinePasses(c)
  \/ \E u \in DOMAIN ups : UpstreamServes(u) \/ UpstreamDies(u)
  \/ Finished

Spec == Init /\ [][Next]_vars

\* A bound on the upstream connections: two for each request.
MaxUps == 2 * MaxLen * Cardinality(Conns)

\* Goroutines that can run do, deadlines pass, and an upstream server answers what
\* it is asked, or closes a connection that has been idle for too long.
Fairness ==
  /\ WF_vars(Publish) /\ WF_vars(AcceptClosed)
  /\ \A c \in Conns :
       /\ WF_vars(Accept(c)) /\ WF_vars(AddConnector(c)) /\ WF_vars(Writer(c))
       /\ WF_vars(DeadlinePasses(c))
       /\ \A i \in 1..MaxLen : WF_vars(Handle(c, i))
  /\ \A u \in 1..MaxUps :
       WF_vars(u \in DOMAIN ups /\ (UpstreamServes(u) \/ UpstreamDies(u)))

FairSpec == Spec /\ Fairness

-----------------------------------------------------------------------------
(* Properties *)

EntryOK(e) ==
  /\ e.as \in {"local", "stream", "replace"}
  /\ {e.of, e.body} \subseteq Conns \X (0..MaxLen)
  /\ e.up \in 0..Len(ups)

HandlerPcs == {"none", "route", "early", "reply", "lookup", "dial", "upgrade", "write",
               "await", "hooks", "handshake", "tunnel", "done"}

\* Every variable has its type.
TypeOK ==
  /\ closed \in BOOLEAN /\ listening \in BOOLEAN
  /\ startPc \in {"idle", "publish", "accept", "failed", "done"}
  /\ registered \subseteq Conns
  /\ \A c \in Conns :
       /\ sent[c] \in 0..Len(script[c]) /\ cur[c] \in 0..sent[c]
       /\ sock[c] \in {"none", "backlog", "open", "shut", "closed"}
       /\ late[c] \in BOOLEAN /\ tls[c] \in BOOLEAN /\ chClosed[c] \in BOOLEAN
       /\ rpc[c] \in {"none", "accepted", "refuse", "read", "upgrade", "handle", "exit",
                      "drop", "close", "gone"}
       /\ mapOf[c] \in Maps \cup {0}
       /\ wpc[c] \in {"none", "idle", "stream", "drain", "panicked", "done"}
       /\ EntryOK(wcur[c])
       /\ Len(ch[c]) <= Cap /\ \A k \in 1..Len(ch[c]) : EntryOK(ch[c][k])
  /\ \A r \in Requests :
       /\ h[r].pc \in HandlerPcs /\ h[r].conn \in 0..Len(ups) /\ h[r].try \in {1, 2}
       /\ h[r].drained \in BOOLEAN /\ EntryOK(h[r].entry)
  /\ free \subseteq Maps
  /\ \A m \in Maps : maps[m] \in [Hosts -> 0..Len(ups)]

\* A client that waits for its answers is sent the reply to each request, whole
\* and in order (Dialogue): what concurrent handlers, the map and its recycling,
\* retries and the clean-up do is not seen by a client.
KeepsDialogue ==
  /\ \A c \in Conns : Dlg(c)!DInit
  /\ [][\A c \in Conns : [Dlg(c)!DNext]_(Dlg(c)!dvars)]_vars

\* Stop and addConnector between them overlook no connection: once Stop has run,
\* one that is registered is closed, unless addConnector is about to close it.
NoneOverlooked ==
  closed => \A c \in registered : sock[c] = "closed" \/ rpc[c] = "refuse"

\* What it rests on: the only handler the reading goroutine runs itself is that of the
\* last request it has read, so it goes back to reading from nowhere else.
OneSynchronous ==
  \A c \in Conns, i \in 1..MaxLen :
    h[<<c, i>>].pc \notin {"none", "done"} /\ Synchronous(Req(c, i))
      => rpc[c] = "handle" /\ cur[c] = i

\* A request is executed at most twice: DoRequest retries once, on any error.
ServedAtMostTwice == \A r \in Requests : served[r] <= 2

\* An accepted connection is cleaned up in the end, its writer ends, and every call
\* of the handler function returns, though the channel they share may be full, be
\* closed under them, or have lost its reader.
Ended(c) ==
  /\ rpc[c] = "gone" /\ wpc[c] = "done"
  /\ \A i \in 1..MaxLen : h[<<c, i>>].pc \in {"none", "done"}

ConnectorsEnd == \A c \in Conns : rpc[c] # "none" ~> Ended(c)

=============================================================================
