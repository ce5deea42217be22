------------------------------- MODULE Session -------------------------------
(***************************************************************************)
(* One client connection of the proxy (core_refactor/session.go, serve in  *)
(* mitm.go, client.go and server.go): the serve goroutine reads requests   *)
(* one after the other and forwards them over a pool of upstream           *)
(* connections; a writer goroutine sends the responses that serve queues   *)
(* in writeCh.  The client, the upstream servers, the deadline of the      *)
(* client connection and MITM.Stop are the environment.                    *)
(*                                                                         *)
(* A message is a head and a body, each atomic; of a request only matters  *)
(* which it is, of a response which request it answers.                    *)
(***************************************************************************)
EXTENDS Naturals, Sequences

CONSTANTS
  Scripts,     \* the sequences of requests a client may make
  MaxLen,      \* bound: no script is longer
  Hosts,       \* the upstream servers (the values of the Host header)
  Cap,         \* the capacity of writeCh (8 in the code)
  Pipelining,  \* the scripts with which a client does not wait for its answers
  Hooks        \* which of "replace" (WithResponseHandler) and "inject"
               \* (WithHTMLInjector) are configured

\* What becomes of a request: "manage" is served by a local handler, "short" by
\* WithRequestHandler, "forward" by an upstream server, "connect" opens TLS.
\* Its body: "none", "small" (buffered by the proxy) or "stream".
Request ==
  [kind : {"manage", "short", "forward", "connect"}, host : Hosts,
   body : {"none", "small", "stream"}, ws : BOOLEAN]

ASSUME SessionAssumption ==
  /\ MaxLen \in Nat
  /\ Cap \in Nat \ {0}
  /\ Pipelining \subseteq Scripts
  /\ Hooks \subseteq {"replace", "inject"}
  /\ \A s \in Scripts : s \in Seq(Request) /\ Len(s) <= MaxLen

VARIABLES
  script,     \* the requests of this client
  sent,       \* how many of them it has sent
  got,        \* the parts of responses it has received
  sock,       \* the client connection: "open", "shut" by the client, "closed"
  deadline,   \* of the client connection: "off", "armed" or "expired"
  pc,         \* where the serve goroutine is
  cur,        \* the request it handles (the last it has read)
  drained,    \* req.Body has been read to its end
  conn,       \* srv, the upstream connection it uses (0: none)
  entry,      \* the response it is about to queue
  cancelled,  \* ctx is done
  servers,    \* s.servers: the pooled connection of each host (0: none)
  ups,        \* every upstream connection ever made
  served,     \* how often an upstream server has executed each request
  writeCh, chClosed,  \* the channel of responses, and whether it is closed
  wpc, wcur   \* where the writer goroutine is, and the response it writes

clientVars == <<sent, got, sock, deadline>>
serveVars == <<pc, cur, drained, conn, entry>>
poolVars == <<servers, ups, served>>
writerVars == <<writeCh, chClosed, wpc, wcur>>
vars == <<script, clientVars, serveVars, cancelled, poolVars, writerVars>>

Dlg == INSTANCE Dialogue WITH asked <- sent, said <- got, ended <- (sock # "open")

Part(kind, r) == Dlg!Part(kind, r)

\* A response: to which request, whose body it has (0: the body is still to be
\* read from connection up), and whether an error to write it goes unnoticed.
Local(r) == [of |-> r, body |-> r, up |-> 0, silent |-> FALSE]
NoEntry == Local(0)

req == script[cur]
HasBody == req.body # "none"

Fresh(state) == [st |-> state, inq |-> <<>>, out |-> <<>>]

Init ==
  /\ script \in Scripts
  /\ sent = 0 /\ got = <<>> /\ sock = "open" /\ deadline = "off"
  /\ pc = "top" /\ cur = 0 /\ drained = FALSE /\ conn = 0 /\ entry = NoEntry
  /\ cancelled = FALSE
  /\ servers = [h \in Hosts |-> 0] /\ ups = <<>>
  /\ served = [r \in 1..Len(script) |-> 0]
  /\ writeCh = <<>> /\ chClosed = FALSE /\ wpc = "idle" /\ wcur = NoEntry

-----------------------------------------------------------------------------
(* Reads and writes on the client connection *)

\* The proxy may still write; what it writes after the client left is lost.
ClientTakes == sock # "closed" /\ deadline # "expired"

\* A read or a write on the client connection may fail.
ClientFails == sock # "open" \/ deadline = "expired"

Deliver(parts) == got' = IF sock = "open" THEN got \o parts ELSE got

Full(e) == <<Part("head", e.of), Part("body", e.body)>>

(* Upstream connections *)

TakePart(u) == ups' = [ups EXCEPT ![u].out = Tail(@)]

HasPart(u) == ups[u].st # "closed" /\ ups[u].out # <<>>

\* Nothing more can be read from u.
Dry(u) == ups[u].st = "closed" \/ (ups[u].st = "gone" /\ ups[u].out = <<>>)

\* srv.Close(): its unread responses are lost, not what it has sent.
Closed(u) == [ups[u] EXCEPT !.st = "closed", !.out = <<>>]

-----------------------------------------------------------------------------
(* The serve goroutine: the loop of serve (mitm.go) *)

Top ==
  /\ pc = "top"
  /\ \/ /\ cancelled \/ sock = "closed"
        /\ pc' = "exit"
        /\ UNCHANGED deadline
     \/ /\ ~cancelled /\ sock # "closed"
        /\ deadline' = "armed"
        /\ pc' = "read"
  /\ UNCHANGED <<script, sent, got, sock, cur, drained, conn, entry, cancelled,
                 poolVars, writerVars>>

\* A request that the client has sent may be buffered already, so it can be
\* read even when the connection or its deadline is gone.
ReadRequest ==
  /\ pc = "read"
  /\ cur < sent
  /\ cur' = cur + 1
  /\ pc' = IF script[cur + 1].kind = "connect" THEN "upgrade" ELSE "body"
  /\ UNCHANGED <<script, clientVars, drained, conn, entry, cancelled, poolVars,
                 writerVars>>

ReadFails ==
  /\ pc = "read"
  /\ ClientFails
  /\ pc' = "exit"
  /\ UNCHANGED <<script, clientVars, cur, drained, conn, entry, cancelled,
                 poolVars, writerVars>>

\* clientConn.upgradeTLS: the response to CONNECT is written at once, then the
\* certificate is signed and the handshake made, and either may fail.
UpgradeClient ==
  /\ pc = "upgrade"
  /\ \/ ClientFails /\ pc' = "exit" /\ UNCHANGED got
     \/ ClientTakes /\ pc' \in {"top", "exit"} /\ Deliver(Full(Local(cur)))
  /\ UNCHANGED <<script, sent, sock, deadline, cur, drained, conn, entry,
                 cancelled, poolVars, writerVars>>

-----------------------------------------------------------------------------
(* The serve goroutine: handleRequest *)

\* Queue a 502 and be done with the request.
BadGateway == entry' = Local(cur) /\ pc' = "submit"

\* A small body is read into memory, which fails with the client connection.
BufferBody ==
  /\ pc = "body"
  /\ \/ pc' = "route" /\ UNCHANGED entry
     \/ req.body = "small" /\ ~req.ws /\ ClientFails /\ BadGateway
  /\ UNCHANGED <<script, clientVars, cur, drained, conn, cancelled, poolVars,
                 writerVars>>

\* mustManageRequest, handleManage: a registered handler runs in the writer
\* goroutine, where its errors go unnoticed; the other answers are plain writes.
HandleManage ==
  /\ req.kind = "manage"
  /\ entry' \in {[Local(cur) EXCEPT !.silent = b] : b \in BOOLEAN}
  /\ pc' = "submit"
  /\ UNCHANGED writeCh

\* Mutant: a response from requestHandler does not end handleRequest.
ShortCircuit_FallsThrough ==
  /\ req.kind = "short"
  /\ Len(writeCh) < Cap
  /\ writeCh' = Append(writeCh, Local(cur))
  /\ pc' = "dial1"
  /\ UNCHANGED entry

\* requestHandler returns a response.
ShortCircuit ==
  /\ req.kind = "short"
  /\ entry' = Local(cur)
  /\ pc' = "submit"
  /\ UNCHANGED writeCh

Route ==
  /\ pc = "route"
  /\ \/ HandleManage
     \/ ShortCircuit
     \/ req.kind = "forward" /\ pc' = "dial1" /\ UNCHANGED <<entry, writeCh>>
  /\ UNCHANGED <<script, clientVars, cur, drained, conn, cancelled, poolVars,
                 chClosed, wpc, wcur>>

\* Mutants: serve returns after every request; submit does not look at ctx.
Submit_ThenExits ==
  /\ pc = "submit"
  /\ \/ Len(writeCh) < Cap /\ writeCh' = Append(writeCh, entry)
     \/ cancelled /\ UNCHANGED writeCh
  /\ pc' = "exit"
  /\ drained' = FALSE /\ conn' = 0 /\ entry' = NoEntry
  /\ UNCHANGED <<script, clientVars, cur, cancelled, poolVars, chClosed, wpc, wcur>>

Submit_IgnoresCancel ==
  /\ pc = "submit"
  /\ Len(writeCh) < Cap /\ writeCh' = Append(writeCh, entry)
  /\ pc' = IF req.ws THEN "exit" ELSE "top"
  /\ drained' = FALSE /\ conn' = 0 /\ entry' = NoEntry
  /\ UNCHANGED <<script, clientVars, cur, cancelled, poolVars, chClosed, wpc, wcur>>

\* submit: wait for room in writeCh, or drop the response if ctx is done.
\* After a WebSocket request serve returns.
Submit ==
  /\ pc = "submit"
  /\ \/ Len(writeCh) < Cap /\ writeCh' = Append(writeCh, entry)
     \/ cancelled /\ UNCHANGED writeCh
  /\ pc' = IF req.ws THEN "exit" ELSE "top"
  /\ drained' = FALSE /\ conn' = 0 /\ entry' = NoEntry
  /\ UNCHANGED <<script, clientVars, cur, cancelled, poolVars, chClosed, wpc, wcur>>

-----------------------------------------------------------------------------
(* The serve goroutine: forward *)

\* dialServer and upgradeTLS.  The dial may fail, and so may what follows it -
\* CONNECT to an upstream proxy, the TLS handshake - after which the new connection
\* is closed.
NoServer == BadGateway /\ UNCHANGED <<servers, ups, conn>>

\* Mutant: a connection whose handshake failed is not closed.
BadServer_StaysOpen ==
  BadGateway /\ ups' = Append(ups, Fresh("open")) /\ UNCHANGED <<servers, conn>>

BadServer ==
  BadGateway /\ ups' = Append(ups, Fresh("closed")) /\ UNCHANGED <<servers, conn>>

NewServer ==
  /\ ups' = Append(ups, Fresh("open"))
  /\ servers' = [servers EXCEPT ![req.host] = Len(ups) + 1]
  /\ conn' = Len(ups) + 1
  /\ UNCHANGED entry

\* getServer: the pooled connection of the host, or a new one.
GetServer(from, to) ==
  /\ pc = from
  /\ \/ /\ servers[req.host] # 0
        /\ conn' = servers[req.host]
        /\ pc' = to
        /\ UNCHANGED <<servers, ups, entry>>
     \/ /\ servers[req.host] = 0
        /\ NoServer \/ BadServer \/ (NewServer /\ pc' = to)
  /\ UNCHANGED <<script, clientVars, cur, drained, cancelled, served, writerVars>>

\* Mutants: the closed connection stays in the pool; giving up queues no 502.
RemoveServer_KeepsEntry(retry) ==
  /\ ups' = [ups EXCEPT ![conn] = Closed(conn)]
  /\ UNCHANGED servers
  /\ \/ retry = "no" /\ BadGateway
     \/ retry # "no" /\ pc' = retry /\ UNCHANGED entry

RemoveServer_NoReply(retry) ==
  /\ servers' = [servers EXCEPT ![req.host] = 0]
  /\ ups' = [ups EXCEPT ![conn] = Closed(conn)]
  /\ \/ retry = "no" /\ pc' = "top"
     \/ retry # "no" /\ pc' = retry
  /\ UNCHANGED entry

\* removeServer, after which forward retries or gives up.
RemoveServer(retry) ==
  /\ servers' = [servers EXCEPT ![req.host] = 0]
  /\ ups' = [ups EXCEPT ![conn] = Closed(conn)]
  /\ \/ retry = "no" /\ BadGateway
     \/ retry # "no" /\ pc' = retry /\ UNCHANGED entry

\* Mutant: the body is rewound for every attempt.
WriteRequest_Rewinds(from, to, retry) ==
  /\ pc = from
  /\ \/ /\ ups' = IF ups[conn].st = "open"
                  THEN [ups EXCEPT ![conn].inq = Append(@, cur)] ELSE ups
        /\ pc' = to
        /\ UNCHANGED <<servers, entry>>
     \/ ups[conn].st = "gone" /\ RemoveServer(retry)
  /\ UNCHANGED <<script, clientVars, cur, conn, drained, cancelled, served,
                 writerVars>>

\* writeRequest.  A write to a connection the server has closed may succeed all
\* the same.  The body is read from req.Body, which is at its end after the first
\* attempt; a small one is not if the request line and the headers, longer than
\* the write buffer, failed before it.
WriteRequest(from, to, retry) ==
  /\ pc = from
  /\ \/ /\ ~(HasBody /\ drained)
        /\ ups' = IF ups[conn].st = "open"
                  THEN [ups EXCEPT ![conn].inq = Append(@, cur)] ELSE ups
        /\ drained' = HasBody
        /\ pc' = to
        /\ UNCHANGED <<servers, entry>>
     \/ /\ \/ ups[conn].st = "gone"
           \/ HasBody /\ drained
           \/ req.body = "stream" /\ ClientFails
        /\ drained' \in {HasBody, drained /\ req.body = "small"}
        /\ RemoveServer(retry)
  /\ UNCHANGED <<script, clientVars, cur, conn, cancelled, served, writerVars>>

\* ReadResponse: the next head on the connection is taken for the answer.
ReadResponse(from, retry) ==
  /\ pc = from
  /\ \/ /\ HasPart(conn)
        /\ Head(ups[conn].out).part = "head"
        /\ TakePart(conn)
        /\ entry' = [of |-> Head(ups[conn].out).of, body |-> 0, up |-> conn,
                     silent |-> FALSE]
        /\ pc' = "hooks"
        /\ UNCHANGED servers
     \/ /\ Dry(conn) \/ (HasPart(conn) /\ Head(ups[conn].out).part = "body")
        /\ RemoveServer(retry)
  /\ UNCHANGED <<script, clientVars, cur, drained, conn, cancelled, served,
                 writerVars>>

\* Mutant: a failed write is retried again and again.
Forward_KeepsTrying ==
  \/ GetServer("dial1", "write1")
  \/ WriteRequest("write1", "read1", "dial1")
  \/ ReadResponse("read1", "dial3")
  \/ GetServer("dial3", "write3")
  \/ WriteRequest("write3", "read2", "no")
  \/ ReadResponse("read2", "no")

\* One retry when the write fails, one when the read fails.
Forward ==
  \/ GetServer("dial1", "write1")
  \/ WriteRequest("write1", "read1", "dial2")
  \/ GetServer("dial2", "write2")
  \/ WriteRequest("write2", "read1", "no")
  \/ ReadResponse("read1", "dial3")
  \/ GetServer("dial3", "write3")
  \/ WriteRequest("write3", "read2", "no")
  \/ ReadResponse("read2", "no")

-----------------------------------------------------------------------------
(* The serve goroutine: the response, the tunnel, the end *)

InHand(body) == entry' = [entry EXCEPT !.body = body, !.up = 0]

\* responseHandler and the HTML injector.  A replaced response is drained, and
\* an injected one is read into memory; if that fails the rest is sent as it is.
ApplyHooks ==
  /\ pc = "hooks"
  /\ \/ UNCHANGED <<entry, ups>>
     \/ "replace" \in Hooks /\ HasPart(conn) /\ TakePart(conn) /\ InHand(entry.of)
     \/ "replace" \in Hooks /\ Dry(conn) /\ InHand(entry.of) /\ UNCHANGED ups
     \/ "inject" \in Hooks /\ HasPart(conn) /\ TakePart(conn)
          /\ InHand(Head(ups[conn].out).of)
  /\ pc' = IF req.ws THEN "handshake" ELSE "submit"
  /\ UNCHANGED <<script, clientVars, cur, drained, conn, cancelled, servers,
                 served, writerVars>>

\* handleWebSocket: the answer is written to the client at once.  If it is not
\* 101, serve returns; else the deadline is lifted and the tunnel begins.
Handshake ==
  /\ pc = "handshake"
  /\ \/ ClientFails /\ pc' = "exit" /\ UNCHANGED <<got, deadline, ups>>
     \/ /\ ClientTakes /\ entry.up # 0 /\ Dry(conn)
        /\ Deliver(<<Part("head", entry.of)>>)
        /\ pc' = "exit"
        /\ UNCHANGED <<deadline, ups>>
     \/ /\ ClientTakes
        /\ \/ entry.up = 0 /\ Deliver(Full(entry)) /\ UNCHANGED ups
           \/ /\ entry.up # 0 /\ HasPart(conn) /\ TakePart(conn)
              /\ Deliver(<<Part("head", entry.of),
                           Part("body", Head(ups[conn].out).of)>>)
        /\ \/ pc' = "exit" /\ UNCHANGED deadline
           \/ /\ pc' = IF servers[req.host] = 0 THEN "exit" ELSE "tunnel"
              /\ deadline' = "off"
  /\ UNCHANGED <<script, sent, sock, cur, drained, conn, entry, cancelled,
                 servers, served, writerVars>>

\* Either copy of the tunnel ends, and closeBoth ends the other.
TunnelEnds ==
  /\ pc = "tunnel"
  /\ sock # "open" \/ Dry(conn)
  /\ sock' = "closed"
  /\ ups' = [ups EXCEPT ![conn] = Closed(conn)]
  /\ pc' = "exit"
  /\ UNCHANGED <<script, sent, got, deadline, cur, drained, conn, entry,
                 cancelled, servers, served, writerVars>>

\* session.close, in the two steps the writer can tell apart: the upstream
\* connections, then the client connection and writeCh (and serve's cancel).
CloseServers ==
  /\ pc = "exit"
  /\ ups' = [u \in DOMAIN ups |->
       IF \E h \in Hosts : servers[h] = u THEN Closed(u) ELSE ups[u]]
  /\ pc' = "close"
  /\ UNCHANGED <<script, clientVars, cur, drained, conn, entry, cancelled,
                 servers, served, writerVars>>

\* Mutant: writeCh stays open.
CloseClient_KeepsChannel ==
  /\ pc = "close"
  /\ sock' = "closed"
  /\ cancelled' = TRUE
  /\ pc' = "done"
  /\ UNCHANGED <<script, sent, got, deadline, cur, drained, conn, entry,
                 poolVars, writerVars>>

CloseClient ==
  /\ pc = "close"
  /\ sock' = "closed"
  /\ chClosed' = TRUE
  /\ cancelled' = TRUE
  /\ pc' = "done"
  /\ UNCHANGED <<script, sent, got, deadline, cur, drained, conn, entry,
                 poolVars, writeCh, wpc, wcur>>

Serve ==
  \/ Top \/ ReadRequest \/ ReadFails \/ UpgradeClient
  \/ BufferBody \/ Route \/ Submit \/ Forward
  \/ ApplyHooks \/ Handshake \/ TunnelEnds \/ CloseServers \/ CloseClient

-----------------------------------------------------------------------------
(* The writer goroutine: writeLoop and the functions it is sent *)

WriterFrame == UNCHANGED <<script, sent, sock, deadline, serveVars, servers,
                           served, chClosed>>

\* The function returned an error: cancel ctx and end.
WriterGivesUp == wpc' = "done" /\ wcur' = NoEntry /\ cancelled' = TRUE

\* A response that is all in memory is written.
WriteLocal ==
  /\ wpc = "idle" /\ writeCh # <<>>
  /\ Head(writeCh).up = 0
  /\ writeCh' = Tail(writeCh)
  /\ \/ ClientTakes /\ Deliver(Full(Head(writeCh))) /\ UNCHANGED <<wpc, wcur, cancelled>>
     \/ ClientFails /\ UNCHANGED got
          /\ IF Head(writeCh).silent THEN UNCHANGED <<wpc, wcur, cancelled>>
                                     ELSE WriterGivesUp
  /\ WriterFrame /\ UNCHANGED ups

\* The head of an upstream response is written.  If that fails its body is
\* drained by the deferred Close before the error is seen.
WriteHead ==
  /\ wpc = "idle" /\ writeCh # <<>>
  /\ Head(writeCh).up # 0
  /\ writeCh' = Tail(writeCh)
  /\ wcur' = Head(writeCh)
  /\ \/ ClientTakes /\ Deliver(<<Part("head", Head(writeCh).of)>>) /\ wpc' = "stream"
     \/ ClientFails /\ UNCHANGED got /\ wpc' = "drain"
  /\ WriterFrame /\ UNCHANGED <<ups, cancelled>>

\* Its body is copied from the upstream connection.
WriteBody ==
  /\ wpc = "stream"
  /\ \/ /\ HasPart(wcur.up) /\ TakePart(wcur.up)
        /\ \/ /\ ClientTakes
              /\ Deliver(<<Part("body", Head(ups[wcur.up].out).of)>>)
              /\ wpc' = "idle" /\ wcur' = NoEntry /\ UNCHANGED cancelled
           \/ ClientFails /\ UNCHANGED got /\ WriterGivesUp
     \/ Dry(wcur.up) /\ UNCHANGED <<ups, got>> /\ WriterGivesUp
  /\ WriterFrame /\ UNCHANGED writeCh

DrainBody ==
  /\ wpc = "drain"
  /\ \/ HasPart(wcur.up) /\ TakePart(wcur.up)
     \/ Dry(wcur.up) /\ UNCHANGED ups
  /\ WriterGivesUp
  /\ WriterFrame /\ UNCHANGED <<got, writeCh>>

\* writeCh is closed and empty.
WriterEnds ==
  /\ wpc = "idle" /\ writeCh = <<>> /\ chClosed
  /\ wpc' = "done"
  /\ WriterFrame /\ UNCHANGED <<got, wcur, cancelled, ups, writeCh>>

Writer == WriteLocal \/ WriteHead \/ WriteBody \/ DrainBody \/ WriterEnds

-----------------------------------------------------------------------------
(* The environment *)

\* A client that does not pipeline asks again once it has its answer; nothing
\* but the handshake follows CONNECT, and frames follow a WebSocket request.
ClientAsks ==
  /\ sock = "open"
  /\ sent < Len(script)
  /\ script \in Pipelining \/ Len(got) = 2 * sent
  /\ sent' = sent + 1
  /\ UNCHANGED <<script, got, sock, deadline, serveVars, cancelled, poolVars,
                 writerVars>>

ClientLeaves ==
  /\ sock = "open"
  /\ sock' = "shut"
  /\ UNCHANGED <<script, sent, got, deadline, serveVars, cancelled, poolVars,
                 writerVars>>

\* MITM.Stop closes the client connection.
StopCloses ==
  /\ sock # "closed"
  /\ sock' = "closed"
  /\ UNCHANGED <<script, sent, got, deadline, serveVars, cancelled, poolVars,
                 writerVars>>

\* idleTimeout has passed since the head of serve's loop.
DeadlinePasses ==
  /\ deadline = "armed"
  /\ pc # "done"
  /\ deadline' = "expired"
  /\ UNCHANGED <<script, sent, got, sock, serveVars, cancelled, poolVars,
                 writerVars>>

\* An upstream server executes a request; the answer reaches a connection that
\* is still open.
UpstreamServes(u) ==
  /\ u <= Len(ups)
  /\ ups[u].st # "gone" /\ ups[u].inq # <<>>
  /\ LET r == Head(ups[u].inq)
     IN /\ served' = [served EXCEPT ![r] = @ + 1]
        /\ ups' = [ups EXCEPT ![u].inq = Tail(@),
                              ![u].out = IF ups[u].st = "open"
                                         THEN @ \o <<Part("head", r), Part("body", r)>>
                                         ELSE @]
  /\ UNCHANGED <<script, clientVars, serveVars, cancelled, servers, writerVars>>

\* An upstream server closes a connection, or crashes: it will answer no more,
\* and the end of what it sent may be lost.
UpstreamDies(u) ==
  /\ u <= Len(ups)
  /\ ups[u].st = "open"
  /\ \E n \in 0..Len(ups[u].out) :
       ups' = [ups EXCEPT ![u] = [st |-> "gone", inq |-> <<>>,
                                  out |-> SubSeq(ups[u].out, 1, n)]]
  /\ UNCHANGED <<script, clientVars, serveVars, cancelled, servers, served,
                 writerVars>>

\* At most three connections are made for each request.
Upstream(u) == UpstreamServes(u) \/ UpstreamDies(u)
MaxUps == 3 * MaxLen

Environment ==
  \/ ClientAsks \/ ClientLeaves \/ StopCloses \/ DeadlinePasses
  \/ \E u \in 1..MaxUps : Upstream(u)

\* Both goroutines have ended.
Finished == pc = "done" /\ wpc = "done" /\ UNCHANGED vars

Next == Serve \/ Writer \/ Environment \/ Finished

Spec == Init /\ [][Next]_vars

\* The Go scheduler runs both goroutines, and an upstream server that has a
\* request answers it or closes its connection.  The client, the deadline and
\* Stop may do nothing for ever.
FairSpec ==
  /\ Spec
  /\ WF_vars(Serve)
  /\ WF_vars(Writer)
  /\ \A u \in 1..MaxUps :
       WF_vars(u <= Len(ups) /\ ups[u].inq # <<>> /\ Upstream(u))

-----------------------------------------------------------------------------
(* Properties *)

ServePcs == {"top", "read", "upgrade", "body", "route", "submit", "dial1", "write1",
             "dial2", "write2", "read1", "dial3", "write3", "read2", "hooks",
             "handshake", "tunnel", "exit", "close", "done"}
Requests == 1..Len(script)
Parts == [part : {"head", "body"}, of : Requests]
Entry == [of : 0..Len(script), body : 0..Len(script), up : 0..MaxUps, silent : BOOLEAN]

\* Every variable has its type, and at most three upstream connections are made
\* for each request read.
TypeOK ==
  /\ script \in Scripts
  /\ sent \in 0..Len(script)
  /\ got \in Seq(Parts)
  /\ sock \in {"open", "shut", "closed"}
  /\ deadline \in {"off", "armed", "expired"}
  /\ pc \in ServePcs
  /\ cur \in 0..sent
  /\ drained \in BOOLEAN
  /\ conn \in 0..Len(ups)
  /\ entry \in Entry
  /\ cancelled \in BOOLEAN
  /\ servers \in [Hosts -> 0..Len(ups)]
  /\ ups \in Seq([st : {"open", "gone", "closed"}, inq : Seq(Requests), out : Seq(Parts)])
  /\ Len(ups) <= 3 * cur
  /\ served \in [Requests -> Nat]
  /\ writeCh \in Seq(Entry)
  /\ Len(writeCh) <= Cap
  /\ chClosed \in BOOLEAN
  /\ wpc \in {"idle", "stream", "drain", "done"}
  /\ wcur \in Entry

\* What the session sends its client is a dialogue: the reply to each request is
\* the reply to that request, whole, once and in order, until the connection is
\* over - through retries, crashes of upstream servers and hooks.
KeepsDialogue == Dlg!DSpec

\* The same as an invariant, the comment at session.go:14 and README.md:23.
RepliesInOrder ==
  Len(got) <= 2 * sent /\ got = SubSeq(Dlg!Replies(sent), 1, Len(got))

\* No upstream connection is lost track of: one that is not closed is pooled, and
\* none is left when the session ends (session.go:43, 218).
NoUpstreamLeak ==
  \A u \in 1..Len(ups) : ups[u].st # "closed" =>
    pc \notin {"close", "done"} /\ \E h \in Hosts : servers[h] = u

\* forward uses the pooled connection of the host, and never one that the proxy
\* has closed: a retry finds a new one (session.go:152, 166).
UsesPooled ==
  pc \in {"write1", "write2", "write3", "read1", "read2", "hooks", "handshake", "tunnel"}
    => conn # 0 /\ servers[req.host] = conn /\ ups[conn].st # "closed"

\* How often forward's retries can have a request executed: twice, and only once
\* if it has a body.
ServedAtMost ==
  \A r \in Requests :
    served[r] <= IF script[r].body = "none" THEN 2 ELSE 1

\* The session closes an open connection while a response is queued or being
\* written, though no write failed and the deadline has not passed.
HangsUpOwing ==
  /\ CloseClient
  /\ sock = "open" /\ ~cancelled /\ deadline # "expired"
  /\ writeCh # <<>> \/ wpc # "idle"

\* The session does not hang up on a client it owes a response (mitm.go:183-220),
\* except after a WebSocket request.
OrderlyEnd == [][HangsUpOwing => req.ws]_vars

\* Nor does it close the upstream connection of a response that is on its way to
\* a client that is there and in time.
NeverCutsOff ==
  [][WriteBody /\ ups[wcur.up].st = "closed" => sock # "open" \/ deadline = "expired"]_vars

\* The comments at session.go:56 and mitm_test.go:109: the retry is made on a new
\* connection so that a buffered request is not answered with 502 because the old
\* one was closed.  So it does not fail while the new connection is open.
RetryRecovers ==
  [][(pc = "write2" \/ pc = "write3") /\ req.body # "stream" /\ ups[conn].st = "open"
       => pc' # "submit"]_vars

\* serve does not wait for ever to queue a response.
SubmitProceeds == pc = "submit" ~> pc # "submit"

\* Once the client connection is over both goroutines end, and with them the
\* upstream connections.
SessionEnds ==
  sock # "open" ~> pc = "done" /\ wpc = "done" /\ \A u \in 1..Len(ups) : ups[u].st = "closed"

\* Every request that has been read is answered, if only with the head of a response,
\* unless the connection ends, its deadline passes or the writer fails first.
EveryRequestAnswered ==
  \A r \in 1..MaxLen :
    cur = r /\ (pc = "upgrade" \/ pc = "body")
      ~> \/ Len(got) >= 2 * r - 1
         \/ sock # "open" \/ deadline = "expired" \/ cancelled

=============================================================================
