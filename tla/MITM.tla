-------------------------------- MODULE MITM --------------------------------
(***************************************************************************)
(* The life of one MITM object (core_refactor/mitm.go): the accept loop    *)
(* run by Start, one handler goroutine per accepted client connection, and *)
(* any number of goroutines that call Stop.                                *)
(*                                                                         *)
(* What a handler does with a request is reduced to where it can block:    *)
(* on its client ("read"), on an upstream server ("upstream") or in a      *)
(* WebSocket tunnel ("tunnel").  Session.tla opens that box.               *)
(***************************************************************************)
EXTENDS Naturals, FiniteSets

CONSTANTS
  Conns,     \* the client connections that may be made
  WSConns,   \* those of them that may ask for a WebSocket upgrade
  Stoppers,  \* the goroutines that call Stop
  NoConn     \* the accept loop holds no connection

ASSUME ConstAssumption ==
  /\ IsFiniteSet(Conns)
  /\ WSConns \subseteq Conns
  /\ NoConn \notin Conns

VARIABLES
  closed,     \* m.closed
  published,  \* m.listener # nil
  listening,  \* the listening socket accepts connections
  startPc,    \* where the goroutine in Start is
  cur,        \* the connection Accept returned and no goroutine has yet
  sock,       \* state of each client connection's socket
  clients,    \* m.clients
  conns,      \* the counter of the WaitGroup m.conns
  hpc,        \* where the handler goroutine of each connection is
  stopPc      \* where each caller of Stop is

vars == <<closed, published, listening, startPc, cur, sock, clients, conns,
          hpc, stopPc>>

\* "none": not dialled; "backlog": dialled, not accepted; "open"; "shut": the
\* peer is gone; "closed": closed by the proxy, or refused with the listener.
SockStates == {"none", "backlog", "open", "shut", "closed"}

\* "publish" is the code between net.Listen and the unlock of m.mu; "add",
\* "register" and "spawn" are the three steps that follow each Accept.
StartPcs == {"idle", "publish", "accept", "add", "register", "spawn",
             "failed", "refused", "done"}

\* The goroutine of a connection between its go statement and conns.Done().
Running == {"top", "read", "upstream", "tunnel", "exit", "unregister", "leave"}
HandlerPcs == Running \cup {"none", "gone"}

\* "skipped": returned at once because another call had set m.closed.
StopPcs == {"idle", "skipped", "closeLn", "sweep", "wait", "parked", "returned"}

Init ==
  /\ closed = FALSE
  /\ published = FALSE
  /\ listening = FALSE
  /\ startPc = "idle"
  /\ cur = NoConn
  /\ sock = [c \in Conns |-> "none"]
  /\ clients = {}
  /\ conns = 0
  /\ hpc = [c \in Conns |-> "none"]
  /\ stopPc = [s \in Stoppers |-> "idle"]

-----------------------------------------------------------------------------
(* Start *)

\* Closing the listening socket also resets what waits in its backlog.
CloseSocket ==
  /\ listening' = FALSE
  /\ sock' = [c \in Conns |-> IF sock[c] = "backlog" THEN "closed" ELSE sock[c]]

\* net.Listen, which fails when the address is taken.
Listen ==
  /\ startPc = "idle"
  /\ \/ startPc' = "publish" /\ listening' = TRUE
     \/ startPc' = "failed" /\ UNCHANGED listening
  /\ UNCHANGED <<closed, published, cur, sock, clients, conns, hpc, stopPc>>

\* Mutant: Start does not look at m.closed.
Publish_IgnoresClosed ==
  /\ startPc = "publish"
  /\ startPc' = "accept"
  /\ published' = TRUE
  /\ UNCHANGED <<closed, listening, cur, sock, clients, conns, hpc, stopPc>>

\* Under m.mu: give up if Stop came first, else hand the listener to Stop.
Publish ==
  /\ startPc = "publish"
  /\ \/ /\ closed
        /\ startPc' = "refused"
        /\ CloseSocket
        /\ UNCHANGED published
     \/ /\ ~closed
        /\ startPc' = "accept"
        /\ published' = TRUE
        /\ UNCHANGED <<listening, sock>>
  /\ UNCHANGED <<closed, cur, clients, conns, hpc, stopPc>>

Accept ==
  /\ startPc = "accept"
  /\ listening
  /\ \E c \in Conns :
       /\ sock[c] = "backlog"
       /\ sock' = [sock EXCEPT ![c] = "open"]
       /\ cur' = c
  /\ startPc' = "add"
  /\ UNCHANGED <<closed, published, listening, clients, conns, hpc, stopPc>>

\* Accept returns net.ErrClosed.
AcceptClosed ==
  /\ startPc = "accept"
  /\ ~listening
  /\ startPc' = "done"
  /\ UNCHANGED <<closed, published, listening, cur, sock, clients, conns, hpc,
                 stopPc>>

\* Mutant: the connection is not counted.
AddConn_Forgotten ==
  /\ startPc = "add"
  /\ startPc' = "register"
  /\ UNCHANGED <<closed, published, listening, cur, sock, clients, conns, hpc,
                 stopPc>>

AddConn ==
  /\ startPc = "add"
  /\ conns' = conns + 1
  /\ startPc' = "register"
  /\ UNCHANGED <<closed, published, listening, cur, sock, clients, hpc, stopPc>>

\* Mutant: the connection is not registered.
Register_Forgotten ==
  /\ startPc = "register"
  /\ startPc' = "spawn"
  /\ UNCHANGED <<closed, published, listening, cur, sock, clients, conns, hpc,
                 stopPc>>

Register ==
  /\ startPc = "register"
  /\ clients' = clients \cup {cur}
  /\ startPc' = "spawn"
  /\ UNCHANGED <<closed, published, listening, cur, sock, conns, hpc, stopPc>>

Spawn ==
  /\ startPc = "spawn"
  /\ hpc' = [hpc EXCEPT ![cur] = "top"]
  /\ cur' = NoConn
  /\ startPc' = "accept"
  /\ UNCHANGED <<closed, published, listening, sock, clients, conns, stopPc>>

StartStep ==
  \/ Listen \/ Publish \/ Accept \/ AcceptClosed
  \/ AddConn \/ Register \/ Spawn

-----------------------------------------------------------------------------
(* Stop *)

\* Mutant: Stop takes no listener.
StopBegin_KeepsListener(s) ==
  /\ stopPc[s] = "idle"
  /\ stopPc' = [stopPc EXCEPT ![s] = IF closed THEN "skipped" ELSE "sweep"]
  /\ closed' = TRUE
  /\ UNCHANGED <<published, listening, startPc, cur, sock, clients, conns, hpc>>

\* Under m.mu: the first caller sets m.closed and takes the listener.
StopBegin(s) ==
  /\ stopPc[s] = "idle"
  /\ stopPc' = [stopPc EXCEPT ![s] =
       IF closed THEN "skipped" ELSE IF published THEN "closeLn" ELSE "sweep"]
  /\ closed' = TRUE
  /\ UNCHANGED <<published, listening, startPc, cur, sock, clients, conns, hpc>>

CloseListener(s) ==
  /\ stopPc[s] = "closeLn"
  /\ stopPc' = [stopPc EXCEPT ![s] = "sweep"]
  /\ CloseSocket
  /\ UNCHANGED <<closed, published, startPc, cur, clients, conns, hpc>>

\* Under m.clientsMu: close every registered client connection.
Sweep(s) ==
  /\ stopPc[s] = "sweep"
  /\ stopPc' = [stopPc EXCEPT ![s] = "wait"]
  /\ sock' = [c \in Conns |-> IF c \in clients THEN "closed" ELSE sock[c]]
  /\ UNCHANGED <<closed, published, listening, startPc, cur, clients, conns,
                 hpc>>

\* Mutant: Stop does not wait.
WaitConns_Skipped(s) ==
  /\ stopPc[s] = "wait"
  /\ stopPc' = [stopPc EXCEPT ![s] = "returned"]
  /\ UNCHANGED <<closed, published, listening, startPc, cur, sock, clients,
                 conns, hpc>>

\* conns.Wait() looks at the counter once; a parked caller is released by the
\* Done that brings the counter to zero (Leave).
WaitConns(s) ==
  /\ stopPc[s] = "wait"
  /\ stopPc' = [stopPc EXCEPT ![s] = IF conns = 0 THEN "returned" ELSE "parked"]
  /\ UNCHANGED <<closed, published, listening, startPc, cur, sock, clients,
                 conns, hpc>>

StopStep(s) == StopBegin(s) \/ CloseListener(s) \/ Sweep(s) \/ WaitConns(s)

-----------------------------------------------------------------------------
(* The handler goroutine: serve(conn) and its deferred clean-up *)

Goto(c, pcs) == hpc' \in {[hpc EXCEPT ![c] = p] : p \in pcs}

HandlerFrame == UNCHANGED <<closed, published, listening, startPc, cur, stopPc>>

\* The head of serve's loop: leave if the writer cancelled the session or the
\* deadline cannot be set, which is so once the connection is closed.
Top(c) ==
  /\ hpc[c] = "top"
  /\ Goto(c, IF sock[c] = "closed" THEN {"exit"} ELSE {"read", "exit"})
  /\ HandlerFrame /\ UNCHANGED <<sock, clients, conns>>

\* A request arrives.  It is answered here, or needs an upstream server; after
\* a WebSocket request that is answered here, serve returns.  Requests that are
\* buffered when the peer leaves count as received before it left.
Receive(c) ==
  /\ hpc[c] = "read"
  /\ sock[c] = "open"
  /\ Goto(c, {"top", "upstream"} \cup (IF c \in WSConns THEN {"exit"} ELSE {}))
  /\ HandlerFrame /\ UNCHANGED <<sock, clients, conns>>

\* Mutant: only the peer's close ends the read.
ReadFails_EOFOnly(c) ==
  /\ hpc[c] = "read"
  /\ sock[c] = "shut"
  /\ Goto(c, {"exit"})
  /\ HandlerFrame /\ UNCHANGED <<sock, clients, conns>>

\* The read ends with EOF or on a closed connection.
ReadFails(c) ==
  /\ hpc[c] = "read"
  /\ sock[c] # "open"
  /\ Goto(c, {"exit"})
  /\ HandlerFrame /\ UNCHANGED <<sock, clients, conns>>

\* The deadline of the read passes: an idle client.
IdleTimeout(c) ==
  /\ hpc[c] = "read"
  /\ sock[c] = "open"
  /\ Goto(c, {"exit"})
  /\ HandlerFrame /\ UNCHANGED <<sock, clients, conns>>

\* The upstream server answers, or fails; nothing else ends this wait.
UpstreamReturns(c) ==
  /\ hpc[c] = "upstream"
  /\ Goto(c, IF c \in WSConns
             THEN IF sock[c] = "closed" THEN {"top", "exit"}
                                        ELSE {"top", "exit", "tunnel"}
             ELSE {"top"})
  /\ HandlerFrame /\ UNCHANGED <<sock, clients, conns>>

\* A tunnel ends with its client's connection.
TunnelBreaks(c) ==
  /\ hpc[c] = "tunnel"
  /\ sock[c] # "open"
  /\ Goto(c, {"exit"})
  /\ HandlerFrame /\ UNCHANGED <<sock, clients, conns>>

\* A tunnel ends with its server's connection.
TunnelHangsUp(c) ==
  /\ hpc[c] = "tunnel"
  /\ Goto(c, {"exit"})
  /\ HandlerFrame /\ UNCHANGED <<sock, clients, conns>>

\* serve returns: the session and the connection are closed.
Exit(c) ==
  /\ hpc[c] = "exit"
  /\ sock' = [sock EXCEPT ![c] = "closed"]
  /\ Goto(c, {"unregister"})
  /\ HandlerFrame /\ UNCHANGED <<clients, conns>>

Unregister(c) ==
  /\ hpc[c] = "unregister"
  /\ clients' = clients \ {c}
  /\ Goto(c, {"leave"})
  /\ HandlerFrame /\ UNCHANGED <<sock, conns>>

\* Mutant: the last Done releases nobody.
Leave_NoWake(c) ==
  /\ hpc[c] = "leave"
  /\ conns' = conns - 1
  /\ Goto(c, {"gone"})
  /\ HandlerFrame /\ UNCHANGED <<sock, clients>>

\* conns.Done(): the one that reaches zero releases every parked Wait.
Leave(c) ==
  /\ hpc[c] = "leave"
  /\ conns' = conns - 1
  /\ stopPc' = [s \in Stoppers |->
       IF conns = 1 /\ stopPc[s] = "parked" THEN "returned" ELSE stopPc[s]]
  /\ Goto(c, {"gone"})
  /\ UNCHANGED <<closed, published, listening, startPc, cur, sock, clients>>

HandlerStep(c) ==
  Top(c) \/ ReadFails(c) \/ TunnelBreaks(c) \/ Exit(c) \/ Unregister(c) \/ Leave(c)

UpstreamStep(c) == UpstreamReturns(c) \/ TunnelHangsUp(c)

-----------------------------------------------------------------------------
(* The clients *)

Connect(c) ==
  /\ listening
  /\ sock[c] = "none"
  /\ sock' = [sock EXCEPT ![c] = "backlog"]
  /\ UNCHANGED <<closed, published, listening, startPc, cur, clients, conns,
                 hpc, stopPc>>

PeerCloses(c) ==
  /\ sock[c] = "open"
  /\ sock' = [sock EXCEPT ![c] = "shut"]
  /\ UNCHANGED <<closed, published, listening, startPc, cur, clients, conns,
                 hpc, stopPc>>

ClientStep(c) == Connect(c) \/ PeerCloses(c) \/ Receive(c)

-----------------------------------------------------------------------------

\* Everything has come to its end: Start and every Stop returned, and no
\* connection can be made or is being handled.
Finished ==
  /\ startPc \in {"failed", "refused", "done"}
  /\ \A s \in Stoppers : stopPc[s] \in {"skipped", "returned"}
  /\ \A c \in Conns : hpc[c] \in {"none", "gone"}
  /\ UNCHANGED vars

Next ==
  \/ StartStep
  \/ \E s \in Stoppers : StopStep(s)
  \/ \E c \in Conns : \/ HandlerStep(c) \/ IdleTimeout(c) \/ UpstreamStep(c)
                      \/ ClientStep(c)
  \/ Finished

Spec == Init /\ [][Next]_vars

\* The Go scheduler runs every goroutine that can run, and armed deadlines
\* expire.  Nothing is promised of clients and upstream servers.
ProxyFairness ==
  /\ WF_vars(StartStep /\ startPc # "idle")
  /\ \A s \in Stoppers : WF_vars(StopStep(s) /\ stopPc[s] # "idle")
  /\ \A c \in Conns : WF_vars(HandlerStep(c)) /\ WF_vars(IdleTimeout(c))

FairSpec == Spec /\ ProxyFairness

\* Besides, upstream servers answer or hang up, and clients leave in the end.
ServedSpec ==
  /\ FairSpec
  /\ \A c \in Conns : WF_vars(UpstreamStep(c)) /\ WF_vars(PeerCloses(c))

-----------------------------------------------------------------------------
(* Properties *)

\* A caller of Stop has closed the connections that were registered.
Swept == \E s \in Stoppers : stopPc[s] \in {"wait", "parked", "returned"}

\* The call of Stop that did the work has returned.
Stopped == \E s \in Stoppers : stopPc[s] = "returned"

\* The proxy holds the connection: fresh from Accept or in its goroutine.
Live(c) == c = cur \/ hpc[c] \in Running

\* Every variable has its type, and the accept loop holds a connection exactly
\* between Accept and the go statement that hands it over.
TypeOK ==
  /\ closed \in BOOLEAN
  /\ published \in BOOLEAN
  /\ listening \in BOOLEAN
  /\ startPc \in StartPcs
  /\ cur \in IF startPc \in {"add", "register", "spawn"} THEN Conns ELSE {NoConn}
  /\ sock \in [Conns -> SockStates]
  /\ clients \subseteq Conns
  /\ conns \in Nat
  /\ hpc \in [Conns -> HandlerPcs]
  /\ stopPc \in [Stoppers -> StopPcs]

\* The connections conns.Add counted and conns.Done did not.
Counted ==
  {c \in Conns : hpc[c] \in Running
                   \/ (c = cur /\ startPc \in {"register", "spawn"})}

\* The WaitGroup counts the connections between their Add and their Done, on
\* every path a handler takes out of serve.
WaitGroupCounts == conns = Cardinality(Counted)

\* The handshake of Start and Stop over m.closed and m.listener: once Stop has
\* swept, no socket is left listening, unless Start has yet to find m.closed set.
NoOrphanListener == Swept => ~listening \/ startPc = "publish"

\* Stop closes the listener before it sweeps, so at most one connection - the
\* one that was between Accept and its registration - escapes the sweep.
OneStraggler ==
  Swept => \A c, d \in Conns :
    Live(c) /\ sock[c] # "closed" /\ Live(d) /\ sock[d] # "closed" => c = d

\* What a returned Stop does guarantee: at most that one connection is in hand.
StoppedLeavesOne ==
  Stopped => \A c, d \in Conns : Live(c) /\ Live(d) => c = d

\* What these rest on: where the listener, a fresh connection and the registered
\* ones can be while Start, Stop and the handlers are each where they are.
ListenerOwned ==
  /\ listening => startPc \notin {"idle", "failed", "refused", "done"}
  /\ published <=> startPc \notin {"idle", "publish", "failed", "refused"}
ClosedIsSet == \A s \in Stoppers : stopPc[s] # "idle" => closed
FreshConn == cur # NoConn => hpc[cur] = "none" /\ sock[cur] \notin {"none", "backlog"}
NotDialled == \A c \in Conns : sock[c] \in {"none", "backlog"} => hpc[c] = "none"
Registered ==
  \A c \in Conns :
    /\ hpc[c] \in Running \ {"leave"} => c \in clients
    /\ hpc[c] \in {"unregister", "leave"} => sock[c] = "closed"
SpawnRegistered == startPc = "spawn" => cur \in clients
SweepsAfterClose ==
  \A s \in Stoppers :
    stopPc[s] \in {"sweep", "wait", "parked", "returned"} => ~listening \/ startPc = "publish"

\* Every connection in a handler can be found by Stop's sweep, and Stop closes the
\* listener first: the inductive invariant of the proofs.
IInv ==
  /\ TypeOK
  /\ ListenerOwned /\ ClosedIsSet /\ FreshConn /\ NotDialled
  /\ Registered /\ SpawnRegistered /\ SweepsAfterClose
  /\ WaitGroupCounts /\ OneStraggler /\ StoppedLeavesOne

\* Stop makes Start return.
StartReturns == closed ~> startPc \in {"idle", "failed", "refused", "done"}

\* Closing a client connection ends its goroutine.
ClosedConnectionsEnd ==
  \A c \in Conns : sock[c] = "closed" /\ hpc[c] \in Running ~> hpc[c] = "gone"

\* Stop returns (the comment at mitm.go:153: closing the client connections
\* keeps blocked goroutines from keeping the program from exiting).
StopReturns ==
  \A s \in Stoppers : stopPc[s] # "idle" ~> stopPc[s] \in {"skipped", "returned"}

=============================================================================
