----------------------------- MODULE MITMProofs -----------------------------
(***************************************************************************)
(* The safety of MITM, for any number of connections and callers of Stop.  *)
(* IInv is inductive; its parts are proved in layers: where everything can *)
(* be (Base), then the counter of the WaitGroup, then what a sweep and a   *)
(* returned Stop leave behind.                                             *)
(***************************************************************************)
EXTENDS MITM, FiniteSetTheorems, TLAPS

Base ==
  /\ TypeOK
  /\ ListenerOwned /\ ClosedIsSet /\ FreshConn /\ NotDialled
  /\ Registered /\ SpawnRegistered /\ SweepsAfterClose

\* Base holds at first.
LEMMA BaseInit == Init => Base
<1> SUFFICES ASSUME Init PROVE Base
  OBVIOUS
<1> USE DEF Init
<1>1. TypeOK  BY DEF TypeOK, StartPcs, SockStates, HandlerPcs, StopPcs
<1>2. ListenerOwned /\ ClosedIsSet  BY DEF ListenerOwned, ClosedIsSet
<1>3. FreshConn /\ NotDialled  BY DEF FreshConn, NotDialled
<1>4. Registered /\ SpawnRegistered /\ SweepsAfterClose
  BY DEF Registered, SpawnRegistered, SweepsAfterClose, Running
<1>5. QED BY <1>1, <1>2, <1>3, <1>4 DEF Base

\* The steps of Start keep Base.
LEMMA BaseStart == Base /\ StartStep => Base'
<1> SUFFICES ASSUME Base, StartStep PROVE Base'
  OBVIOUS
<1> USE ConstAssumption
    DEF Base, TypeOK, ListenerOwned, ClosedIsSet, FreshConn, NotDialled,
        Registered, SpawnRegistered, SweepsAfterClose, StartPcs, SockStates,
        HandlerPcs, Running, StopPcs
<1>1. CASE Listen
  <2>1. CASE startPc' = "publish" /\ listening' = TRUE   BY <1>1, <2>1 DEF Listen
  <2>2. CASE startPc' = "failed" /\ UNCHANGED listening  BY <1>1, <2>2 DEF Listen
  <2>3. QED BY <1>1, <2>1, <2>2 DEF Listen
<1>2. CASE Publish
  <2>1. CASE closed
    <3>1. /\ startPc = "publish" /\ startPc' = "refused" /\ ~listening'
          /\ sock' = [c \in Conns |-> IF sock[c] = "backlog" THEN "closed" ELSE sock[c]]
          /\ UNCHANGED <<closed, published, cur, clients, conns, hpc, stopPc>>
      BY <1>2, <2>1 DEF Publish, CloseSocket
    <3>2. TypeOK'  BY <1>2, <2>1, <3>1 DEF Publish, CloseSocket
    <3>3. ListenerOwned' /\ ClosedIsSet'  BY <3>1
    <3>4. FreshConn' /\ NotDialled'  BY <3>1
    <3>5. Registered' /\ SpawnRegistered' /\ SweepsAfterClose'  BY <3>1
    <3>6. QED BY <3>2, <3>3, <3>4, <3>5
  <2>2. CASE ~closed  BY <1>2, <2>2 DEF Publish
  <2>3. QED BY <2>1, <2>2
<1>3. CASE Accept        BY <1>3 DEF Accept
<1>4. CASE AcceptClosed  BY <1>4 DEF AcceptClosed
<1>5. CASE AddConn       BY <1>5 DEF AddConn
<1>6. CASE Register      BY <1>6 DEF Register
<1>7. CASE Spawn         BY <1>7 DEF Spawn
<1>8. QED BY <1>1, <1>2, <1>3, <1>4, <1>5, <1>6, <1>7 DEF StartStep

\* The steps of Stop keep Base.
LEMMA BaseStop == ASSUME NEW s \in Stoppers, Base, StopStep(s) PROVE Base'
<1> USE ConstAssumption
    DEF Base, TypeOK, ListenerOwned, ClosedIsSet, FreshConn, NotDialled,
        Registered, SpawnRegistered, SweepsAfterClose, StartPcs, SockStates,
        HandlerPcs, Running, StopPcs
<1>1. CASE StopBegin(s)      BY <1>1 DEF StopBegin
<1>2. CASE CloseListener(s)  BY <1>2 DEF CloseListener, CloseSocket
<1>3. CASE Sweep(s)          BY <1>3 DEF Sweep
<1>4. CASE WaitConns(s)      BY <1>4 DEF WaitConns
<1>5. QED BY <1>1, <1>2, <1>3, <1>4 DEF StopStep

\* So do the steps of a handler and of its environment, of which Leave needs that
\* the connection it uncounts was counted.
LEMMA BaseHandler ==
  ASSUME NEW c \in Conns, Base, WaitGroupCounts,
         HandlerStep(c) \/ IdleTimeout(c) \/ UpstreamStep(c) \/ ClientStep(c)
  PROVE  Base'
<1> USE ConstAssumption
    DEF Base, TypeOK, ListenerOwned, ClosedIsSet, FreshConn, NotDialled,
        Registered, SpawnRegistered, SweepsAfterClose, StartPcs, SockStates,
        HandlerPcs, Running, StopPcs, HandlerFrame, Goto
<1>1. CASE Top(c)              BY <1>1 DEF Top
<1>2. CASE Receive(c)          BY <1>2 DEF Receive
<1>3. CASE ReadFails(c)        BY <1>3 DEF ReadFails
<1>4. CASE IdleTimeout(c)      BY <1>4 DEF IdleTimeout
<1>5. CASE UpstreamReturns(c)  BY <1>5 DEF UpstreamReturns
<1>6. CASE TunnelBreaks(c)     BY <1>6 DEF TunnelBreaks
<1>7. CASE TunnelHangsUp(c)    BY <1>7 DEF TunnelHangsUp
<1>8. CASE Exit(c)             BY <1>8 DEF Exit
<1>9. CASE Unregister(c)       BY <1>9 DEF Unregister
<1>10. CASE Leave(c)
  <2>1. IsFiniteSet(Counted)  BY FS_Subset DEF Counted
  <2>2. c \in Counted         BY <1>10 DEF Leave, Counted
  <2>3. conns \in Nat /\ conns # 0
    BY <2>1, <2>2, FS_EmptySet, FS_CardinalityType DEF WaitGroupCounts
  <2>4. QED BY <1>10, <2>3 DEF Leave
<1>11. CASE Connect(c)         BY <1>11 DEF Connect
<1>12. CASE PeerCloses(c)      BY <1>12 DEF PeerCloses
<1>13. QED
  BY <1>1, <1>2, <1>3, <1>4, <1>5, <1>6, <1>7, <1>8, <1>9, <1>10, <1>11, <1>12
     DEF HandlerStep, UpstreamStep, ClientStep

-----------------------------------------------------------------------------
(* The WaitGroup *)

\* The set the WaitGroup counts is finite.
LEMMA CountedFinite == IsFiniteSet(Counted) /\ IsFiniteSet(Counted')
BY ConstAssumption, FS_Subset DEF Counted

\* Nothing is counted at first.
LEMMA CountInit == Init => WaitGroupCounts
<1> SUFFICES ASSUME Init PROVE WaitGroupCounts
  OBVIOUS
<1>1. Counted = {}  BY DEF Init, Counted, Running
<1>2. QED BY <1>1, FS_EmptySet DEF Init, WaitGroupCounts

\* A step of Start counts the connection it adds, once, and hands it over.
LEMMA CountStart == Base /\ WaitGroupCounts /\ StartStep => WaitGroupCounts'
<1> SUFFICES ASSUME Base, WaitGroupCounts, StartStep PROVE WaitGroupCounts'
  OBVIOUS
<1> USE DEF Base, TypeOK, FreshConn
<1>1. CASE AddConn
  <2>1. /\ cur \in Conns /\ cur # NoConn /\ hpc[cur] = "none"
        /\ hpc' = hpc /\ cur' = cur /\ startPc = "add" /\ startPc' = "register"
        /\ conns' = conns + 1
    BY <1>1, ConstAssumption DEF AddConn
  <2>2. cur \notin Counted /\ Counted' = Counted \cup {cur}
    BY <2>1 DEF Counted, Running
  <2>3. QED BY <2>1, <2>2, CountedFinite, FS_AddElement DEF WaitGroupCounts
<1>2. CASE Spawn
  <2>1. /\ cur \in Conns /\ hpc' = [hpc EXCEPT ![cur] = "top"] /\ cur' = NoConn
        /\ startPc = "spawn" /\ startPc' = "accept" /\ conns' = conns
    BY <1>2 DEF Spawn
  <2>2. Counted' = Counted  BY <2>1, ConstAssumption DEF Counted, Running
  <2>3. QED BY <2>1, <2>2 DEF WaitGroupCounts
<1>3. CASE Listen \/ Publish \/ Accept \/ AcceptClosed \/ Register
  <2>1. /\ hpc' = hpc /\ conns' = conns
        /\ \/ startPc \notin {"register", "spawn"} /\ startPc' \notin {"register", "spawn"}
           \/ cur' = cur /\ startPc \in {"register", "spawn"} /\ startPc' \in {"register", "spawn"}
    BY <1>3 DEF Listen, Publish, Accept, AcceptClosed, Register
  <2>2. Counted' = Counted  BY <2>1 DEF Counted
  <2>3. QED BY <2>1, <2>2 DEF WaitGroupCounts
<1>4. QED BY <1>1, <1>2, <1>3 DEF StartStep

\* A handler is counted until it leaves, whatever way it takes.
LEMMA CountHandler ==
  ASSUME NEW c \in Conns, Base, WaitGroupCounts,
         HandlerStep(c) \/ IdleTimeout(c) \/ UpstreamStep(c) \/ ClientStep(c)
  PROVE  WaitGroupCounts'
<1> USE DEF Base, TypeOK
<1>1. CASE Leave(c)
  <2>1. /\ hpc[c] = "leave" /\ hpc' = [hpc EXCEPT ![c] = "gone"] /\ conns' = conns - 1
        /\ cur' = cur /\ startPc' = startPc
    BY <1>1 DEF Leave, Goto
  <2>2. c # cur  BY <2>1, ConstAssumption DEF FreshConn
  <2>3. c \in Counted /\ Counted' = Counted \ {c}
    BY <2>1, <2>2 DEF Counted, Running
  <2>4. QED BY <2>1, <2>3, CountedFinite, FS_RemoveElement DEF WaitGroupCounts
<1>2. CASE Connect(c) \/ PeerCloses(c)
  <2>1. Counted' = Counted /\ conns' = conns
    BY <1>2 DEF Connect, PeerCloses, Counted
  <2>2. QED BY <2>1 DEF WaitGroupCounts
<1>3. CASE \/ Top(c) \/ Receive(c) \/ ReadFails(c) \/ IdleTimeout(c) \/ UpstreamReturns(c)
           \/ TunnelBreaks(c) \/ TunnelHangsUp(c) \/ Exit(c) \/ Unregister(c)
  <2>1. /\ hpc[c] \in Running
        /\ \E p \in Running : hpc' = [hpc EXCEPT ![c] = p]
        /\ conns' = conns /\ cur' = cur /\ startPc' = startPc
    BY <1>3 DEF Top, Receive, ReadFails, IdleTimeout, UpstreamReturns, TunnelBreaks,
                TunnelHangsUp, Exit, Unregister, HandlerFrame, Goto, Running
  <2>2. Counted' = Counted  BY <2>1 DEF Counted
  <2>3. QED BY <2>1, <2>2 DEF WaitGroupCounts
<1>4. QED BY <1>1, <1>2, <1>3 DEF HandlerStep, UpstreamStep, ClientStep

\* Neither Stop nor a stuttering step counts.
LEMMA CountOther ==
  ASSUME WaitGroupCounts, (\E s \in Stoppers : StopStep(s)) \/ UNCHANGED vars
  PROVE  WaitGroupCounts'
<1>1. Counted' = Counted /\ conns' = conns
  BY DEF StopStep, StopBegin, CloseListener, Sweep, WaitConns, vars, Counted
<1>2. QED BY <1>1 DEF WaitGroupCounts

-----------------------------------------------------------------------------
(* What a sweep leaves open, and a returned Stop in hand *)

\* Once the sweep is over no connection is accepted, and one is closed for good.
LEMMA StragglerStep ==
  ASSUME Base, OneStraggler, Next PROVE OneStraggler'
<1> SUFFICES ASSUME Swept', NEW c \in Conns, NEW d \in Conns,
                    Live(c)', sock'[c] # "closed", Live(d)', sock'[d] # "closed"
             PROVE  c = d
  BY DEF OneStraggler
<1> USE ConstAssumption DEF Base, TypeOK, Live
<1>1. CASE \E s \in Stoppers : Sweep(s)
  <2>1. \A e \in Conns : Live(e)' /\ sock'[e] # "closed" => e = cur
    BY <1>1 DEF Sweep, Registered, Running
  <2>2. QED BY <2>1
<1>2. CASE ~\E s \in Stoppers : Sweep(s)
  <2>1. Swept
    <3>1. PICK s \in Stoppers : stopPc'[s] \in {"wait", "parked", "returned"}
      BY DEF Swept
    <3>2. stopPc[s] \in {"wait", "parked", "returned"}
      BY <1>2, <3>1 DEF Next, StartStep, Listen, Publish, Accept, AcceptClosed, AddConn,
         Register, Spawn, StopStep, StopBegin, CloseListener, WaitConns, HandlerStep,
         UpstreamStep, ClientStep, Top, Receive, ReadFails, IdleTimeout, UpstreamReturns,
         TunnelBreaks, TunnelHangsUp, Exit, Unregister, Leave, Connect, PeerCloses,
         HandlerFrame, Finished, vars
    <3>3. QED BY <3>2 DEF Swept
  <2>2. ~Accept  BY <2>1 DEF Swept, SweepsAfterClose, Accept
  <2>3. \A e \in Conns : Live(e)' /\ sock'[e] # "closed" => Live(e) /\ sock[e] # "closed"
    BY <2>2 DEF Next, StartStep, Listen, Publish, AcceptClosed, AddConn, Register, Spawn,
       StopStep, StopBegin, CloseListener, CloseSocket, Sweep, WaitConns, HandlerStep,
       UpstreamStep, ClientStep, Top, Receive, ReadFails, IdleTimeout, UpstreamReturns,
       TunnelBreaks, TunnelHangsUp, Exit, Unregister, Leave, Connect, PeerCloses,
       HandlerFrame, Goto, Finished, vars, NotDialled, FreshConn, Running
  <2>4. QED BY <2>1, <2>3 DEF OneStraggler
<1>3. QED BY <1>1, <1>2

\* A Stop that returns has seen the counter at zero: what the proxy still holds is
\* the connection the accept loop had not counted, and there will be no other.
LEMMA StoppedStep ==
  ASSUME Base, WaitGroupCounts, StoppedLeavesOne, Next PROVE StoppedLeavesOne'
<1> SUFFICES ASSUME Stopped', NEW c \in Conns, NEW d \in Conns, Live(c)', Live(d)'
             PROVE  c = d
  BY DEF StoppedLeavesOne
<1> USE ConstAssumption DEF Base, TypeOK, Live
<1>1. CASE Stopped
  <2>1. ~Accept  BY <1>1 DEF Stopped, SweepsAfterClose, Accept
  <2>2. \A e \in Conns : Live(e)' => Live(e)
    BY <2>1 DEF Next, StartStep, Listen, Publish, AcceptClosed, AddConn, Register, Spawn,
       StopStep, StopBegin, CloseListener, Sweep, WaitConns, HandlerStep, UpstreamStep,
       ClientStep, Top, Receive, ReadFails, IdleTimeout, UpstreamReturns, TunnelBreaks,
       TunnelHangsUp, Exit, Unregister, Leave, Connect, PeerCloses, HandlerFrame, Goto,
       Finished, vars, Running
  <2>3. QED BY <1>1, <2>2 DEF StoppedLeavesOne
<1>2. CASE ~Stopped
  <2>1. PICK s \in Stoppers : stopPc'[s] = "returned" /\ stopPc[s] # "returned"
    BY <1>2 DEF Stopped
  <2>2. CASE \E t \in Stoppers : WaitConns(t)
    <3>1. conns = 0 /\ UNCHANGED <<hpc, cur>>
      BY <2>1, <2>2 DEF WaitConns
    <3>2. Counted = {}  BY <3>1, CountedFinite, FS_EmptySet DEF WaitGroupCounts
    <3>3. \A e \in Conns : Live(e)' => e = cur  BY <3>1, <3>2 DEF Counted
    <3>4. QED BY <3>3
  <2>3. CASE \E e \in Conns : Leave(e)
    <3>1. PICK e \in Conns : Leave(e)  BY <2>3
    <3>2. conns = 1 /\ conns' = 0 /\ cur' = cur
      BY <2>1, <3>1 DEF Leave
    <3>3. WaitGroupCounts'  BY <3>1, CountHandler DEF HandlerStep
    <3>4. Counted' = {}  BY <3>2, <3>3, CountedFinite, FS_EmptySet DEF WaitGroupCounts
    <3>5. \A e1 \in Conns : Live(e1)' => e1 = cur'  BY <3>4 DEF Counted
    <3>6. QED BY <3>5
  <2>4. CASE ~(\E t \in Stoppers : WaitConns(t)) /\ ~(\E e \in Conns : Leave(e))
    BY <2>1, <2>4 DEF Next, StartStep, Listen, Publish, Accept, AcceptClosed, AddConn,
       Register, Spawn, StopStep, StopBegin, CloseListener, Sweep, HandlerStep,
       UpstreamStep, ClientStep, Top, Receive, ReadFails, IdleTimeout, UpstreamReturns,
       TunnelBreaks, TunnelHangsUp, Exit, Unregister, Connect, PeerCloses, HandlerFrame,
       Finished, vars
  <2>5. QED BY <2>2, <2>3, <2>4
<1>3. QED BY <1>1, <1>2

-----------------------------------------------------------------------------
(* The theorems *)

\* The invariant is inductive.
LEMMA IInvStep == IInv /\ [Next]_vars => IInv'
<1> SUFFICES ASSUME IInv, [Next]_vars PROVE IInv'
  OBVIOUS
<1>1. Base /\ WaitGroupCounts /\ OneStraggler /\ StoppedLeavesOne  BY DEF IInv, Base
<1>2. CASE UNCHANGED vars
  BY <1>1, <1>2
     DEF IInv, vars, TypeOK, ListenerOwned, ClosedIsSet, FreshConn, NotDialled, Registered,
         SpawnRegistered, SweepsAfterClose, WaitGroupCounts, Counted, OneStraggler,
         StoppedLeavesOne, Swept, Stopped, Live
<1>3. CASE Next
  <2>1. OneStraggler' /\ StoppedLeavesOne'  BY <1>1, <1>3, StragglerStep, StoppedStep
  <2>2. CASE StartStep
    BY <1>1, <2>1, <2>2, BaseStart, CountStart DEF IInv, Base
  <2>3. CASE \E s \in Stoppers : StopStep(s)
    BY <1>1, <2>1, <2>3, BaseStop, CountOther DEF IInv, Base
  <2>4. CASE \E c \in Conns : HandlerStep(c) \/ IdleTimeout(c) \/ UpstreamStep(c) \/ ClientStep(c)
    BY <1>1, <2>1, <2>4, BaseHandler, CountHandler DEF IInv, Base
  <2>5. CASE Finished  BY <1>2, <2>5 DEF Finished
  <2>6. QED BY <1>3, <2>2, <2>3, <2>4, <2>5 DEF Next
<1>4. QED BY <1>2, <1>3

\* The inductive invariant holds in every state of every behaviour of a MITM.
THEOREM Invariance == Spec => []IInv
<1>1. Init => IInv
  <2>1. Init => Base /\ WaitGroupCounts  BY BaseInit, CountInit
  <2>2. Init => ~Swept /\ ~Stopped  BY DEF Init, Swept, Stopped
  <2>3. QED BY <2>1, <2>2 DEF IInv, Base, OneStraggler, StoppedLeavesOne
<1>2. QED BY <1>1, IInvStep, PTL DEF Spec

\* Type correctness: among others, that the accept loop holds a connection exactly
\* while it must, and that the WaitGroup's counter is never negative, which would
\* make conns.Done() panic.
THEOREM TypeCorrect == Spec => []TypeOK
BY Invariance, PTL DEF IInv

\* conns counts the connections between conns.Add and conns.Done.
THEOREM CountCorrect == Spec => []WaitGroupCounts
BY Invariance, PTL DEF IInv

\* Start and Stop agree on the listener: none is left open behind a sweep.
THEOREM ListenerClosed == Spec => []NoOrphanListener
<1>1. IInv => NoOrphanListener  BY DEF IInv, SweepsAfterClose, NoOrphanListener, Swept
<1>2. QED BY <1>1, Invariance, PTL

\* However many connections there are, at most one escapes Stop's sweep.
THEOREM AtMostOneStraggler == Spec => []OneStraggler
BY Invariance, PTL DEF IInv

\* When Stop has returned, the proxy holds at most that one.
THEOREM StopLeavesAtMostOne == Spec => []StoppedLeavesOne
BY Invariance, PTL DEF IInv

=============================================================================
