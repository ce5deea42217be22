--------------------------- MODULE DialogueProofs ---------------------------
(***************************************************************************)
(* A client that waits for each answer before it asks again is answered    *)
(* in order, each part once, and not cut off: for it the session           *)
(* implements Dialogue, for any number of servers, any capacity of writeCh *)
(* and whatever it asks.  The argument: while serve handles a request      *)
(* nothing of another is left in the session, so the only upstream         *)
(* connection with anything on it is the one the answer comes from.        *)
(***************************************************************************)
EXTENDS SessionProofs

\* The client waits for its answers.
Waits == script \notin Pipelining

\* Nothing is on connection u, or it is closed.
Silent(u) == ups[u].st = "closed" \/ (ups[u].inq = <<>> /\ ups[u].out = <<>>)

\* No connection but v has anything on it: the body of the response to request cur ...
OnlyBody(v) ==
  \A u \in 1..Len(ups) :
    \/ Silent(u)
    \/ u = v /\ ups[u].inq = <<>> /\ ups[u].out = <<Part("body", cur)>>

\* ... or the request itself, or what has come of the response to it.
OnlyAnswer(v) ==
  \A u \in 1..Len(ups) :
    \/ Silent(u)
    \/ u = v /\ ups[u].inq = <<cur>> /\ ups[u].out = <<>>
    \/ u = v /\ ups[u].inq = <<>>
       /\ ups[u].out \in {<<Part("head", cur)>>, <<Part("head", cur), Part("body", cur)>>}

\* Where serve handles a request: nothing is on its way upstream, the request is, the
\* response is there.
QuietPcs == {"upgrade", "body", "route", "dial1", "write1", "dial2", "write2", "dial3",
             "write3"}
ReadPcs == {"read1", "read2"}
ResponsePcs == {"hooks", "handshake", "submit"}
HandlePcs == QuietPcs \cup ReadPcs \cup ResponsePcs

Writing == wpc \in {"stream", "drain"}

\* e is the response to request cur, and only its body can still be on its way.
Answers(e) == e.of = cur /\ (e.up = 0 => e.body = cur) /\ OnlyBody(e.up)

\* Part i of a dialogue.
Reply(i) == IF i % 2 = 1 THEN Part("head", (i + 1) \div 2) ELSE Part("body", i \div 2)

Ordered == \A i \in 1..Len(got) : got[i] = Reply(i)

\* The client is at most one request ahead, and only if it has its answer.
Turn ==
  /\ sent \in {cur, cur + 1}
  /\ Len(got) <= 2 * cur /\ 2 * cur <= Len(got) + 2
  /\ sent # cur => Len(got) = 2 * cur

\* Nothing of an answered request is left upstream.
Settled == Len(got) = 2 * cur => OnlyBody(0)

\* The response is with serve, or in writeCh, or with the writer.
WithServe ==
  /\ pc \in HandlePcs => 2 * cur = Len(got) + 2
  /\ pc \in HandlePcs \cup {"tunnel"} => writeCh = <<>> /\ ~Writing
  /\ pc \in QuietPcs \cup {"tunnel"} => OnlyBody(0)
  /\ pc \in ReadPcs => OnlyAnswer(conn)
  /\ pc \in ResponsePcs => Answers(entry)
  /\ pc = "hooks" => entry.up = conn
  /\ pc = "handshake" => entry.up \in {0, conn}

Queued ==
  writeCh # <<>> =>
    Len(writeCh) = 1 /\ Answers(writeCh[1]) /\ 2 * cur = Len(got) + 2 /\ ~Writing

WithWriter ==
  Writing =>
    /\ Answers(wcur) /\ Len(got) < 2 * cur
    /\ wpc = "stream" /\ sock = "open" => Len(got) + 1 = 2 * cur

Alone == Waits /\ Ordered /\ Turn /\ Settled /\ WithServe /\ Queued /\ WithWriter

-----------------------------------------------------------------------------
(* Why the connection ends *)

\* The client, its deadline or a failed write is the reason.
Excused == sock # "open" \/ cancelled \/ deadline = "expired"

\* The connection that the body of e comes from is not closed.
Live(e) == e.up # 0 => ups[e.up].st # "closed"

Reasons ==
  /\ pc \in OverPcs => Excused \/ req.ws \/ (writeCh = <<>> /\ wpc = "idle")
  /\ cancelled => wpc = "done" \/ sock = "closed"
  /\ chClosed => sock = "closed" /\ cancelled
  /\ pc = "done" => sock = "closed"
  /\ wpc = "done" => cancelled

Sources ==
  /\ pc = "submit" => Live(entry) /\ (req.ws => entry.up = 0)
  /\ writeCh # <<>> /\ pc \notin {"close", "done"} => Live(writeCh[1])
  /\ writeCh # <<>> /\ req.ws => writeCh[1].up = 0
  /\ wpc = "stream" => ~req.ws /\ (pc \notin {"close", "done"} => Live(wcur))

-----------------------------------------------------------------------------
(* What is on the upstream connections *)

\* What can be left of a short sequence.
LEMMA ShortPrefix ==
  ASSUME NEW a, NEW b
  PROVE  /\ \A n \in 0..Len(<<>>) : SubSeq(<<>>, 1, n) = <<>>
         /\ \A n \in 0..Len(<<a>>) : SubSeq(<<a>>, 1, n) \in {<<>>, <<a>>}
         /\ \A n \in 0..Len(<<a, b>>) : SubSeq(<<a, b>>, 1, n) \in {<<>>, <<a>>, <<a, b>>}
<1>1. \A n \in 0..Len(<<>>) : SubSeq(<<>>, 1, n) = <<>>
  BY SubSeqEmpty
<1>2. \A s \in Seq({a, b}) : s # <<>> => Len(s) \in Nat \ {0}
  BY EmptySeq
<1>3. SubSeq(<<a>>, 1, 0) = <<>> /\ SubSeq(<<a, b>>, 1, 0) = <<>>
  BY SubSeqEmpty
<1>4. <<a>> \in Seq({a, b}) /\ <<a, b>> \in Seq({a, b})
  OBVIOUS
<1>5. SubSeq(<<a>>, 1, 1) = <<a>> /\ SubSeq(<<a, b>>, 1, 2) = <<a, b>>
  BY <1>4, SubSeqFull
<1>6. SubSeq(<<a, b>>, 1, 1) = <<a>>
  <2>1. \A i \in 1..1 : <<a, b>>[i] \in {a, b}
    OBVIOUS
  <2>2. /\ SubSeq(<<a, b>>, 1, 1) \in Seq({a, b}) /\ Len(SubSeq(<<a, b>>, 1, 1)) = 1
        /\ \A i \in 1..1 : SubSeq(<<a, b>>, 1, 1)[i] = <<a, b>>[i]
    BY <2>1, SubSeqProperties
  <2>3. Len(<<a>>) = 1 /\ \A i \in 1..1 : <<a>>[i] = <<a, b>>[i]
    OBVIOUS
  <2>4. QED BY <1>4, <2>2, <2>3, SeqEqual
<1>7. QED BY <1>1, <1>3, <1>5, <1>6

\* The steps that put nothing on a connection: they close some, or make new ones.
LEMMA ClosingQuiets ==
  ASSUME cur' = cur, Len(ups) \in Nat, Len(ups') \in Nat,
         \A u \in 1..Len(ups') :
           \/ u \in 1..Len(ups) /\ ups'[u] = ups[u]
           \/ ups'[u].st = "closed"
           \/ ups'[u].inq = <<>> /\ ups'[u].out = <<>>,
         NEW v
  PROVE  /\ OnlyBody(v) => OnlyBody(v)'
         /\ (\A u \in 1..Len(ups) : u = v => ups'[u].st = "closed") /\ OnlyAnswer(v)
              => OnlyBody(0)'
<1>1. OnlyBody(v) => OnlyBody(v)'
  BY DEF OnlyBody, Silent
<1>2. (\A u \in 1..Len(ups) : u = v => ups'[u].st = "closed") /\ OnlyAnswer(v) => OnlyBody(0)'
  BY DEF OnlyBody, OnlyAnswer, Silent
<1>3. QED BY <1>1, <1>2

\* A server that answers or dies leaves on a connection what it may carry.
LEMMA UpstreamQuiets ==
  ASSUME Types, NEW u \in 1..MaxUps, Upstream(u), NEW v
  PROVE  /\ OnlyBody(v) => OnlyBody(v)'
         /\ OnlyAnswer(v) => OnlyAnswer(v)'
<1> DEFINE H == Part("head", cur)
           B == Part("body", cur)
<1>1. cur' = cur
  BY DEF Upstream, UpstreamServes, UpstreamDies, serveVars
<1>2. /\ u \in 1..Len(ups) /\ Len(ups') = Len(ups)
      /\ \A w \in 1..Len(ups) : w # u => ups'[w] = ups[w]
  BY UpstreamEffect
<1>3. /\ \A w \in 1..Len(ups) : w # u => (Silent(w) => Silent(w)')
      /\ Silent(u) => Silent(u)'
  <2>1. Silent(u) => Silent(u)'
    <3>1. CASE UpstreamServes(u)
      BY <3>1, UpstreamEffect DEF Silent
    <3>2. CASE UpstreamDies(u)
      BY <3>2, UpstreamEffect, ShortPrefix DEF Silent
    <3>3. QED BY <3>1, <3>2 DEF Upstream
  <2>2. QED BY <1>2, <2>1 DEF Silent
<1>4. ASSUME ~Silent(u), ups[u].inq = <<>>,
             ups[u].out \in {<<B>>, <<H>>, <<H, B>>}
      PROVE  /\ ups'[u].inq = <<>>
             /\ \/ ups'[u].out = <<>> \/ ups'[u].out = ups[u].out
                \/ ups[u].out = <<H, B>> /\ ups'[u].out = <<H>>
  <2>1. UpstreamDies(u)
    BY <1>4 DEF Upstream, UpstreamServes
  <2>2. PICK n \in 0..Len(ups[u].out) : ups'[u].out = SubSeq(ups[u].out, 1, n)
    BY <2>1, UpstreamEffect
  <2>3. ups'[u].inq = <<>>
    BY <2>1, UpstreamEffect
  <2> HIDE DEF H, B
  <2>4. CASE ups[u].out = <<B>>
    BY <2>2, <2>3, <2>4, ShortPrefix
  <2>5. CASE ups[u].out = <<H>>
    BY <2>2, <2>3, <2>5, ShortPrefix
  <2>6. CASE ups[u].out = <<H, B>>
    BY <2>2, <2>3, <2>6, ShortPrefix
  <2>7. QED BY <1>4, <2>4, <2>5, <2>6
<1>5. ASSUME ~Silent(u), ups[u].inq = <<cur>>, ups[u].out = <<>>
      PROVE  ups'[u].inq = <<>> /\ ups'[u].out \in {<<>>, <<H, B>>}
  <2>1. CASE UpstreamServes(u)
    <3>1. ups[u].st = "open"
      BY <1>2, <1>5, <2>1, UpstreamEffect, ConnectionType DEF Silent
    <3>2. Head(<<cur>>) = cur /\ Tail(<<cur>>) = <<>>
      OBVIOUS
    <3>3. ups'[u].inq = <<>> /\ ups'[u].out = <<>> \o <<H, B>>
      BY <1>5, <2>1, <3>1, <3>2, UpstreamEffect
    <3>4. <<>> \o <<H, B>> = <<H, B>>
      BY ConcatEmptySeq
    <3>5. QED BY <3>3, <3>4
  <2>2. CASE UpstreamDies(u)
    BY <1>5, <2>2, UpstreamEffect, ShortPrefix
  <2>3. QED BY <2>1, <2>2 DEF Upstream
<1>6. ASSUME OnlyBody(v) PROVE OnlyBody(v)'
  <2> SUFFICES ASSUME NEW w \in 1..Len(ups), ~Silent(w)'
               PROVE  w = v /\ ups'[w].inq = <<>> /\ ups'[w].out = <<B>>
    BY <1>1, <1>2 DEF OnlyBody
  <2>1. ~Silent(w) /\ w = v /\ ups[w].inq = <<>> /\ ups[w].out = <<B>>
    BY <1>2, <1>3, <1>6 DEF OnlyBody
  <2>2. <<B>> # <<H, B>>
    OBVIOUS
  <2>3. CASE w = u
    BY <1>4, <2>1, <2>2, <2>3 DEF Silent
  <2>4. QED BY <1>2, <2>1, <2>3
<1>7. ASSUME OnlyAnswer(v) PROVE OnlyAnswer(v)'
  <2> SUFFICES ASSUME NEW w \in 1..Len(ups), ~Silent(w)'
               PROVE  /\ w = v
                      /\ \/ ups'[w].inq = <<cur>> /\ ups'[w].out = <<>>
                         \/ ups'[w].inq = <<>> /\ ups'[w].out \in {<<H>>, <<H, B>>}
    BY <1>1, <1>2 DEF OnlyAnswer
  <2>1. /\ ~Silent(w) /\ w = v
        /\ \/ ups[w].inq = <<cur>> /\ ups[w].out = <<>>
           \/ ups[w].inq = <<>> /\ ups[w].out \in {<<H>>, <<H, B>>}
    BY <1>2, <1>3, <1>7 DEF OnlyAnswer
  <2>2. CASE w = u
    BY <1>4, <1>5, <2>1, <2>2 DEF Silent
  <2>3. QED BY <1>2, <2>1, <2>2
<1>8. QED BY <1>6, <1>7

\* Reading a part: the body is the last thing there is, and the head comes before it.
LEMMA ReadingQuiets ==
  ASSUME Types, NEW u \in 1..Len(ups), HasPart(u), TakePart(u), script' = script, cur' = cur,
         NEW v
  PROVE  /\ OnlyBody(v) =>
              u = v /\ Head(ups[u].out) = Part("body", cur) /\ OnlyBody(0)'
         /\ OnlyAnswer(v) /\ Head(ups[u].out).part = "head" =>
              u = v /\ Head(ups[u].out) = Part("head", cur) /\ OnlyBody(v)'
<1> DEFINE H == Part("head", cur)
           B == Part("body", cur)
<1>1. /\ Len(ups') = Len(ups) /\ ups'[u].out = Tail(ups[u].out)
      /\ ups'[u].st = ups[u].st /\ ups'[u].inq = ups[u].inq
      /\ \A w \in 1..Len(ups) : w # u => ups'[w] = ups[w]
  BY TakePartChanges
<1>2. ~Silent(u) /\ ups[u].out # <<>>
  BY DEF Silent, HasPart
<1>3. /\ Head(<<B>>) = B /\ Tail(<<B>>) = <<>> /\ Head(<<H>>) = H /\ Tail(<<H>>) = <<>>
      /\ Head(<<H, B>>) = H /\ Tail(<<H, B>>) = <<B>>
  OBVIOUS
<1>4. ASSUME OnlyBody(v)
      PROVE  u = v /\ Head(ups[u].out) = B /\ OnlyBody(0)'
  <2>1. u = v /\ ups[u].inq = <<>> /\ ups[u].out = <<B>>
    BY <1>2, <1>4 DEF OnlyBody
  <2>2. \A w \in 1..Len(ups) : w # u => Silent(w)
    BY <1>4, <2>1 DEF OnlyBody
  <2>3. QED BY <1>1, <1>3, <2>1, <2>2 DEF OnlyBody, Silent
<1>5. ASSUME OnlyAnswer(v), Head(ups[u].out).part = "head"
      PROVE  u = v /\ Head(ups[u].out) = H /\ OnlyBody(v)'
  <2>1. u = v /\ ups[u].inq = <<>> /\ ups[u].out \in {<<H>>, <<H, B>>}
    BY <1>2, <1>5 DEF OnlyAnswer
  <2>2. \A w \in 1..Len(ups) : w # u => Silent(w)
    BY <1>5, <2>1 DEF OnlyAnswer
  <2>3. ups'[u].inq = <<>> /\ ups'[u].out \in {<<>>, <<B>>}
    BY <1>1, <1>3, <2>1
  <2>4. \A w \in 1..Len(ups) : w # u => Silent(w)'
    BY <1>1, <2>2 DEF Silent
  <2>5. Silent(u)' \/ (ups'[u].inq = <<>> /\ ups'[u].out = <<B>>)
    BY <2>3 DEF Silent
  <2>6. Head(ups[u].out) = H /\ u = v
    BY <1>3, <2>1
  <2>7. OnlyBody(v)'
    BY <1>1, <2>4, <2>5, <2>6 DEF OnlyBody
  <2>8. QED BY <2>6, <2>7
<1>6. QED BY <1>4, <1>5

\* Writing the request puts it on a connection that had nothing on it.
LEMMA WritingQuiets ==
  ASSUME Types, OnlyBody(0), conn \in 1..Len(ups), cur > 0, script' = script,
         cur' = cur, conn' = conn,
         ups' = IF ups[conn].st = "open"
                THEN [ups EXCEPT ![conn].inq = Append(@, cur)] ELSE ups
  PROVE  OnlyAnswer(conn)'
<1>1. /\ Len(ups') = Len(ups)
      /\ \A u \in 1..Len(ups) : ups'[u].st = ups[u].st /\ ups'[u].out = ups[u].out
      /\ \A u \in 1..Len(ups) :
           \/ ups'[u].inq = ups[u].inq
           \/ u = conn /\ ups'[u].inq = Append(ups[u].inq, cur)
  BY WriteEffect
<1>2. \A u \in 1..Len(ups) : Silent(u)
  BY DEF OnlyBody
<1>3. Append(<<>>, cur) = <<cur>>
  OBVIOUS
<1>4. ASSUME NEW u \in 1..Len(ups)
      PROVE  Silent(u)' \/ (u = conn /\ ups'[u].inq = <<cur>> /\ ups'[u].out = <<>>)
  <2>1. CASE ups[u].st = "closed"
    BY <1>1, <2>1 DEF Silent
  <2>2. CASE ups[u].inq = <<>> /\ ups[u].out = <<>>
    BY <1>1, <1>3, <2>2 DEF Silent
  <2>3. QED BY <1>2, <2>1, <2>2 DEF Silent
<1>5. QED BY <1>1, <1>4 DEF OnlyAnswer

\* A connection with nothing more to read has nothing on it.
LEMMA DryQuiets ==
  ASSUME NEW v, OnlyBody(v), v \in 1..Len(ups) => Dry(v)
  PROVE  OnlyBody(0)
<1>1. \A a : <<a>> # <<>>
  OBVIOUS
<1>2. QED BY <1>1 DEF OnlyBody, Dry, Silent

\* With nothing on them the connections look the same to every request.
LEMMA QuietForAll == OnlyBody(0) <=> \A u \in 1..Len(ups) : Silent(u)
BY DEF OnlyBody

-----------------------------------------------------------------------------
(* What the client receives *)

\* The parts of a reply.
LEMMA ReplyParts ==
  ASSUME NEW r \in Nat, NEW i \in Nat
  PROVE  /\ i + 1 = 2 * r => Reply(i) = Part("head", r)
         /\ i = 2 * r => Reply(i) = Part("body", r)
<1>1. ASSUME i + 1 = 2 * r PROVE i % 2 = 1 /\ (i + 1) \div 2 = r
  BY <1>1
<1>2. ASSUME i = 2 * r PROVE i % 2 = 0 /\ i \div 2 = r
  BY <1>2
<1>3. QED BY <1>1, <1>2 DEF Reply

\* Delivering the next one or two parts of the reply to request cur.
LEMMA Delivering ==
  ASSUME Types, Ordered, cur \in Requests, NEW parts, Deliver(parts),
         \/ /\ parts = <<Part("head", cur), Part("body", cur)>>
            /\ 2 * cur = Len(got) + 2
         \/ parts = <<Part("head", cur)>> /\ 2 * cur = Len(got) + 2
         \/ parts = <<Part("body", cur)>> /\ (sock = "open" => 2 * cur = Len(got) + 1)
  PROVE  /\ Ordered' /\ Len(got') \in Nat /\ Len(parts) \in {1, 2}
         /\ IF sock = "open" THEN Len(got') = Len(got) + Len(parts) ELSE got' = got
<1>1. Part("head", cur) \in Parts /\ Part("body", cur) \in Parts /\ cur \in Nat
  BY DEF Part, Dlg!Part, Parts, Requests
<1>2. parts \in Seq(Parts) /\ Len(parts) \in {1, 2}
  <2>1. ASSUME NEW a \in Parts, NEW b \in Parts
        PROVE  /\ <<a>> \in Seq(Parts) /\ Len(<<a>>) = 1
               /\ <<a, b>> \in Seq(Parts) /\ Len(<<a, b>>) = 2
    OBVIOUS
  <2>2. QED BY <1>1, <2>1
<1>3. got \in Seq(Parts) /\ Len(got) \in Nat
  BY DEF Types, ClientTypes
<1>4. CASE sock # "open"
  BY <1>2, <1>3, <1>4 DEF Deliver, Ordered
<1>5. CASE sock = "open"
  <2>1. got' = got \o parts
    BY <1>5 DEF Deliver
  <2>2. /\ Len(got') = Len(got) + Len(parts)
        /\ \A i \in 1..Len(got) + Len(parts) :
             got'[i] = IF i <= Len(got) THEN got[i] ELSE parts[i - Len(got)]
    BY <1>2, <1>3, <2>1, ConcatProperties
  <2>3. \A i \in 1..Len(parts) : parts[i] = Reply(Len(got) + i)
    <3>1. 2 * cur = Len(got) + 2 =>
            Reply(Len(got) + 1) = Part("head", cur) /\ Reply(Len(got) + 2) = Part("body", cur)
      BY <1>1, <1>3, ReplyParts
    <3>2. 2 * cur = Len(got) + 1 => Reply(Len(got) + 1) = Part("body", cur)
      BY <1>1, <1>3, ReplyParts
    <3>3. CASE parts = <<Part("head", cur), Part("body", cur)>> /\ 2 * cur = Len(got) + 2
      <4>1. parts[1] = Part("head", cur) /\ parts[2] = Part("body", cur) /\ Len(parts) = 2
        BY <3>3
      <4>2. QED BY <3>1, <3>3, <4>1
    <3>4. CASE parts = <<Part("head", cur)>> /\ 2 * cur = Len(got) + 2
      <4>1. parts[1] = Part("head", cur) /\ Len(parts) = 1
        BY <3>4
      <4>2. QED BY <3>1, <3>4, <4>1
    <3>5. CASE parts = <<Part("body", cur)>> /\ 2 * cur = Len(got) + 1
      <4>1. parts[1] = Part("body", cur) /\ Len(parts) = 1
        BY <3>5
      <4>2. QED BY <3>2, <3>5, <4>1
    <3>6. QED BY <1>5, <3>3, <3>4, <3>5
  <2>4. ASSUME NEW i \in 1..Len(got') PROVE got'[i] = Reply(i)
    <3>1. CASE i <= Len(got)
      BY <1>2, <1>3, <2>2, <3>1 DEF Ordered
    <3>2. CASE i > Len(got)
      <4>1. i - Len(got) \in 1..Len(parts) /\ Len(got) + (i - Len(got)) = i
        BY <1>2, <1>3, <2>2, <3>2
      <4>2. QED BY <1>2, <1>3, <2>2, <2>3, <3>2, <4>1
    <3>3. QED BY <1>3, <3>1, <3>2
  <2>5. Ordered'
    BY <2>4 DEF Ordered, Reply, Part, Dlg!Part
  <2>6. QED BY <1>2, <1>3, <1>5, <2>2, <2>5
<1>6. QED BY <1>4, <1>5

-----------------------------------------------------------------------------
(* serve, with a client that waits *)

\* The numbers that the parts of Alone speak of.
LEMMA Counts ==
  ASSUME Types, Alone
  PROVE  /\ Len(got) \in Nat /\ cur \in Nat /\ sent \in Nat /\ Len(ups) \in Nat
         /\ cur <= sent /\ sent <= Len(script)
BY FewConnections DEF Types, ClientTypes, ServeTypes

\* While serve handles a request the writer has nothing to do.
LEMMA HandleKeepsAlone ==
  ASSUME Types, Alone, pc \in HandlePcs, UNCHANGED <<script, sent, got, cur, writeCh, wpc>>,
         WithServe'
  PROVE  Alone'
<1>1. Len(got) # 2 * cur /\ writeCh = <<>> /\ ~Writing
  BY Counts DEF Alone, WithServe
<1>2. QED
  BY <1>1 DEF Alone, Waits, Ordered, Turn, Settled, Queued, WithWriter, Writing

\* serve has answered by itself.
LEMMA AnswerKeepsAlone ==
  ASSUME Types, Alone, pc \in HandlePcs, UNCHANGED <<script, sent, cur, writeCh, wpc>>,
         pc' \in IdlePcs \cup {"tunnel"}, Ordered', OnlyBody(0)',
         got' = got \/ Len(got') \in {Len(got) + 1, Len(got) + 2}
  PROVE  Alone'
<1>1. 2 * cur = Len(got) + 2 /\ writeCh = <<>> /\ ~Writing
  BY DEF Alone, WithServe
<1>2. Turn'
  BY <1>1, Counts DEF Alone, Turn
<1>3. WithServe'
  BY <1>1 DEF WithServe, Writing, HandlePcs, QuietPcs, ReadPcs, ResponsePcs, IdlePcs, OverPcs
<1>4. QED
  BY <1>1, <1>2, <1>3 DEF Alone, Waits, Settled, Queued, WithWriter, Writing

\* A step that delivers nothing and puts nothing on a connection.
LEMMA QuietKeepsAlone ==
  ASSUME Types, Alone, UNCHANGED <<script, sent, got, cur, writeCh, wpc, wcur>>,
         sock' = "open" => sock = "open",
         \A v : OnlyBody(v) => OnlyBody(v)',
         WithServe'
  PROVE  Alone'
<1>1. Waits' /\ Ordered' /\ Turn'
  BY DEF Alone, Waits, Ordered, Turn
<1>2. Settled'
  BY DEF Alone, Settled
<1>3. \A e : Answers(e) => Answers(e)'
  BY DEF Answers
<1>4. Queued'
  BY <1>3 DEF Alone, Queued, Writing
<1>5. WithWriter'
  BY <1>3 DEF Alone, WithWriter, Writing
<1>6. QED BY <1>1, <1>2, <1>4, <1>5 DEF Alone

LEMMA RestingServe ==
  ASSUME pc' \in IdlePcs
  PROVE  WithServe'
BY DEF WithServe, HandlePcs, QuietPcs, ReadPcs, ResponsePcs, IdlePcs, OverPcs

\* The loop of serve.
LEMMA LoopKeepsAlone ==
  ASSUME Types, Alone, Top \/ ReadRequest \/ ReadFails \/ UpgradeClient
  PROVE  Alone'
<1> USE DEF poolVars, writerVars, clientVars
<1>1. CASE Top \/ ReadFails
  <2>1. /\ UNCHANGED <<script, sent, got, sock, cur, ups, writeCh, wpc, wcur>>
        /\ pc' \in IdlePcs
    BY <1>1 DEF Top, ReadFails, IdlePcs, OverPcs
  <2>2. \A v : OnlyBody(v) => OnlyBody(v)'
    BY <2>1 DEF OnlyBody, Silent
  <2>3. QED BY <2>1, <2>2, RestingServe, QuietKeepsAlone
<1>2. CASE ReadRequest
  <2>1. /\ UNCHANGED <<script, sent, got, sock, ups, writeCh, wpc, wcur>>
        /\ cur < sent /\ cur' = cur + 1 /\ pc' \in {"upgrade", "body"}
    BY <1>2 DEF ReadRequest
  <2>2. Len(got) = 2 * cur /\ sent = cur + 1
    BY <2>1, Counts DEF Alone, Turn
  <2>3. writeCh = <<>> /\ ~Writing /\ OnlyBody(0)
    BY <2>2, Counts DEF Alone, Queued, WithWriter, Settled
  <2>4. OnlyBody(0)'
    BY <2>1, <2>3, QuietForAll DEF OnlyBody, Silent
  <2>5. Turn' /\ 2 * cur' = Len(got') + 2
    BY <2>1, <2>2, Counts DEF Turn
  <2>6. WithServe'
    BY <2>1, <2>3, <2>4, <2>5 DEF WithServe, HandlePcs, QuietPcs, ReadPcs, ResponsePcs, Writing
  <2>7. Waits' /\ Ordered' /\ Settled' /\ Queued' /\ WithWriter'
    BY <2>1, <2>3, <2>4 DEF Alone, Waits, Ordered, Settled, Queued, WithWriter, Writing
  <2>8. QED BY <2>5, <2>6, <2>7 DEF Alone
<1>3. CASE UpgradeClient
  <2>1. /\ pc = "upgrade" /\ pc' \in IdlePcs
        /\ UNCHANGED <<script, sent, sock, cur, ups, writeCh, wpc, wcur>>
        /\ got' = got \/ Deliver(Full(Local(cur)))
    BY <1>3 DEF UpgradeClient, IdlePcs, OverPcs
  <2>2. pc \in HandlePcs /\ cur \in Requests
    BY <2>1, CurrentRequest DEF HandlePcs, QuietPcs, Types, Handles, IdlePcs, OverPcs
  <2>3. 2 * cur = Len(got) + 2 /\ OnlyBody(0) /\ Ordered
    BY <2>1, <2>2 DEF Alone, WithServe, QuietPcs
  <2>4. OnlyBody(0)'
    BY <2>1, <2>3 DEF OnlyBody, Silent
  <2>5. CASE got' = got
    BY <2>1, <2>2, <2>3, <2>4, <2>5, AnswerKeepsAlone DEF Ordered
  <2>6. CASE Deliver(Full(Local(cur)))
    <3>1. Full(Local(cur)) = <<Part("head", cur), Part("body", cur)>>
      BY DEF Full, Local
    <3>2. /\ Ordered'
          /\ got' = got \/ Len(got') \in {Len(got) + 1, Len(got) + 2}
      BY <2>2, <2>3, <2>6, <3>1, Delivering
    <3>3. QED BY <2>1, <2>2, <2>4, <3>2, AnswerKeepsAlone
  <2>7. QED BY <2>1, <2>5, <2>6
<1>4. QED BY <1>1, <1>2, <1>3

\* A response that is all in memory.
LEMMA InMemory ==
  ASSUME NEW e, e.of = cur, e.body = cur, e.up = 0, OnlyBody(0)
  PROVE  Answers(e)
BY DEF Answers

\* What comes before and after forward.
LEMMA RouteKeepsAlone ==
  ASSUME Types, Alone, BufferBody \/ Route
  PROVE  Alone'
<1> USE DEF poolVars, writerVars, clientVars
<1>1. /\ UNCHANGED <<script, sent, got, cur, ups, writeCh, wpc>>
      /\ pc \in QuietPcs /\ pc \in HandlePcs
      /\ \/ pc' \in {"route", "dial1"}
         \/ pc' = "submit" /\ entry'.of = cur /\ entry'.body = cur /\ entry'.up = 0
  BY DEF BufferBody, Route, HandleManage, ShortCircuit, BadGateway, Local, QuietPcs, HandlePcs
<1>2. OnlyBody(0) /\ 2 * cur = Len(got) + 2 /\ writeCh = <<>> /\ ~Writing
  BY <1>1 DEF Alone, WithServe
<1>3. OnlyBody(0)'
  BY <1>1, <1>2 DEF OnlyBody, Silent
<1>4. pc' = "submit" => Answers(entry)'
  BY <1>1, <1>3 DEF Answers
<1>5. WithServe'
  BY <1>1, <1>2, <1>3, <1>4 DEF WithServe, QuietPcs, ReadPcs, ResponsePcs, HandlePcs, Writing
<1>6. QED BY <1>1, <1>5, HandleKeepsAlone

LEMMA SubmitKeepsAlone ==
  ASSUME Types, Alone, Submit
  PROVE  Alone'
<1> USE DEF poolVars, clientVars
<1>1. /\ UNCHANGED <<script, sent, got, sock, cur, ups, wpc, wcur>>
      /\ pc = "submit" /\ pc' \in IdlePcs
      /\ writeCh' = writeCh \/ writeCh' = Append(writeCh, entry)
  BY DEF Submit, IdlePcs, OverPcs
<1>2. Answers(entry) /\ 2 * cur = Len(got) + 2 /\ writeCh = <<>> /\ ~Writing
  BY <1>1 DEF Alone, WithServe, HandlePcs, ResponsePcs
<1>3. \A v : OnlyBody(v) => OnlyBody(v)'
  BY <1>1 DEF OnlyBody, Silent
<1>4. Waits' /\ Ordered' /\ Turn' /\ Settled' /\ WithWriter'
  BY <1>1, <1>2, <1>3 DEF Alone, Waits, Ordered, Turn, Settled, WithWriter, Writing
<1>5. WithServe'
  BY <1>1, RestingServe
<1>6. Queued'
  <2>1. CASE writeCh' = <<>>
    BY <2>1 DEF Queued
  <2>2. CASE writeCh' = Append(<<>>, entry)
    <3>1. PICK e : e = entry
      OBVIOUS
    <3>2. Len(writeCh') = 1 /\ writeCh'[1] = e
      BY <2>2, <3>1
    <3>3. Answers(e)'
      BY <1>1, <1>2, <1>3, <3>1 DEF Answers
    <3>4. QED BY <1>1, <1>2, <3>2, <3>3 DEF Queued, Writing, Answers
  <2>3. QED BY <1>1, <1>2, <2>1, <2>2
<1>7. QED BY <1>4, <1>5, <1>6 DEF Alone

\* forward.
LEMMA ForwardKeepsAlone ==
  ASSUME Types, Alone, Forward
  PROVE  Alone'
<1> USE DEF writerVars, clientVars
<1>1. ASSUME UNCHANGED <<script, clientVars, cur, cancelled, served, writerVars>>,
             pc \in HandlePcs, OnlyBody(0)', pc' \in {"dial2", "dial3", "write1", "write2", "write3"}
      PROVE  WithServe'
  BY <1>1 DEF Alone, WithServe, HandlePcs, QuietPcs, ReadPcs, ResponsePcs, Writing
<1>2. ASSUME UNCHANGED <<script, clientVars, cur, cancelled, served, writerVars>>,
             pc \in HandlePcs, OnlyBody(0)', pc' = "submit", entry' = Local(cur)
      PROVE  WithServe'
  <2>1. Answers(entry)'
    BY <1>2 DEF Answers, Local
  <2>2. QED BY <1>2, <2>1 DEF Alone, WithServe, HandlePcs, QuietPcs, ReadPcs, ResponsePcs, Writing
<1>3. ASSUME NEW from, NEW to, GetServer(from, to), DialsAt(from, to)
      PROVE  WithServe' /\ pc \in HandlePcs
                        /\ UNCHANGED <<script, clientVars, cur, cancelled, served, writerVars>>
  <2>1. /\ UNCHANGED <<script, clientVars, cur, cancelled, served, writerVars>>
        /\ pc = from /\ pc \in HandlePcs /\ pc \in QuietPcs
    BY <1>3 DEF GetServer, DialsAt, HandlePcs, QuietPcs
  <2>2. OnlyBody(0)'
    <3>1. OnlyBody(0)
      BY <2>1 DEF Alone, WithServe
    <3>2. QED BY <1>3, <2>1, <3>1, FewConnections, ClosingQuiets, GetServerEffect
  <2>3. pc' = to \/ (pc' = "submit" /\ entry' = Local(cur))
    BY <1>3, GetServerEffect
  <2>4. QED BY <1>1, <1>2, <1>3, <2>1, <2>2, <2>3 DEF DialsAt
<1>4. ASSUME NEW retry, RemoveServer(retry), retry \in {"no", "dial2", "dial3"},
             UNCHANGED <<script, clientVars, cur, conn, cancelled, served, writerVars>>,
             pc \in ReadPcs \cup {"write1", "write2", "write3"}
      PROVE  WithServe'
  <2>1. cur > 0 /\ conn \in 1..Len(ups) /\ pc \in HandlePcs
    BY <1>4 DEF Types, Handles, UsingPcs, IdlePcs, OverPcs, HandlePcs, QuietPcs, ReadPcs
  <2>2. /\ Len(ups') = Len(ups) /\ ups'[conn] = Closed(conn)
        /\ \A u \in 1..Len(ups) : u # conn => ups'[u] = ups[u]
    BY <1>4, <2>1, RemoveServerEffect
  <2>3. ups'[conn].st = "closed"
    BY <2>1, <2>2, ConnectionType DEF Closed, Connection
  <2>4. OnlyBody(0) \/ OnlyAnswer(conn)
    BY <1>4 DEF Alone, WithServe, QuietPcs, ReadPcs
  <2>5. OnlyBody(0)'
    BY <1>4, <2>1, <2>2, <2>3, <2>4, FewConnections, ClosingQuiets
  <2>6. \/ pc' = "submit" /\ entry' = Local(cur)
        \/ pc' \in {"dial2", "dial3"}
    BY <1>4 DEF RemoveServer, BadGateway
  <2>7. QED BY <1>1, <1>2, <1>4, <2>1, <2>5, <2>6
<1>5. ASSUME NEW from, NEW to, NEW retry, WriteRequest(from, to, retry),
             WritesAt(from, to, retry)
      PROVE  WithServe' /\ pc \in HandlePcs
                        /\ UNCHANGED <<script, clientVars, cur, cancelled, served, writerVars>>
  <2>1. /\ UNCHANGED <<script, clientVars, cur, conn, cancelled, served, writerVars>>
        /\ pc \in {"write1", "write2", "write3"} /\ retry \in {"no", "dial2", "dial3"}
        /\ pc \in HandlePcs /\ pc \in QuietPcs
    BY <1>5 DEF WriteRequest, WritesAt, HandlePcs, QuietPcs
  <2>2. CASE RemoveServer(retry)
    BY <1>4, <2>1, <2>2
  <2>3. CASE ~RemoveServer(retry)
    <3>1. /\ ups' = IF ups[conn].st = "open"
                    THEN [ups EXCEPT ![conn].inq = Append(@, cur)] ELSE ups
          /\ pc' \in ReadPcs
      BY <1>5, <2>3 DEF WriteRequest, WritesAt, ReadPcs
    <3>2. cur > 0 /\ conn \in 1..Len(ups)
      BY <2>1 DEF Types, Handles, UsingPcs, IdlePcs, OverPcs
    <3>3. OnlyBody(0)
      BY <2>1 DEF Alone, WithServe
    <3>4. OnlyAnswer(conn)'
      BY <2>1, <3>1, <3>2, <3>3, WritingQuiets
    <3>5. QED
      BY <2>1, <3>1, <3>4 DEF Alone, WithServe, HandlePcs, QuietPcs, ReadPcs, ResponsePcs, Writing
  <2>4. QED BY <2>1, <2>2, <2>3
<1>6. ASSUME NEW from, NEW retry, ReadResponse(from, retry), ReadsAt(from, retry)
      PROVE  WithServe' /\ pc \in HandlePcs
                        /\ UNCHANGED <<script, clientVars, cur, cancelled, served, writerVars>>
  <2>1. /\ UNCHANGED <<script, clientVars, cur, conn, cancelled, served, writerVars>>
        /\ pc \in ReadPcs /\ retry \in {"no", "dial2", "dial3"} /\ pc \in HandlePcs
    BY <1>6 DEF ReadResponse, ReadsAt, HandlePcs, ReadPcs
  <2>2. CASE RemoveServer(retry)
    BY <1>4, <2>1, <2>2
  <2>3. CASE ~RemoveServer(retry)
    <3>1. /\ HasPart(conn) /\ Head(ups[conn].out).part = "head" /\ TakePart(conn)
          /\ entry' = [of |-> Head(ups[conn].out).of, body |-> 0, up |-> conn,
                       silent |-> FALSE]
          /\ pc' = "hooks"
      BY <1>6, <2>3 DEF ReadResponse
    <3>2. conn \in 1..Len(ups)
      BY <2>1 DEF Types, Handles, UsingPcs, ReadPcs
    <3>3. OnlyAnswer(conn)
      BY <2>1 DEF Alone, WithServe
    <3>4. Head(ups[conn].out) = Part("head", cur) /\ OnlyBody(conn)'
      BY <2>1, <3>1, <3>2, <3>3, ReadingQuiets
    <3>5. entry'.of = cur /\ entry'.up = conn /\ entry'.up # 0
      BY <3>1, <3>2, <3>4 DEF Part, Dlg!Part
    <3>6. Answers(entry)'
      BY <2>1, <3>4, <3>5 DEF Answers
    <3>7. QED
      BY <2>1, <3>1, <3>5, <3>6
         DEF Alone, WithServe, HandlePcs, QuietPcs, ReadPcs, ResponsePcs, Writing
  <2>4. QED BY <2>1, <2>2, <2>3
<1>7. WithServe' /\ pc \in HandlePcs /\ UNCHANGED <<script, sent, got, cur, writeCh, wpc>>
  BY <1>3, <1>5, <1>6, ForwardSteps
<1>8. QED BY <1>7, HandleKeepsAlone

\* The response handler and the HTML injector.
LEMMA HooksKeepAlone ==
  ASSUME Types, Alone, ApplyHooks
  PROVE  Alone'
<1> USE DEF poolVars, writerVars, clientVars
<1>1. /\ UNCHANGED <<script, sent, got, cur, conn, writeCh, wpc>>
      /\ pc = "hooks" /\ pc' \in {"submit", "handshake"}
  BY DEF ApplyHooks
<1>2. /\ pc \in HandlePcs /\ Answers(entry) /\ entry.up = conn /\ OnlyBody(conn)
      /\ 2 * cur = Len(got) + 2 /\ writeCh = <<>> /\ ~Writing
  BY <1>1 DEF Alone, WithServe, HandlePcs, ResponsePcs, Answers
<1>3. conn \in 1..Len(ups) /\ entry \in Entry
  BY <1>1 DEF Types, Handles, UsingPcs, ServeTypes
<1>4. ASSUME NEW body, InHand(body)
      PROVE  entry'.of = entry.of /\ entry'.body = body /\ entry'.up = 0
  BY <1>3, <1>4 DEF InHand, Entry
<1>5. Answers(entry)' /\ entry'.up \in {0, conn}
  <2>1. CASE UNCHANGED <<entry, ups>>
    BY <1>1, <1>2, <2>1 DEF Answers, OnlyBody, Silent
  <2>2. CASE HasPart(conn) /\ TakePart(conn) /\ InHand(entry.of)
    <3>1. OnlyBody(0)'
      BY <1>1, <1>2, <1>3, <2>2, ReadingQuiets
    <3>2. QED BY <1>1, <1>2, <1>4, <2>2, <3>1 DEF Answers
  <2>3. CASE Dry(conn) /\ InHand(entry.of) /\ UNCHANGED ups
    <3>1. OnlyBody(0)
      BY <1>2, <2>3, DryQuiets
    <3>2. OnlyBody(0)'
      BY <1>1, <2>3, <3>1 DEF OnlyBody, Silent
    <3>3. QED BY <1>1, <1>2, <1>4, <2>3, <3>2 DEF Answers
  <2>4. CASE HasPart(conn) /\ TakePart(conn) /\ InHand(Head(ups[conn].out).of)
    <3>1. OnlyBody(0)' /\ Head(ups[conn].out) = Part("body", cur)
      BY <1>1, <1>2, <1>3, <2>4, ReadingQuiets
    <3>2. Head(ups[conn].out).of = cur
      BY <3>1 DEF Part, Dlg!Part
    <3>3. QED BY <1>1, <1>2, <1>4, <2>4, <3>1, <3>2 DEF Answers
  <2>5. QED BY <2>1, <2>2, <2>3, <2>4 DEF ApplyHooks
<1>6. WithServe'
  BY <1>1, <1>2, <1>5 DEF WithServe, HandlePcs, QuietPcs, ReadPcs, ResponsePcs, Writing
<1>7. QED BY <1>1, <1>2, <1>6, HandleKeepsAlone

\* The WebSocket handshake, answered by serve itself.
LEMMA HandshakeKeepsAlone ==
  ASSUME Types, Alone, Handshake
  PROVE  Alone'
<1> USE DEF poolVars, writerVars, clientVars
<1> DEFINE H == Part("head", cur)
           B == Part("body", cur)
<1>1. /\ UNCHANGED <<script, sent, sock, cur, conn, writeCh, wpc>>
      /\ pc = "handshake" /\ pc' \in IdlePcs \cup {"tunnel"}
      /\ pc' = "tunnel" \/ pc' \in IdlePcs
  BY DEF Handshake, IdlePcs, OverPcs
<1>2. /\ pc \in HandlePcs /\ Answers(entry) /\ entry.up \in {0, conn} /\ OnlyBody(entry.up)
      /\ 2 * cur = Len(got) + 2 /\ writeCh = <<>> /\ ~Writing /\ Ordered
  BY <1>1 DEF Alone, WithServe, HandlePcs, ResponsePcs, Answers
<1>3. conn \in 1..Len(ups) /\ cur \in Requests
  BY <1>1, CurrentRequest DEF Types, Handles, UsingPcs, IdlePcs, OverPcs
<1>4. ASSUME NEW parts \in {<<H>>, <<H, B>>}, Deliver(parts)
      PROVE  Ordered' /\ (got' = got \/ Len(got') \in {Len(got) + 1, Len(got) + 2})
  BY <1>2, <1>3, <1>4, Delivering
<1>5. CASE pc' = "exit" /\ UNCHANGED <<got, deadline, ups>>
  <2>1. WithServe'
    BY <1>5, RestingServe DEF IdlePcs, OverPcs
  <2>2. QED BY <1>1, <1>2, <1>5, <2>1, HandleKeepsAlone
<1>6. CASE entry.up # 0 /\ Dry(conn) /\ Deliver(<<Part("head", entry.of)>>) /\ UNCHANGED ups
  <2>1. OnlyBody(0)
    BY <1>2, <1>6, DryQuiets
  <2>2. OnlyBody(0)'
    BY <1>1, <1>6, <2>1 DEF OnlyBody, Silent
  <2>3. QED BY <1>1, <1>2, <1>4, <1>6, <2>2, AnswerKeepsAlone DEF Answers
<1>7. CASE entry.up = 0 /\ Deliver(Full(entry)) /\ UNCHANGED ups
  <2>1. OnlyBody(0) /\ Full(entry) = <<H, B>>
    BY <1>2, <1>7 DEF Answers, Full
  <2>2. OnlyBody(0)'
    BY <1>1, <1>7, <2>1 DEF OnlyBody, Silent
  <2>3. QED BY <1>1, <1>2, <1>4, <1>7, <2>1, <2>2, AnswerKeepsAlone
<1>8. CASE /\ entry.up # 0 /\ HasPart(conn) /\ TakePart(conn)
           /\ Deliver(<<Part("head", entry.of), Part("body", Head(ups[conn].out).of)>>)
  <2>1. OnlyBody(0)' /\ Head(ups[conn].out) = B
    BY <1>1, <1>2, <1>3, <1>8, ReadingQuiets
  <2>2. Head(ups[conn].out).of = cur
    BY <2>1 DEF Part, Dlg!Part
  <2>3. Deliver(<<H, B>>)
    BY <1>2, <1>8, <2>2 DEF Answers
  <2>4. QED BY <1>1, <1>2, <1>4, <2>1, <2>3, AnswerKeepsAlone
<1>9. QED BY <1>5, <1>6, <1>7, <1>8 DEF Handshake

\* The end of the tunnel and of the session.
LEMMA EndKeepsAlone ==
  ASSUME Types, Alone, TunnelEnds \/ CloseServers \/ CloseClient
  PROVE  Alone'
<1> USE DEF poolVars, writerVars, clientVars
<1>1. /\ UNCHANGED <<script, sent, got, cur, writeCh, wpc, wcur>>
      /\ pc' \in IdlePcs /\ (sock' = "open" => sock = "open")
  BY DEF TunnelEnds, CloseServers, CloseClient, IdlePcs, OverPcs
<1>2. \A u \in 1..Len(ups) : Closed(u).st = "closed"
  BY ConnectionType DEF Closed, Connection
<1>3. /\ Len(ups') = Len(ups)
      /\ \A u \in 1..Len(ups) : ups'[u] = ups[u] \/ ups'[u].st = "closed"
  <2>1. CASE TunnelEnds
    <3>1. conn \in 1..Len(ups)
      BY <2>1 DEF TunnelEnds, Types, Handles, UsingPcs
    <3>2. Closed(conn) \in Connection
      BY <3>1, ConnectionType, EmptySeq DEF Closed, Connection
    <3>3. QED BY <1>2, <2>1, <3>1, <3>2, OneChanged, ConnectionType DEF TunnelEnds
  <2>2. CASE CloseServers
    BY <1>2, <2>2, ClosingEffect
  <2>3. CASE CloseClient
    BY <2>3 DEF CloseClient
  <2>4. QED BY <2>1, <2>2, <2>3
<1>4. \A v : OnlyBody(v) => OnlyBody(v)'
  BY <1>1, <1>3, FewConnections, ClosingQuiets
<1>5. QED BY <1>1, <1>4, RestingServe, QuietKeepsAlone

LEMMA ServeKeepsAlone ==
  ASSUME Types, Alone, Serve
  PROVE  Alone'
BY LoopKeepsAlone, RouteKeepsAlone, SubmitKeepsAlone, ForwardKeepsAlone, HooksKeepAlone,
   HandshakeKeepsAlone, EndKeepsAlone DEF Serve

-----------------------------------------------------------------------------
(* The writer and the environment, with a client that waits *)

\* While the writer has a response serve has none.
LEMMA WriterMeansRest ==
  ASSUME Types, Alone, writeCh # <<>> \/ Writing
  PROVE  pc \in IdlePcs
BY DEF Alone, WithServe, Types, ServeTypes, ServePcs, HandlePcs, QuietPcs, ReadPcs,
       ResponsePcs, IdlePcs, OverPcs

\* What the writer takes from writeCh.
LEMMA NextResponse ==
  ASSUME Types, Alone, writeCh # <<>>
  PROVE  /\ Head(writeCh) = writeCh[1] /\ Tail(writeCh) = <<>>
         /\ Answers(Head(writeCh)) /\ 2 * cur = Len(got) + 2 /\ ~Writing
         /\ cur \in Requests
<1>1. Len(writeCh) = 1 /\ Answers(writeCh[1]) /\ 2 * cur = Len(got) + 2 /\ ~Writing
  BY DEF Alone, Queued
<1>2. writeCh \in Seq(Entry)
  BY DEF Types, WriterTypes
<1>3. Head(writeCh) = writeCh[1]
  BY <1>2
<1>4. Tail(writeCh) \in Seq(Entry) /\ Len(Tail(writeCh)) = 0
  BY <1>1, <1>2, HeadTailProperties
<1>5. Tail(writeCh) = <<>>
  BY <1>4, EmptySeq
<1>6. cur > 0
  BY <1>1, Counts
<1>7. QED BY <1>1, <1>3, <1>5, <1>6, CurrentRequest

LEMMA WriteLocalKeepsAlone ==
  ASSUME Types, Alone, WriteLocal
  PROVE  Alone'
<1> USE DEF serveVars
<1>1. /\ UNCHANGED <<script, sent, sock, cur, pc, ups>>
      /\ writeCh # <<>> /\ Head(writeCh).up = 0 /\ writeCh' = Tail(writeCh)
      /\ wpc' \in {"idle", "done"}
      /\ got' = got \/ Deliver(Full(Head(writeCh)))
  BY DEF WriteLocal, WriterFrame, WriterGivesUp
<1>2. /\ Answers(Head(writeCh)) /\ Tail(writeCh) = <<>> /\ 2 * cur = Len(got) + 2
      /\ cur \in Requests /\ pc \in IdlePcs
  BY <1>1, NextResponse, WriterMeansRest
<1>3. OnlyBody(0) /\ Full(Head(writeCh)) = <<Part("head", cur), Part("body", cur)>>
  BY <1>1, <1>2 DEF Answers, Full
<1>4. OnlyBody(0)'
  BY <1>1, <1>3 DEF OnlyBody, Silent
<1>5. Ordered' /\ (got' = got \/ Len(got') \in {Len(got) + 1, Len(got) + 2})
  <2>1. CASE got' = got
    BY <2>1 DEF Alone, Ordered
  <2>2. CASE Deliver(Full(Head(writeCh)))
    BY <1>2, <1>3, <2>2, Delivering DEF Alone
  <2>3. QED BY <1>1, <2>1, <2>2
<1>6. Turn'
  BY <1>1, <1>2, <1>5, Counts DEF Alone, Turn
<1>7. Settled' /\ Queued' /\ WithWriter' /\ Waits'
  BY <1>1, <1>2, <1>4 DEF Alone, Waits, Settled, Queued, WithWriter, Writing
<1>8. WithServe'
  BY <1>1, <1>2, RestingServe
<1>9. QED BY <1>5, <1>6, <1>7, <1>8 DEF Alone

LEMMA WriteHeadKeepsAlone ==
  ASSUME Types, Alone, WriteHead
  PROVE  Alone'
<1> USE DEF serveVars
<1>1. /\ UNCHANGED <<script, sent, sock, cur, pc, ups>>
      /\ writeCh # <<>> /\ Head(writeCh).up # 0 /\ writeCh' = Tail(writeCh)
      /\ wcur' = Head(writeCh)
      /\ \/ Deliver(<<Part("head", Head(writeCh).of)>>) /\ wpc' = "stream"
         \/ got' = got /\ wpc' = "drain"
  BY DEF WriteHead, WriterFrame
<1>2. /\ Answers(Head(writeCh)) /\ Tail(writeCh) = <<>> /\ 2 * cur = Len(got) + 2
      /\ cur \in Requests /\ pc \in IdlePcs
  BY <1>1, NextResponse, WriterMeansRest
<1>3. Answers(wcur)'
  BY <1>1, <1>2 DEF Answers, OnlyBody, Silent
<1>4. /\ Ordered'
      /\ \/ Len(got') = Len(got) + 1
         \/ got' = got /\ (wpc' = "stream" => sock # "open")
  <2>1. CASE got' = got /\ wpc' = "drain"
    BY <2>1 DEF Alone, Ordered
  <2>2. CASE Deliver(<<Part("head", Head(writeCh).of)>>)
    <3>1. Deliver(<<Part("head", cur)>>) /\ Len(<<Part("head", cur)>>) = 1
      BY <1>2, <2>2 DEF Answers
    <3>2. QED BY <1>2, <3>1, Delivering DEF Alone
  <2>3. QED BY <1>1, <2>1, <2>2
<1>5. Turn' /\ Len(got') < 2 * cur
  BY <1>1, <1>2, <1>4, Counts DEF Alone, Turn
<1>6. WithWriter'
  BY <1>1, <1>2, <1>3, <1>4, <1>5, Counts DEF WithWriter, Writing
<1>7. Settled' /\ Queued' /\ Waits'
  BY <1>1, <1>2, <1>5, Counts DEF Alone, Waits, Settled, Queued
<1>8. WithServe'
  BY <1>1, <1>2, RestingServe
<1>9. QED BY <1>4, <1>5, <1>6, <1>7, <1>8 DEF Alone

\* The body, written or drained.
LEMMA WriteBodyKeepsAlone ==
  ASSUME Types, Alone, WriteBody \/ DrainBody
  PROVE  Alone'
<1> USE DEF serveVars
<1>1. /\ UNCHANGED <<script, sent, sock, cur, pc, writeCh>> /\ wpc' \in {"idle", "done"}
      /\ Writing
      /\ \/ got' = got
         \/ /\ wpc = "stream" /\ HasPart(wcur.up) /\ TakePart(wcur.up)
            /\ Deliver(<<Part("body", Head(ups[wcur.up].out).of)>>)
  BY DEF WriteBody, DrainBody, WriterFrame, WriterGivesUp, Writing
<1>2. /\ Answers(wcur) /\ OnlyBody(wcur.up) /\ Len(got) < 2 * cur /\ writeCh = <<>>
      /\ wpc = "stream" /\ sock = "open" => Len(got) + 1 = 2 * cur
      /\ pc \in IdlePcs
  BY <1>1, WriterMeansRest DEF Alone, WithWriter, Queued, Answers
<1>3. cur \in Requests /\ wcur.up \in 1..Len(ups)
  <2>1. cur > 0
    BY <1>2, Counts
  <2>2. QED BY <1>1, <2>1, CurrentRequest DEF Types, Handles, Sendable, Writing
<1>4. /\ Ordered'
      /\ got' = got \/ (Len(got') = 2 * cur /\ OnlyBody(0)')
  <2>1. CASE got' = got
    BY <2>1 DEF Alone, Ordered
  <2>2. CASE /\ wpc = "stream" /\ HasPart(wcur.up) /\ TakePart(wcur.up)
             /\ Deliver(<<Part("body", Head(ups[wcur.up].out).of)>>)
    <3>1. Head(ups[wcur.up].out) = Part("body", cur) /\ OnlyBody(0)'
      BY <1>1, <1>2, <1>3, <2>2, ReadingQuiets
    <3>2. Head(ups[wcur.up].out).of = cur
      BY <3>1 DEF Part, Dlg!Part
    <3>3. Deliver(<<Part("body", cur)>>) /\ Len(<<Part("body", cur)>>) = 1
      BY <2>2, <3>2
    <3>4. QED BY <1>2, <1>3, <2>2, <3>1, <3>3, Delivering DEF Alone
  <2>3. QED BY <1>1, <2>1, <2>2
<1>5. Turn'
  BY <1>1, <1>4, Counts DEF Alone, Turn
<1>6. Settled'
  <2>1. CASE got' = got
    BY <1>1, <1>2, <2>1, Counts DEF Settled
  <2>2. CASE OnlyBody(0)'
    BY <2>2 DEF Settled
  <2>3. QED BY <1>4, <2>1, <2>2
<1>7. Queued' /\ WithWriter' /\ Waits'
  BY <1>1, <1>2 DEF Alone, Waits, Queued, WithWriter, Writing
<1>8. WithServe'
  BY <1>1, <1>2, RestingServe
<1>9. QED BY <1>4, <1>5, <1>6, <1>7, <1>8 DEF Alone

LEMMA WriterKeepsAlone ==
  ASSUME Types, Alone, Writer
  PROVE  Alone'
<1>1. CASE WriterEnds
  <2>1. /\ UNCHANGED <<script, sent, got, sock, cur, pc, conn, entry, ups, writeCh>>
        /\ ~Writing /\ ~Writing'
    BY <1>1 DEF WriterEnds, WriterFrame, serveVars, Writing
  <2>2. \A v : (OnlyBody(v) <=> OnlyBody(v)') /\ (OnlyAnswer(v) <=> OnlyAnswer(v)')
    BY <2>1 DEF OnlyBody, OnlyAnswer, Silent
  <2>3. OnlyBody(0)' <=> OnlyBody(0)
    BY <2>2
  <2>4. Answers(entry)' <=> Answers(entry)
    BY <2>1 DEF Answers, OnlyBody, Silent
  <2>5. OnlyAnswer(conn)' <=> OnlyAnswer(conn)
    BY <2>1 DEF OnlyAnswer, Silent
  <2>6. WithServe'
    BY <2>1, <2>3, <2>4, <2>5 DEF Alone, WithServe
  <2>7. Queued'
    BY <2>1, <2>2 DEF Alone, Queued, Answers
  <2>8. QED
    BY <2>1, <2>3, <2>6, <2>7 DEF Alone, Waits, Ordered, Turn, Settled, WithWriter
<1>2. QED
  BY <1>1, WriteLocalKeepsAlone, WriteHeadKeepsAlone, WriteBodyKeepsAlone DEF Writer

LEMMA EnvironmentKeepsAlone ==
  ASSUME Types, Alone, Environment \/ UNCHANGED vars
  PROVE  Alone'
<1> USE DEF clientVars, serveVars, poolVars, writerVars
<1>1. ASSUME UNCHANGED <<script, got, serveVars, ups, writerVars>>,
             sock' = "open" => sock = "open"
      PROVE  Waits' /\ Ordered' /\ Settled' /\ WithServe' /\ Queued' /\ WithWriter'
  <2>1. OnlyBody(0)' <=> OnlyBody(0)
    BY <1>1 DEF OnlyBody, Silent
  <2>2. \A e : Answers(e)' <=> Answers(e)
    BY <1>1 DEF Answers, OnlyBody, Silent
  <2>3. OnlyAnswer(conn)' <=> OnlyAnswer(conn)
    BY <1>1 DEF OnlyAnswer, Silent
  <2>4. WithServe'
    BY <1>1, <2>1, <2>2, <2>3 DEF Alone, WithServe, Writing
  <2>5. Queued' /\ WithWriter'
    BY <1>1, <2>2 DEF Alone, Queued, WithWriter, Writing
  <2>6. QED BY <1>1, <2>1, <2>4, <2>5 DEF Alone, Waits, Ordered, Settled
<1>2. CASE ClientAsks
  <2>1. /\ UNCHANGED <<script, got, sock, serveVars, ups, writerVars>>
        /\ sent' = sent + 1 /\ Len(got) = 2 * sent
    BY <1>2 DEF ClientAsks, Alone, Waits
  <2>2. Turn'
    BY <2>1, Counts DEF Alone, Turn
  <2>3. QED BY <1>1, <2>1, <2>2 DEF Alone
<1>3. CASE ClientLeaves \/ StopCloses \/ DeadlinePasses \/ UNCHANGED vars
  <2>1. /\ UNCHANGED <<script, sent, got, serveVars, ups, writerVars>>
        /\ sock' = "open" => sock = "open"
    BY <1>3 DEF ClientLeaves, StopCloses, DeadlinePasses, vars
  <2>2. Turn'
    BY <2>1 DEF Alone, Turn
  <2>3. QED BY <1>1, <2>1, <2>2 DEF Alone
<1>4. ASSUME NEW u \in 1..MaxUps, Upstream(u) PROVE Alone'
  <2>1. UNCHANGED <<script, sent, got, sock, serveVars, writerVars>>
    BY <1>4 DEF Upstream, UpstreamServes, UpstreamDies
  <2>2. \A v : (OnlyBody(v) => OnlyBody(v)') /\ (OnlyAnswer(v) => OnlyAnswer(v)')
    BY <1>4, UpstreamQuiets
  <2>3. \A e : Answers(e) => Answers(e)'
    BY <2>1, <2>2 DEF Answers
  <2>4. pc \in ReadPcs => OnlyAnswer(conn)'
    <3>1. PICK c : c = conn
      OBVIOUS
    <3>2. pc \in ReadPcs => OnlyAnswer(c)'
      BY <2>2, <3>1 DEF Alone, WithServe
    <3>3. QED BY <2>1, <3>1, <3>2 DEF OnlyAnswer
  <2>5. WithServe'
    BY <2>1, <2>2, <2>3, <2>4 DEF Alone, WithServe, Writing, Answers
  <2>6. QED BY <2>1, <2>2, <2>5, QuietKeepsAlone
<1>5. QED BY <1>2, <1>3, <1>4 DEF Environment

\* Alone is inductive.
LEMMA AloneInvariant == Spec /\ Waits => [](Types /\ Pool /\ Alone)
<1>1. Init /\ Waits => Alone
  BY DEF Init, Alone, Ordered, Turn, Settled, OnlyBody, WithServe, HandlePcs, QuietPcs,
         ReadPcs, ResponsePcs, Queued, WithWriter, Writing
<1>2. Types /\ Alone /\ [Next]_vars => Alone'
  BY ServeKeepsAlone, WriterKeepsAlone, EnvironmentKeepsAlone DEF Next, Finished
<1>3. QED BY <1>1, <1>2, PoolInvariant, PTL DEF Spec

-----------------------------------------------------------------------------
(* The dialogue *)

\* An ordered sequence of parts is an initial part of the replies.
LEMMA OrderedPrefix ==
  ASSUME NEW S, NEW g \in Seq(S), NEW n \in Nat, Len(g) <= 2 * n,
         \A i \in 1..Len(g) : g[i] = Reply(i)
  PROVE  g = SubSeq(Dlg!Replies(n), 1, Len(g))
<1> DEFINE replies == Dlg!Replies(n)
<1>1. Len(g) \in Nat /\ \A i \in 1..Len(g) : g[i] \in S
  BY ElementOfSeq
<1>2. \A i \in 1..Len(g) : replies[i] = g[i]
  <2>1. ASSUME NEW i \in 1..(2 * n) PROVE replies[i] = Reply(i)
    BY <2>1 DEF Dlg!Replies, Reply, Part
  <2>2. \A i \in 1..Len(g) : i \in 1..(2 * n)
    BY <1>1
  <2> HIDE DEF replies
  <2>3. QED BY <2>1, <2>2
<1> HIDE DEF replies
<1>3. \A i \in 1..Len(g) : replies[i] \in S
  BY <1>1, <1>2
<1>4. /\ SubSeq(replies, 1, Len(g)) \in Seq(S)
      /\ Len(SubSeq(replies, 1, Len(g))) = IF 1 <= Len(g) THEN Len(g) - 1 + 1 ELSE 0
      /\ \A i \in 1..Len(g) - 1 + 1 : SubSeq(replies, 1, Len(g))[i] = replies[1 + i - 1]
  BY <1>1, <1>3, SubSeqProperties
<1>5. Len(SubSeq(replies, 1, Len(g))) = Len(g)
  BY <1>1, <1>4
<1>6. \A i \in 1..Len(g) : SubSeq(replies, 1, Len(g))[i] = g[i]
  BY <1>1, <1>2, <1>4
<1>7. QED BY <1>4, <1>5, <1>6, SeqEqual DEF replies

\* One or two parts are delivered, or none.
LEMMA DeliverLength ==
  ASSUME got \in Seq(Parts), NEW a, NEW b, NEW parts, parts \in {<<a>>, <<a, b>>},
         Deliver(parts)
  PROVE  got' = got \/ (sock = "open" /\ Len(got') \in {Len(got) + 1, Len(got) + 2})
<1> DEFINE S == Parts \cup {a, b}
<1>1. got \in Seq(S)
  BY SeqMonotonic
<1>2. a \in S /\ b \in S
  OBVIOUS
<1> HIDE DEF S
<1>3. parts \in Seq(S) /\ Len(parts) \in {1, 2}
  <2>1. /\ <<a>> \in Seq(S) /\ Len(<<a>>) = 1
        /\ <<a, b>> \in Seq(S) /\ Len(<<a, b>>) = 2
    BY <1>2
  <2>2. QED BY <2>1
<1>4. Len(got \o parts) = Len(got) + Len(parts)
  BY <1>1, <1>3, ConcatProperties
<1>5. QED BY <1>3, <1>4 DEF Deliver

\* What a step does to the dialogue.
LEMMA DialogueSteps ==
  ASSUME Types, Alone, [Next]_vars
  PROVE  \/ UNCHANGED <<sent, got, sock>>
         \/ /\ sock = "open" /\ UNCHANGED <<sent, sock>>
            /\ Len(got') \in {Len(got) + 1, Len(got) + 2}
         \/ sock = "open" /\ UNCHANGED <<got, sock>> /\ sent' = sent + 1
         \/ sock' # "open" /\ UNCHANGED <<sent, got>>
<1> USE DEF clientVars
<1>0. got \in Seq(Parts)
  BY DEF Types, ClientTypes
<1>1. CASE Serve
  <2>1. CASE UpgradeClient \/ Handshake
    <3>1. /\ UNCHANGED <<sent, sock>>
          /\ \/ got' = got
             \/ \E a, b : Deliver(<<a, b>>)
             \/ \E a : Deliver(<<a>>)
      BY <2>1 DEF UpgradeClient, Handshake, Full
    <3>2. QED BY <1>0, <3>1, DeliverLength
  <2>2. CASE TunnelEnds \/ CloseClient
    BY <2>2 DEF TunnelEnds, CloseClient
  <2>3. CASE Top \/ ReadRequest \/ ReadFails \/ BufferBody \/ Route \/ Submit \/ ApplyHooks
             \/ CloseServers
    BY <2>3 DEF Top, ReadRequest, ReadFails, BufferBody, Route, Submit, ApplyHooks, CloseServers
  <2>4. CASE Forward
    BY <2>4 DEF Forward, GetServer, WriteRequest, ReadResponse
  <2>5. QED BY <1>1, <2>1, <2>2, <2>3, <2>4 DEF Serve
<1>2. CASE Writer
  <2>1. /\ UNCHANGED <<sent, sock>>
        /\ \/ got' = got
           \/ \E a, b : Deliver(<<a, b>>)
           \/ \E a : Deliver(<<a>>)
    BY <1>2 DEF Writer, WriterFrame, WriteLocal, WriteHead, WriteBody, DrainBody, WriterEnds,
                Full
  <2>2. QED BY <1>0, <2>1, DeliverLength
<1>3. CASE Environment
  BY <1>3 DEF Environment, ClientAsks, ClientLeaves, StopCloses, DeadlinePasses, Upstream,
              UpstreamServes, UpstreamDies
<1>4. CASE UNCHANGED vars
  BY <1>4 DEF vars
<1>5. QED BY <1>1, <1>2, <1>3, <1>4 DEF Next, Finished

\* A client that waits for its answers has a dialogue: it receives the reply to each
\* of its requests, whole, once and in order, until the connection is over - whatever
\* servers do, however often its requests are retried, whichever hooks are configured
\* (session.go:14, 142).
THEOREM ImplementsDialogue == Spec /\ Waits => KeepsDialogue
<1>1. Init => Dlg!DInit
  BY DEF Init, Dlg!DInit
<1>2. Types /\ Alone /\ Types' /\ Alone' /\ [Next]_vars => [Dlg!DNext]_(Dlg!dvars)
  <2> SUFFICES ASSUME Types, Alone, Types', Alone', [Next]_vars
               PROVE  [Dlg!DNext]_(Dlg!dvars)
    OBVIOUS
  <2>1. /\ Len(got) \in Nat /\ sent \in Nat /\ sent' \in Nat
        /\ Len(got') <= 2 * sent'
    <3>1. Len(got) \in Nat /\ sent \in Nat
      BY Counts
    <3>2. sent' \in Nat
      BY <3>1, DialogueSteps
    <3>3. cur' \in 0..sent' /\ Len(got') \in Nat
      BY DEF Types, ClientTypes, ServeTypes
    <3>4. Len(got') <= 2 * cur'
      BY DEF Alone, Turn
    <3>5. QED BY <3>1, <3>2, <3>3, <3>4
  <2>2. got' = SubSeq(Dlg!Replies(sent'), 1, Len(got'))
    <3>1. got' \in Seq(Parts') /\ \A i \in 1..Len(got') : got'[i] = Reply(i)
      BY DEF Types, ClientTypes, Alone, Ordered
    <3>2. QED BY <2>1, <3>1, OrderedPrefix
  <2>3. CASE UNCHANGED <<sent, got, sock>>
    BY <2>3 DEF Dlg!dvars
  <2>4. CASE /\ sock = "open" /\ UNCHANGED <<sent, sock>>
             /\ Len(got') \in {Len(got) + 1, Len(got) + 2}
    <3>1. PICK n \in {1, 2} : Len(got') = Len(got) + n
      BY <2>4
    <3>2. Len(got) + n <= 2 * sent /\ got' = SubSeq(Dlg!Replies(sent), 1, Len(got) + n)
      BY <2>1, <2>2, <2>4, <3>1
    <3>3. Dlg!Say
      BY <2>4, <3>2 DEF Dlg!Say
    <3>4. QED BY <3>3 DEF Dlg!DNext
  <2>5. CASE sock = "open" /\ UNCHANGED <<got, sock>> /\ sent' = sent + 1
    BY <2>5 DEF Dlg!DNext, Dlg!Ask
  <2>6. CASE sock' # "open" /\ UNCHANGED <<sent, got>>
    BY <2>6 DEF Dlg!DNext, Dlg!End
  <2>7. QED BY <2>3, <2>4, <2>5, <2>6, DialogueSteps
<1>3. QED BY <1>1, <1>2, AloneInvariant, PTL DEF Spec, KeepsDialogue, Dlg!DSpec

\* At any time such a client has received an initial part of the replies to what it
\* has asked (session.go:14, README.md:23).
THEOREM AnswersInOrder == Spec /\ Waits => []RepliesInOrder
<1>1. Types /\ Alone => RepliesInOrder
  <2> SUFFICES ASSUME Types, Alone PROVE RepliesInOrder
    OBVIOUS
  <2>1. sent \in Nat /\ Len(got) <= 2 * sent
    BY FewConnections DEF Types, ClientTypes, ServeTypes, Alone, Turn
  <2>2. got \in Seq(Parts) /\ \A i \in 1..Len(got) : got[i] = Reply(i)
    BY DEF Types, ClientTypes, Alone, Ordered
  <2>3. QED BY <2>1, <2>2, OrderedPrefix DEF RepliesInOrder
<1>2. QED BY <1>1, AloneInvariant, PTL

-----------------------------------------------------------------------------
(* The end of the connection *)

\* Every step of serve but two leaves alone what the reasons are told from.
LEMMA ServeLeaves ==
  ASSUME Serve, ~TunnelEnds, ~CloseClient
  PROVE  UNCHANGED <<script, sock, cancelled, chClosed, wpc, wcur>> /\ pc' # "done"
<1> USE DEF clientVars, poolVars, writerVars
<1>1. CASE Forward
  BY <1>1 DEF Forward, GetServer, NoServer, BadServer, NewServer, WriteRequest, ReadResponse,
              RemoveServer, BadGateway
<1>2. CASE ~Forward
  BY <1>2 DEF Serve, Top, ReadRequest, ReadFails, UpgradeClient, BufferBody, BadGateway, Route,
              HandleManage, ShortCircuit, Submit, ApplyHooks, Handshake, CloseServers
<1>3. QED BY <1>1, <1>2

\* serve ends for a reason.
LEMMA ServeKeepsReasons ==
  ASSUME Types, Alone, Reasons, Serve
  PROVE  Reasons'
<1> USE DEF clientVars, poolVars, writerVars
<1>1. CASE TunnelEnds \/ CloseClient
  <2>1. sock' = "closed"
    BY <1>1 DEF TunnelEnds, CloseClient
  <2>2. /\ wpc' = wpc /\ (cancelled => cancelled')
        /\ chClosed' => cancelled' \/ chClosed
    BY <1>1 DEF TunnelEnds, CloseClient
  <2>3. QED BY <2>1, <2>2 DEF Reasons, Excused
<1>2. CASE ~TunnelEnds /\ ~CloseClient
  <2>1. UNCHANGED <<script, sock, cancelled, chClosed, wpc>> /\ pc' # "done"
    BY <1>2, ServeLeaves
  <2>2. pc' \in OverPcs => (Excused \/ req.ws \/ (writeCh = <<>> /\ wpc = "idle"))'
    <3>1. CASE Top \/ ReadFails
      BY <3>1 DEF Top, ReadFails, ClientFails, OverPcs, Excused
    <3>2. CASE UpgradeClient \/ Handshake
      <4>1. pc \in HandlePcs /\ writeCh' = writeCh
        BY <3>2 DEF UpgradeClient, Handshake, HandlePcs, QuietPcs, ResponsePcs
      <4>2. writeCh = <<>> /\ wpc \in {"idle", "done"}
        BY <4>1 DEF Alone, WithServe, Writing, Types, WriterTypes
      <4>3. QED BY <2>1, <4>1, <4>2 DEF Reasons, Excused
    <3>3. CASE Submit
      BY <3>3 DEF Submit, OverPcs, req
    <3>4. CASE CloseServers
      <4>1. pc \in OverPcs /\ UNCHANGED <<script, cur, deadline, writeCh>>
        BY <3>4 DEF CloseServers, OverPcs
      <4>2. QED BY <2>1, <4>1 DEF Reasons, Excused, req
    <3>5. CASE ReadRequest \/ BufferBody \/ Route \/ ApplyHooks
      BY <3>5 DEF ReadRequest, BufferBody, BadGateway, Route, HandleManage, ShortCircuit,
                  ApplyHooks, OverPcs
    <3>6. CASE Forward
      BY <3>6 DEF Forward, GetServer, NoServer, BadServer, NewServer, WriteRequest,
                  ReadResponse, RemoveServer, BadGateway, OverPcs
    <3>7. QED BY <1>2, <3>1, <3>2, <3>3, <3>4, <3>5, <3>6 DEF Serve
  <2>3. QED BY <2>1, <2>2 DEF Reasons
<1>3. QED BY <1>1, <1>2

LEMMA OthersKeepReasons ==
  ASSUME Types, Alone, Reasons, Writer \/ Environment \/ UNCHANGED vars
  PROVE  Reasons'
<1> USE DEF clientVars, serveVars, poolVars, writerVars
<1>1. CASE Writer
  <2>1. /\ UNCHANGED <<script, sock, deadline, cur, pc, chClosed>>
        /\ cancelled' = cancelled \/ (cancelled' = TRUE /\ wpc' = "done")
        /\ wpc' = "done" => cancelled' = TRUE \/ wpc = "done" \/ chClosed
        /\ wpc = "done" => wpc' = "done"
        /\ writeCh # <<>> \/ wpc # "idle" \/ chClosed
    BY <1>1 DEF Writer, WriterFrame, WriteLocal, WriteHead, WriteBody, DrainBody, WriterEnds,
                WriterGivesUp
  <2>2. req' = req
    BY <2>1 DEF req
  <2>3. QED BY <2>1, <2>2 DEF Reasons, Excused
<1>2. CASE Environment \/ UNCHANGED vars
  <2>1. /\ UNCHANGED <<script, cur, pc, cancelled, chClosed, wpc, writeCh>>
        /\ sock' = sock \/ sock' = "closed" \/ (sock = "open" /\ sock' = "shut")
        /\ deadline' = deadline \/ deadline' = "expired"
    BY <1>2 DEF Environment, ClientAsks, ClientLeaves, StopCloses, DeadlinePasses, Upstream,
                UpstreamServes, UpstreamDies, vars
  <2>2. req' = req
    BY <2>1 DEF req
  <2>3. QED BY <2>1, <2>2 DEF Reasons, Excused
<1>3. QED BY <1>1, <1>2

\* Where the responses on their way may come from.
LEMMA ResponseTypes ==
  ASSUME Types, Alone
  PROVE  /\ pc = "submit" => entry.up \in 0..Len(ups)
         /\ writeCh # <<>> => writeCh[1].up \in 0..Len(ups)
         /\ Writing => wcur.up \in 1..Len(ups)
<1>1. Len(ups) \in Nat
  BY FewConnections
<1>2. pc = "submit" => Sendable(entry)
  BY DEF Types, Handles
<1>3. writeCh # <<>> => Sendable(writeCh[1])
  BY DEF Types, Handles, Alone, Queued
<1>4. Writing => Sendable(wcur) /\ wcur.up # 0
  BY DEF Types, Handles, Writing
<1>5. QED BY <1>1, <1>2, <1>3, <1>4 DEF Sendable

\* A step that neither closes a connection nor moves a response.
LEMMA OthersKeepSources ==
  ASSUME Types, Alone, Sources, UNCHANGED <<script, cur, pc, entry, writeCh, wpc, wcur>>,
         \A u \in 1..Len(ups) : ups'[u].st = "closed" => ups[u].st = "closed"
  PROVE  Sources'
<1>1. \A u \in 0..Len(ups) : u # 0 => u \in 1..Len(ups)
  BY FewConnections
<1>2. \A e : e.up \in 0..Len(ups) /\ Live(e) => Live(e)'
  BY <1>1 DEF Live
<1>3. req' = req /\ Len(ups) \in Nat
  BY FewConnections DEF req
<1>4. pc' = "submit" => Live(entry)'
  <2>1. PICK e : e = entry
    OBVIOUS
  <2>2. pc = "submit" => Live(e)'
    BY <1>2, <2>1, ResponseTypes DEF Sources
  <2>3. QED BY <2>1, <2>2 DEF Live
<1>5. writeCh' # <<>> /\ pc' \notin {"close", "done"} => Live(writeCh[1])'
  <2>1. PICK e : e = writeCh[1]
    OBVIOUS
  <2>2. writeCh # <<>> /\ pc \notin {"close", "done"} => Live(e)'
    BY <1>2, <2>1, ResponseTypes DEF Sources
  <2>3. QED BY <2>1, <2>2 DEF Live
<1>6. wpc' = "stream" /\ pc' \notin {"close", "done"} => Live(wcur)'
  <2>1. PICK e : e = wcur
    OBVIOUS
  <2>2. wpc = "stream" => e.up \in 0..Len(ups)
    BY <1>3, <2>1, ResponseTypes DEF Writing
  <2>3. wpc = "stream" /\ pc \notin {"close", "done"} => Live(e)'
    BY <1>2, <2>1, <2>2 DEF Sources
  <2>4. QED BY <2>1, <2>3 DEF Live
<1>7. QED BY <1>3, <1>4, <1>5, <1>6 DEF Sources

LEMMA ServeKeepsSources ==
  ASSUME Types, Pool, Alone, Sources, Serve
  PROVE  Sources'
<1> USE DEF clientVars, poolVars, writerVars
<1>1. ASSUME pc \in HandlePcs \cup {"tunnel"}, UNCHANGED <<writeCh, wpc>>,
             pc' = "submit" => Live(entry)' /\ (req'.ws => entry'.up = 0)
      PROVE  Sources'
  BY <1>1 DEF Alone, WithServe, Writing, Sources
<1>2. CASE Top \/ ReadFails
  <2>1. /\ UNCHANGED <<script, cur, ups, writeCh, wpc, wcur>>
        /\ pc \notin {"submit", "close", "done"} /\ pc' \notin {"submit", "close", "done"}
    BY <1>2 DEF Top, ReadFails
  <2>2. QED BY <2>1 DEF Sources, Live, req
<1>3. CASE ReadRequest
  <2>1. /\ UNCHANGED <<sent, got, ups, writeCh, wpc>> /\ cur < sent
        /\ pc' # "submit"
    BY <1>3 DEF ReadRequest
  <2>2. Len(got) = 2 * cur
    BY <2>1, Counts DEF Alone, Turn
  <2>3. writeCh = <<>> /\ ~Writing
    BY <2>2, Counts DEF Alone, Queued, WithWriter
  <2>4. QED BY <2>1, <2>3 DEF Sources, Writing
<1>4. CASE UpgradeClient \/ Handshake \/ TunnelEnds
  <2>1. pc \in HandlePcs \cup {"tunnel"} /\ UNCHANGED <<writeCh, wpc>> /\ pc' # "submit"
    BY <1>4 DEF UpgradeClient, Handshake, TunnelEnds, HandlePcs, QuietPcs, ResponsePcs
  <2>2. QED BY <1>1, <2>1
<1>5. CASE BufferBody \/ Route
  <2>1. pc \in HandlePcs /\ UNCHANGED <<writeCh, wpc>> /\ (pc' = "submit" => entry'.up = 0)
    BY <1>5 DEF BufferBody, BadGateway, Route, HandleManage, ShortCircuit, Local, HandlePcs,
                QuietPcs
  <2>2. QED BY <1>1, <2>1 DEF Live
<1>6. CASE Forward
  <2>1. pc \in HandlePcs
    BY <1>6 DEF Forward, GetServer, WriteRequest, ReadResponse, HandlePcs, QuietPcs, ReadPcs
  <2>2. UNCHANGED <<writeCh, wpc>> /\ (pc' = "submit" => entry' = Local(cur))
    BY <1>6 DEF Forward, GetServer, NoServer, BadServer, NewServer, WriteRequest,
                ReadResponse, RemoveServer, BadGateway
  <2>3. pc' = "submit" => entry'.up = 0
    BY <2>2 DEF Local
  <2>4. QED BY <1>1, <2>1, <2>2, <2>3 DEF Live
<1>7. CASE ApplyHooks
  <2>1. pc = "hooks" /\ pc \in HandlePcs /\ UNCHANGED <<script, cur, writeCh, wpc>>
    BY <1>7 DEF ApplyHooks, HandlePcs, ResponsePcs
  <2>2. entry.up = conn /\ ups[conn].st # "closed" /\ entry \in Entry
    BY <2>1 DEF Alone, WithServe, Pool, UsesPooled, Types, ServeTypes
  <2>3. pc' = "submit" => ~req.ws
    BY <1>7 DEF ApplyHooks
  <2>4. Live(entry)'
    <3>1. CASE UNCHANGED <<entry, ups>>
      BY <2>2, <3>1 DEF Live
    <3>2. ASSUME NEW body, InHand(body) PROVE entry'.up = 0
      BY <2>2, <3>2 DEF InHand, Entry
    <3>3. QED BY <1>7, <3>1, <3>2 DEF ApplyHooks, Live
  <2>5. req' = req
    BY <2>1 DEF req
  <2>6. QED BY <1>1, <2>1, <2>3, <2>4, <2>5
<1>8. CASE Submit
  <2>1. /\ UNCHANGED <<script, cur, ups, wpc, wcur>> /\ pc' \notin {"submit", "close", "done"}
        /\ writeCh' = writeCh \/ writeCh' = Append(writeCh, entry)
        /\ pc = "submit" /\ pc \in HandlePcs
    BY <1>8 DEF Submit, HandlePcs, ResponsePcs
  <2>2. writeCh = <<>> /\ ~Writing /\ Live(entry) /\ (req.ws => entry.up = 0)
    BY <2>1 DEF Alone, WithServe, Sources
  <2>3. PICK e : e = entry
    OBVIOUS
  <2>4. writeCh' = <<>> \/ writeCh'[1] = e
    BY <2>1, <2>2, <2>3
  <2>5. Live(e)' /\ req' = req
    BY <2>1, <2>2, <2>3 DEF Live, req
  <2>6. QED BY <2>1, <2>2, <2>3, <2>4, <2>5 DEF Sources, Writing, Live
<1>9. CASE CloseServers \/ CloseClient
  <2>1. UNCHANGED <<script, cur, writeCh, wpc, wcur>> /\ pc' \in {"close", "done"}
    BY <1>9 DEF CloseServers, CloseClient
  <2>2. QED BY <2>1 DEF Sources, req
<1>10. QED BY <1>2, <1>3, <1>4, <1>5, <1>6, <1>7, <1>8, <1>9 DEF Serve

LEMMA WriterKeepsSources ==
  ASSUME Types, Alone, Sources, Writer
  PROVE  Sources'
<1> USE DEF serveVars
<1>1. UNCHANGED <<script, cur, pc, entry>> /\ req' = req
  BY DEF Writer, WriterFrame, WriteLocal, WriteHead, WriteBody, DrainBody, WriterEnds, req
<1>2. CASE WriteLocal \/ WriteHead
  <2>1. /\ ups' = ups /\ writeCh # <<>> /\ writeCh' = Tail(writeCh)
        /\ \/ wpc' \in {"idle", "drain", "done"}
           \/ wpc' = "stream" /\ Head(writeCh).up # 0 /\ wcur' = Head(writeCh)
    BY <1>2 DEF WriteLocal, WriteHead, WriterGivesUp
  <2>2. Head(writeCh) = writeCh[1] /\ Tail(writeCh) = <<>> /\ pc \in IdlePcs
    BY <2>1, NextResponse, WriterMeansRest
  <2>3. QED BY <1>1, <2>1, <2>2 DEF Sources, Live, IdlePcs, OverPcs
<1>3. CASE WriteBody \/ DrainBody
  <2>1. wpc' \in {"idle", "done"} /\ writeCh' = writeCh /\ Writing
    BY <1>3 DEF WriteBody, DrainBody, WriterGivesUp, Writing
  <2>2. writeCh = <<>> /\ pc \in IdlePcs
    BY <2>1, WriterMeansRest DEF Alone, Queued
  <2>3. QED BY <1>1, <2>1, <2>2 DEF Sources, IdlePcs, OverPcs
<1>4. CASE WriterEnds
  <2>1. ups' = ups /\ writeCh' = writeCh /\ writeCh = <<>> /\ wpc' = "done"
    BY <1>4 DEF WriterEnds
  <2>2. QED BY <1>1, <2>1 DEF Sources, Live
<1>5. QED BY <1>2, <1>3, <1>4 DEF Writer

LEMMA EnvironmentKeepsSources ==
  ASSUME Types, Alone, Sources, Environment \/ UNCHANGED vars
  PROVE  Sources'
<1> USE DEF serveVars, poolVars, writerVars
<1>1. UNCHANGED <<script, cur, pc, entry, writeCh, wpc, wcur>>
  BY DEF Environment, ClientAsks, ClientLeaves, StopCloses, DeadlinePasses, Upstream,
         UpstreamServes, UpstreamDies, vars
<1>2. \A u \in 1..Len(ups) : ups'[u].st = "closed" => ups[u].st = "closed"
  <2>1. CASE UNCHANGED ups
    BY <2>1
  <2>2. ASSUME NEW u \in 1..MaxUps, Upstream(u)
        PROVE  \A w \in 1..Len(ups) : ups'[w].st = "closed" => ups[w].st = "closed"
    BY <2>2, UpstreamEffect DEF Upstream
  <2>3. QED
    BY <2>1, <2>2 DEF Environment, ClientAsks, ClientLeaves, StopCloses, DeadlinePasses, vars
<1>3. QED BY <1>1, <1>2, OthersKeepSources

LEMMA EndInvariant == Spec /\ Waits => [](Types /\ Alone /\ Reasons /\ Sources)
<1>1. Init => Reasons /\ Sources
  BY DEF Init, Reasons, Sources, OverPcs
<1>2. Types /\ Alone /\ Reasons /\ [Next]_vars => Reasons'
  BY ServeKeepsReasons, OthersKeepReasons DEF Next, Finished
<1>3. Types /\ Pool /\ Alone /\ Sources /\ [Next]_vars => Sources'
  BY ServeKeepsSources, WriterKeepsSources, EnvironmentKeepsSources DEF Next, Finished
<1>4. QED BY <1>1, <1>2, <1>3, AloneInvariant, PTL DEF Spec

\* The session does not hang up on a client that waits for its answers while it owes
\* it one, unless a write has failed, the deadline has passed or the request was for
\* a WebSocket (mitm.go:183-220).
THEOREM HangsUpInOrder == Spec /\ Waits => OrderlyEnd
<1>1. Types /\ Alone /\ Reasons /\ Sources /\ [Next]_vars => [HangsUpOwing => req.ws]_vars
  BY DEF HangsUpOwing, CloseClient, Reasons, Excused, OverPcs
<1>2. QED BY <1>1, EndInvariant, PTL DEF Spec, OrderlyEnd

\* Nor does it close the upstream connection from which a response to it is copied,
\* while the client is there and in time (session.go:43-51, 218-226).
THEOREM CutsNoAnswerOff == Spec /\ Waits => NeverCutsOff
<1>1. Types /\ Alone /\ Reasons /\ Sources /\ [Next]_vars
        => [WriteBody /\ ups[wcur.up].st = "closed" => sock # "open" \/ deadline = "expired"]_vars
  <2> SUFFICES ASSUME Types, Alone, Reasons, Sources, WriteBody, ups[wcur.up].st = "closed"
               PROVE  sock # "open" \/ deadline = "expired"
    OBVIOUS
  <2>1. wpc = "stream" /\ wcur.up # 0
    BY DEF WriteBody, Types, Handles
  <2>2. ~req.ws /\ pc \in {"close", "done"}
    BY <2>1 DEF Sources, Live
  <2>3. QED BY <2>1, <2>2 DEF Reasons, Excused, OverPcs
<1>2. QED BY <1>1, EndInvariant, PTL DEF Spec, NeverCutsOff

=============================================================================
