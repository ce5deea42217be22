------------------------------ MODULE Tracker ------------------------------
(***************************************************************************)
(* The request tracker of examples/dev-tool/main.go: every exchange that   *)
(* passes the legacy core is recorded with the bodies of its request and   *)
(* of its response.  A StreamTrackingBody stands between a body and its    *)
(* reader; a goroutine copies through it and keeps the content, another    *)
(* waits for its end or for a timeout.  Requests wait in two maps for      *)
(* their responses, which are paired with them by URL and method, and the  *)
(* history is a slice, bounded by a configuration that may be replaced at  *)
(* any time.                                                               *)
(*                                                                         *)
(* A critical section that nothing can tell apart is one step.             *)
(***************************************************************************)
EXTENDS Integers, Sequences

CONSTANTS
  Exchanges,   \* the requests that pass through the proxy
  Asked,       \* what each of them asks for
  Streams,     \* those answered by an event stream or in chunks
  Watched,     \* those that match an origin rule
  Configs,     \* the configurations; the first one is Start
  Start,
  Pages,       \* bound: the operations of the web page that are used together
  MaxUpdates,  \* bound: how often the configuration is replaced
  NoOne

\* url is the host in the URL, "" inside TLS, where only the Host header names it.
Target == [method : STRING, host : STRING, url : STRING, path : STRING]

\* A route sends a host and some paths to another host; a rewrite sends the
\* paths its expression matches to another path, and to a host unless it is "".
Config == [record : BOOLEAN, max : Nat,
           routes : Seq([host : STRING, paths : SUBSET STRING, to : STRING]),
           rewrites : Seq([id : STRING, paths : SUBSET STRING, path : STRING, to : STRING])]

ASSUME TrackerAssumption ==
  /\ NoOne \notin Exchanges
  /\ Streams \subseteq Exchanges /\ Watched \subseteq Exchanges
  /\ Asked \in [Exchanges -> Target]
  /\ Start \in Configs
  /\ \A c \in Configs : c \in Config
  /\ MaxUpdates \in Nat
  /\ Pages \subseteq SUBSET {"clear", "search", "config"}

VARIABLES
  config, updates, \* dtp.config, and how often it was replaced
  hpc, target,     \* the handler of an exchange: where it is, what it asks for by now
  copy,            \* the goroutine that copies a body
  content, done,   \* StreamTrackingBody: content, isReadDone (and closeChan is closed)
  callbacks,       \* its readDoneCallbacks
  ran,             \* how often each callback has run
  pc,              \* the goroutine that waits for a body, and records a response
  pending, tracked, paired,  \* the tracker's maps; the request found for a response
  rmu,             \* the goroutine that holds recordsMutex while it trims
  hist, arrays,    \* requestRecords: a slice, and the arrays such slices refer to
  page,            \* the operations of the web page that are used
  view, seen,      \* a slice searchRequests has returned, and what it held then
  aborted          \* why the process has died

bodyVars == <<copy, content, done, callbacks, ran>>
trackVars == <<pending, tracked, paired>>
histVars == <<rmu, hist, arrays>>
viewVars == <<page, view, seen>>
confVars == <<config, updates>>
handlerVars == <<hpc, target>>
vars == <<confVars, handlerVars, bodyVars, pc, trackVars, histVars, viewVars, aborted>>

Bodies == Exchanges \X {"request", "response"}
Callbacks == {"flag", "noop"}   \* sets IsReadDone; does nothing (main.go:604)
Record == [of : Exchanges, text : {"none", "read"},
           from : Exchanges \cup {NoOne}, asked : {"none", "read"}]
NoSlice == [arr |-> 0, off |-> 0, len |-> 0]

Init ==
  /\ config = Start /\ updates = 0
  /\ hpc = [x \in Exchanges |-> "idle"] /\ target = Asked
  /\ copy = [b \in Bodies |-> "none"]
  /\ content = [b \in Bodies |-> "none"] /\ done = [b \in Bodies |-> FALSE]
  /\ callbacks = [b \in Bodies |-> {}]
  /\ ran = [b \in Bodies |-> [k \in Callbacks |-> 0]]
  /\ pc = [b \in Bodies |-> "none"]
  /\ pending = {} /\ tracked = {} /\ paired = [x \in Exchanges |-> NoOne]
  /\ rmu = NoOne
  /\ hist = NoSlice /\ arrays = <<>>
  /\ page \in Pages /\ view = NoSlice /\ seen = <<>>
  /\ aborted = "no"

-----------------------------------------------------------------------------
(* The rules: the first one that matches applies *)

Least(I) == CHOOSE i \in I : \A j \in I : i <= j

ApplyRouting(t) ==
  LET rules == config.routes
      hits == {i \in DOMAIN rules : rules[i].host = t.host /\ t.path \in rules[i].paths}
      to == rules[Least(hits)].to
  IN  IF hits = {} THEN t ELSE [t EXCEPT !.host = to, !.url = to]

\* The expressions were compiled when the program started.
Compiled(id) == {i \in DOMAIN Start.rewrites : Start.rewrites[i].id = id}

ApplyRewrite(t) ==
  LET rules == config.rewrites
      hits == {i \in DOMAIN rules :
                 \E j \in Compiled(rules[i].id) : t.path \in Start.rewrites[j].paths}
      rule == rules[Least(hits)]
  IN  IF hits = {} THEN t
      ELSE IF rule.to = "" THEN [t EXCEPT !.path = rule.path]
           ELSE [t EXCEPT !.path = rule.path, !.host = rule.to, !.url = rule.to]

\* What pairing compares: the URL and the method, not the Host header.
Key(x) == <<target[x].method, target[x].url, target[x].path>>

-----------------------------------------------------------------------------
(* StreamTrackingBody *)

\* NewStreamTrackingBody: a pipe, and a goroutine that copies the body into it.
TrackBody(b) == copy' = [copy EXCEPT ![b] = "copying"]

\* OnReadDone for each of K: run it now, or remember it.
OnReadDone(b, K) ==
  \/ /\ done[b]
     /\ ran' = [ran EXCEPT ![b] = [k \in Callbacks |-> IF k \in K THEN @[k] + 1 ELSE @[k]]]
     /\ UNCHANGED callbacks
  \/ /\ ~done[b]
     /\ callbacks' = [callbacks EXCEPT ![b] = @ \cup K]
     /\ UNCHANGED ran

BodyFrame == UNCHANGED <<confVars, handlerVars, trackVars, histVars, viewVars, aborted>>

\* io.Copy returns: the reader has taken everything, or the body or its reader
\* broke off.  For a response nothing tells this from what follows.
CopyReturns(x) ==
  LET b == <<x, "request">> IN
  /\ copy[b] = "copying"
  /\ \E how \in {"whole", "part"} : copy' = [copy EXCEPT ![b] = how]
  /\ BodyFrame /\ UNCHANGED <<content, done, callbacks, ran, pc>>

Ending(b) == copy[b] \in (IF b[2] = "request" THEN {"whole", "part"} ELSE {"copying"})

\* Mark the body as read and run the callbacks.  They run after the unlock, but
\* only set a flag that is nowhere read.
RunCallbacks(b) ==
  /\ done' = [done EXCEPT ![b] = TRUE]
  /\ ran' = [ran EXCEPT ![b] = [k \in Callbacks |-> IF k \in callbacks[b] THEN @[k] + 1 ELSE @[k]]]
  /\ callbacks' = [callbacks EXCEPT ![b] = {}]

\* Mutant: the end is announced before the content is there.
CopyEnds_Early(b) ==
  /\ Ending(b)
  /\ RunCallbacks(b)
  /\ copy' = [copy EXCEPT ![b] = "end"]
  /\ BodyFrame /\ UNCHANGED <<content, pc>>

\* Under the lock: what was read is there, and all who wait are told.
CopyEnds(b) ==
  /\ Ending(b)
  /\ content' = [content EXCEPT ![b] = "read"]
  /\ RunCallbacks(b)
  /\ copy' = [copy EXCEPT ![b] = IF @ = "part" THEN "broken" ELSE "end"]
  /\ BodyFrame /\ UNCHANGED pc

WaiterGoes(b, to) == pc' = [pc EXCEPT ![b] = to]

\* WaitForReadOrTimeout: the body is read ...
WaitEnds(b) ==
  /\ pc[b] = "wait"
  /\ done[b]
  /\ WaiterGoes(b, "past")
  /\ BodyFrame /\ UNCHANGED bodyVars

\* Mutant: the callbacks are not taken out of the list.
MarkReadDone_Keeps(b) ==
  /\ pc[b] = "wait"
  /\ ~done[b]
  /\ done' = [done EXCEPT ![b] = TRUE]
  /\ ran' = [ran EXCEPT ![b] = [k \in Callbacks |-> IF k \in callbacks[b] THEN @[k] + 1 ELSE @[k]]]
  /\ WaiterGoes(b, "past")
  /\ BodyFrame /\ UNCHANGED <<copy, content, callbacks>>

\* Mutant: only streams are given up.
MarkReadDone_StreamsOnly(b) ==
  /\ pc[b] = "wait"
  /\ b[1] \in Streams
  /\ ~done[b]
  /\ RunCallbacks(b)
  /\ WaiterGoes(b, "past")
  /\ BodyFrame /\ UNCHANGED <<copy, content>>

\* ... or the time is over, and MarkReadDone finds that it is not read.
MarkReadDone(b) ==
  /\ pc[b] = "wait"
  /\ ~done[b]
  /\ RunCallbacks(b)
  /\ WaiterGoes(b, "past")
  /\ BodyFrame /\ UNCHANGED <<copy, content>>

-----------------------------------------------------------------------------
(* The handlers of the core, and the two hooks *)

HandlerGoes(x, to) == hpc' = [hpc EXCEPT ![x] = to]
HandlerFrame == UNCHANGED <<confVars, content, done, histVars, viewVars, aborted>>

Records(x) == config.record /\ x \in Watched

\* setupRequestProcessing: apply the rules, and put the tracker around the body.
ProcessRequest(x) ==
  /\ hpc[x] = "idle"
  /\ target' = [target EXCEPT ![x] = ApplyRewrite(ApplyRouting(@))]
  /\ \/ /\ Records(x)
        /\ TrackBody(<<x, "request">>)
        /\ HandlerGoes(x, "store")
     \/ /\ ~Records(x)
        /\ HandlerGoes(x, "forward")
        /\ UNCHANGED copy
  /\ HandlerFrame /\ UNCHANGED <<callbacks, ran, pc, trackVars>>

Searching == {x \in Exchanges : hpc[x] = "search"}

\* The copying goroutine runs already when the callback is set.  tracker.mutex is
\* an RWMutex: who writes waits for those who read.
StorePending(x) ==
  /\ hpc[x] = "store"
  /\ Searching = {}
  /\ OnReadDone(<<x, "request">>, {"flag"})
  /\ pending' = pending \cup {x}
  /\ WaiterGoes(<<x, "request">>, "wait")
  /\ HandlerGoes(x, "forward")
  /\ HandlerFrame /\ UNCHANGED <<target, copy, tracked, paired>>

\* The goroutine of a request moves it, once its body is read or given up.
Move(x) ==
  /\ pc[<<x, "request">>] = "past"
  /\ Searching = {}
  /\ tracked' = tracked \cup {x}
  /\ pending' = pending \ {x}
  /\ WaiterGoes(<<x, "request">>, "end")
  /\ HandlerFrame /\ UNCHANGED <<handlerVars, copy, callbacks, ran, paired>>

\* The server does not answer, or is never asked.
ForwardFails(x) ==
  /\ hpc[x] = "forward"
  /\ HandlerGoes(x, "end")
  /\ HandlerFrame
  /\ UNCHANGED <<target, copy, callbacks, ran, pc, trackVars>>

\* The whole request has been written, and the server answers.
ProcessResponse(x) ==
  /\ hpc[x] = "forward"
  /\ copy[<<x, "request">>] \in {"none", "whole", "end"}
  /\ HandlerGoes(x, IF Records(x) THEN "search" ELSE "end")
  /\ HandlerFrame
  /\ UNCHANGED <<target, copy, callbacks, ran, pc, trackVars>>

\* Mutant: the first request that waits is taken.
FindRequest_Any(x) ==
  /\ hpc[x] = "search"
  /\ \/ \E y \in pending : paired' = [paired EXCEPT ![x] = y]
     \/ pending = {} /\ UNCHANGED paired
  /\ TrackBody(<<x, "response">>)
  /\ HandlerGoes(x, "flagResponse")
  /\ HandlerFrame /\ UNCHANGED <<target, callbacks, ran, pc, pending, tracked>>

\* Under the read lock: a request that waits and looks the same.  Then put the
\* tracker around the body of the response.
FindRequest(x) ==
  /\ hpc[x] = "search"
  /\ LET alike == {y \in pending : Key(y) = Key(x)}
     IN  \/ \E y \in alike : paired' = [paired EXCEPT ![x] = y]
         \/ alike = {} /\ UNCHANGED paired
  /\ TrackBody(<<x, "response">>)
  /\ HandlerGoes(x, "flagResponse")
  /\ HandlerFrame /\ UNCHANGED <<target, callbacks, ran, pc, pending, tracked>>

\* A response that is no stream gets a callback that does nothing, too.
FlagResponse(x) ==
  /\ hpc[x] = "flagResponse"
  /\ OnReadDone(<<x, "response">>, IF x \in Streams THEN {"flag"} ELSE Callbacks)
  /\ WaiterGoes(<<x, "response">>, "wait")
  /\ HandlerGoes(x, "end")
  /\ HandlerFrame /\ UNCHANGED <<target, copy, trackVars>>

-----------------------------------------------------------------------------
(* Recording a response *)

Slice(s) == IF s.len = 0 THEN <<>> ELSE SubSeq(arrays[s.arr], s.off + 1, s.off + s.len)

\* append: write behind the slice if its array has room, else move it.
AppendRecord(r) ==
  \/ /\ hist.arr # 0
     /\ arrays' = [arrays EXCEPT ![hist.arr] = Append(SubSeq(@, 1, hist.off + hist.len), r)]
     /\ hist' = [hist EXCEPT !.len = @ + 1]
  \/ /\ arrays' = Append(arrays, Append(Slice(hist), r))
     /\ hist' = [arr |-> Len(arrays) + 1, off |-> 0, len |-> hist.len + 1]

\* The request found for x may wait still, or have moved, or be gone.
Match(x) == IF paired[x] \in pending \cup tracked THEN paired[x] ELSE NoOne

NewRecord(x) ==
  [of |-> x, text |-> content[<<x, "response">>], from |-> Match(x),
   asked |-> IF Match(x) = NoOne THEN "none" ELSE content[<<Match(x), "request">>]]

\* It is deleted from its map under the read lock; the runtime ends the program
\* if it notices that another goroutine walks through the map meanwhile.
TakeRequest(x) ==
  /\ pending' = pending \ {Match(x)}
  /\ tracked' = IF Match(x) \in pending THEN tracked ELSE tracked \ {Match(x)}
  /\ UNCHANGED paired
  /\ \/ UNCHANGED aborted
     \/ Match(x) \in pending /\ Searching # {} /\ aborted' = "map"

RecordFrame == UNCHANGED <<confVars, handlerVars, bodyVars, viewVars>>

\* Mutant: the lock is given back before the history is cut.
AddRecord_Unlocks(x) ==
  /\ pc[<<x, "response">>] = "past"
  /\ rmu = NoOne
  /\ TakeRequest(x)
  /\ AppendRecord(NewRecord(x))
  /\ WaiterGoes(<<x, "response">>, IF hist'.len > config.max THEN "trim" ELSE "end")
  /\ UNCHANGED rmu
  /\ RecordFrame

\* Under recordsMutex: find the request, add the record, and look whether there
\* are too many now (main.go:656) ...
AddRecord(x) ==
  /\ pc[<<x, "response">>] = "past"
  /\ rmu = NoOne
  /\ TakeRequest(x)
  /\ AppendRecord(NewRecord(x))
  /\ IF hist'.len > config.max
     THEN rmu' = x /\ WaiterGoes(<<x, "response">>, "trim")
     ELSE rmu' = NoOne /\ WaiterGoes(<<x, "response">>, "end")
  /\ RecordFrame

\* ... then keep the last ones.  The configuration is read again: more may be
\* allowed by now than there are, and a negative bound ends the program.
TrimHistory(x) ==
  /\ pc[<<x, "response">>] = "trim"
  /\ \/ /\ hist.len >= config.max
        /\ hist' = [hist EXCEPT !.off = @ + (hist.len - config.max), !.len = config.max]
        /\ rmu' = NoOne
        /\ WaiterGoes(<<x, "response">>, "end")
        /\ UNCHANGED aborted
     \/ /\ hist.len < config.max
        /\ aborted' = "slice"
        /\ UNCHANGED <<hist, rmu, pc>>
  /\ RecordFrame /\ UNCHANGED <<trackVars, arrays>>

\* Mutant: the array is used again.
ClearRecords_Reuses ==
  /\ "clear" \in page
  /\ rmu = NoOne
  /\ hist' = [hist EXCEPT !.off = 0, !.len = 0]
  /\ UNCHANGED <<confVars, handlerVars, bodyVars, pc, trackVars, rmu, arrays, viewVars, aborted>>

\* POST /api/clear-requests: a new slice.
ClearRecords ==
  /\ "clear" \in page
  /\ rmu = NoOne
  /\ hist' = NoSlice
  /\ UNCHANGED <<confVars, handlerVars, bodyVars, pc, trackVars, rmu, arrays, viewVars, aborted>>

\* GET /api/requests: the slice is returned as it is, and written out after the unlock.
SearchRequests ==
  /\ "search" \in page /\ view = NoSlice
  /\ rmu = NoOne
  /\ view' = hist /\ seen' = Slice(hist)
  /\ UNCHANGED <<page, confVars, handlerVars, bodyVars, pc, trackVars, histVars, aborted>>

\* POST /api/config: another configuration, without a lock.
UpdateConfig ==
  /\ "config" \in page /\ updates < MaxUpdates
  /\ config' \in Configs \ {config}
  /\ updates' = updates + 1
  /\ UNCHANGED <<handlerVars, bodyVars, pc, trackVars, histVars, viewVars, aborted>>

-----------------------------------------------------------------------------

BodyStep(b) == CopyEnds(b) \/ WaitEnds(b) \/ MarkReadDone(b)

HandlerStep(x) == StorePending(x) \/ FindRequest(x) \/ FlagResponse(x)

RecordStep(x) == AddRecord(x) \/ TrimHistory(x)

Environment(x) == CopyReturns(x) \/ ProcessRequest(x) \/ ForwardFails(x) \/ ProcessResponse(x)

Next ==
  /\ aborted = "no"
  /\ \/ \E b \in Bodies : BodyStep(b)
     \/ \E x \in Exchanges : Environment(x) \/ HandlerStep(x) \/ Move(x) \/ RecordStep(x)
     \/ ClearRecords \/ SearchRequests \/ UpdateConfig

Spec == Init /\ [][Next]_vars

\* While some goroutine can run, one does.  A timer fires, whatever becomes of the body.
FairSpec ==
  /\ Spec
  /\ WF_vars(/\ aborted = "no"
             /\ \/ \E b \in Bodies : BodyStep(b)
                \/ \E x \in Exchanges : HandlerStep(x) \/ Move(x) \/ RecordStep(x))

-----------------------------------------------------------------------------
(* Properties *)

\* Every variable has its type.
TypeOK ==
  /\ config \in Configs /\ updates \in 0..MaxUpdates
  /\ hpc \in [Exchanges -> {"idle", "store", "forward", "search", "flagResponse", "end"}]
  /\ DOMAIN target = Exchanges
  /\ copy \in [Bodies -> {"none", "copying", "whole", "part", "end", "broken"}]
  /\ content \in [Bodies -> {"none", "read"}] /\ done \in [Bodies -> BOOLEAN]
  /\ callbacks \in [Bodies -> SUBSET Callbacks]
  /\ ran \in [Bodies -> [Callbacks -> Nat]]
  /\ pc \in [Bodies -> {"none", "wait", "past", "trim", "end"}]
  /\ pending \subseteq Exchanges /\ tracked \subseteq Exchanges
  /\ paired \in [Exchanges -> Exchanges \cup {NoOne}]
  /\ rmu \in Exchanges \cup {NoOne}
  /\ hist \in [arr : Nat, off : Nat, len : Nat] /\ hist.arr <= Len(arrays)
  /\ arrays \in Seq(Seq(Record))
  /\ page \in Pages
  /\ view \in [arr : Nat, off : Nat, len : Nat] /\ seen \in Seq(Record)
  /\ aborted \in {"no", "map", "slice"}

\* A callback of a body runs once, though the end of the body and the timeout
\* race for the list, and OnReadDone may come before, between or after them.
CallbacksOnce == \A b \in Bodies, k \in Callbacks : ran[b][k] <= 1

\* What waits for a body goes on when its content is there, or when the time is
\* over: a response is recorded without its body only while the body is still on its way.
WholeOrLate ==
  [][\A x \in Exchanges :
       LET b == <<x, "response">>
       IN  pc[b] = "past" /\ pc'[b] # "past" /\ content[b] = "none" => copy[b] = "copying"]_vars

\* A response is recorded with a request for the same URL and method, or with none.
KeptApart ==
  \A i \in 1..hist.len :
    LET r == Slice(hist)[i] IN r.from # NoOne => Key(r.from) = Key(r.of)

\* Recording leaves no more than max_request_history records, whatever the
\* configuration was when it began (README.md:236).
HistoryBounded ==
  [][pc' # pc /\ hist' # hist /\ rmu' = NoOne => hist'.len <= config.max]_vars

\* The records that a search has returned do not change while they are written
\* out without the lock, though the history goes on, is trimmed and is cleared.
ViewIsStable == Slice(view) = seen

\* Cutting the history down does not end the program, unless the configuration
\* is replaced meanwhile.
TrimIsSafe == aborted = "slice" => updates > 0

Aborted == aborted # "no"

\* Nothing is left behind: in the end no request waits in the map for a body that
\* never ends, and every response that was to be recorded has been, whatever
\* became of its body.
AllIsRecorded ==
  <>[](\/ Aborted
       \/ /\ pending = {}
          /\ \A x \in Exchanges : /\ hpc[x] \in {"idle", "forward", "end"}
                                  /\ pc[<<x, "response">>] \in {"none", "end"})

=============================================================================
