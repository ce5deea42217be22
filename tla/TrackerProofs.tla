---------------------------- MODULE TrackerProofs ----------------------------
(* Theorems about Tracker, for any exchanges, rules and configurations. *)
EXTENDS Tracker, TLAPS

\* The handler has not yet called OnReadDone for a body.
Unannounced(b) ==
  hpc[b[1]] \in (IF b[2] = "request" THEN {"idle", "store"}
                 ELSE {"idle", "store", "forward", "search", "flagResponse"})

\* What CallbacksOnce rests on: a callback that is remembered has not run, none is
\* remembered once the body is done, and OnReadDone is called once for a body.
CallbackInv ==
  /\ callbacks \in [Bodies -> SUBSET Callbacks]
  /\ ran \in [Bodies -> [Callbacks -> Nat]]
  /\ done \in [Bodies -> BOOLEAN]
  /\ hpc \in [Exchanges -> {"idle", "store", "forward", "search", "flagResponse", "end"}]
  /\ \A b \in Bodies :
       /\ \A k \in callbacks[b] : ran[b][k] = 0
       /\ done[b] => callbacks[b] = {}
       /\ Unannounced(b) => callbacks[b] = {} /\ \A k \in Callbacks : ran[b][k] = 0
  /\ CallbacksOnce

LEMMA CallbackInit == Init => CallbackInv
  BY DEF Init, CallbackInv, CallbacksOnce, Callbacks

\* The end of a body, or the timeout, runs what is remembered and forgets it.
LEMMA RunsOnce ==
  ASSUME CallbackInv, NEW b \in Bodies, RunCallbacks(b), UNCHANGED hpc
  PROVE  CallbackInv'
  <1> USE DEF CallbackInv
  <1> DEFINE r == [k \in Callbacks |-> IF k \in callbacks[b] THEN ran[b][k] + 1 ELSE ran[b][k]]
  <1>1. /\ done' = [done EXCEPT ![b] = TRUE] /\ ran' = [ran EXCEPT ![b] = r]
        /\ callbacks' = [callbacks EXCEPT ![b] = {}]
        BY DEF RunCallbacks
  <1>2. r \in [Callbacks -> Nat] /\ \A k \in Callbacks : r[k] <= 1
        BY DEF CallbacksOnce
  <1>3. Unannounced(b) => \A k \in Callbacks : r[k] = 0
        OBVIOUS
  <1> HIDE DEF r
  <1>4. /\ callbacks' \in [Bodies -> SUBSET Callbacks] /\ done' \in [Bodies -> BOOLEAN]
        /\ ran' \in [Bodies -> [Callbacks -> Nat]]
        BY <1>1, <1>2
  <1>5. \A c \in Bodies : Unannounced(c)' <=> Unannounced(c)
        BY DEF Unannounced
  <1>6. CallbacksOnce'
        BY <1>1, <1>2 DEF CallbacksOnce
  <1> QED
      BY <1>1, <1>3, <1>4, <1>5, <1>6

\* A handler announces its interest in a body, and goes on.
LEMMA AnnouncesOnce ==
  ASSUME CallbackInv, NEW x \in Exchanges, NEW b \in {<<x, "request">>, <<x, "response">>},
         Unannounced(b), NEW K \in SUBSET Callbacks, OnReadDone(b, K), UNCHANGED done,
         NEW to \in {"forward", "end"}, hpc' = [hpc EXCEPT ![x] = to],
         b = <<x, "response">> => to = "end"
  PROVE  CallbackInv'
  <1> USE DEF CallbackInv
  <1>1. b \in Bodies /\ b[1] = x
        BY DEF Bodies
  <1>2. /\ hpc' \in [Exchanges -> {"idle", "store", "forward", "search", "flagResponse", "end"}]
        /\ \A c \in Bodies : Unannounced(c)' => Unannounced(c) /\ c # b
    <2>1. ASSUME NEW c \in Bodies, Unannounced(c)'
          PROVE  Unannounced(c) /\ c # b
      <3>1. c[1] \in Exchanges /\ c[2] \in {"request", "response"} /\ c = <<c[1], c[2]>>
            BY DEF Bodies
      <3> QED
          BY <1>1, <2>1, <3>1 DEF Unannounced
    <2> QED
        BY <2>1
  <1>3. CASE done[b]
    <2> DEFINE r == [k \in Callbacks |-> IF k \in K THEN ran[b][k] + 1 ELSE ran[b][k]]
    <2>1. ran' = [ran EXCEPT ![b] = r] /\ callbacks' = callbacks /\ callbacks[b] = {}
          BY <1>1, <1>3 DEF OnReadDone
    <2>2. r \in [Callbacks -> Nat] /\ \A k \in Callbacks : r[k] <= 1
          BY <1>1
    <2> HIDE DEF r
    <2>3. ran' \in [Bodies -> [Callbacks -> Nat]] /\ \A c \in Bodies : c # b => ran'[c] = ran[c]
          BY <2>1, <2>2
    <2>4. CallbacksOnce'
          BY <1>1, <2>1, <2>2 DEF CallbacksOnce
    <2> QED
        BY <1>1, <1>2, <2>1, <2>3, <2>4
  <1>4. CASE ~done[b]
    <2>1. ran' = ran /\ callbacks' = [callbacks EXCEPT ![b] = callbacks[b] \cup K]
          BY <1>1, <1>4 DEF OnReadDone
    <2>2. callbacks' \in [Bodies -> SUBSET Callbacks]
          BY <1>1, <2>1
    <2>3. CallbacksOnce'
          BY <2>1 DEF CallbacksOnce
    <2> QED
        BY <1>1, <1>2, <1>4, <2>1, <2>2, <2>3
  <1> QED
      BY <1>3, <1>4

\* Only what ends a body, and the two announcements, touch callbacks.
LEMMA CallbackStep == CallbackInv /\ [Next]_vars => CallbackInv'
  <1> SUFFICES ASSUME CallbackInv, [Next]_vars
               PROVE  CallbackInv'
      OBVIOUS
  <1>1. ASSUME UNCHANGED <<callbacks, ran, done, hpc>>
        PROVE  CallbackInv'
        BY <1>1 DEF CallbackInv, CallbacksOnce, Unannounced
  <1>2. ASSUME NEW b \in Bodies, BodyStep(b)
        PROVE  CallbackInv'
    <2>1. CASE CopyEnds(b) \/ MarkReadDone(b)
          BY <2>1, RunsOnce DEF CopyEnds, MarkReadDone, BodyFrame, handlerVars
    <2>2. CASE WaitEnds(b)
          BY <1>1, <2>2 DEF WaitEnds, BodyFrame, bodyVars, handlerVars
    <2> QED
        BY <1>2, <2>1, <2>2 DEF BodyStep
  <1>3. ASSUME NEW x \in Exchanges, ProcessRequest(x) \/ ForwardFails(x) \/ ProcessResponse(x) \/ FindRequest(x)
        PROVE  CallbackInv'
    <2>1. /\ UNCHANGED <<callbacks, ran, done>>
          /\ \E to \in {"store", "forward", "search", "flagResponse", "end"} :
               /\ hpc' = [hpc EXCEPT ![x] = to]
               /\ to \in {"store", "forward"} => hpc[x] = "idle"
               /\ to \in {"search", "flagResponse"} => hpc[x] \in {"forward", "search"}
          BY <1>3 DEF ProcessRequest, ForwardFails, ProcessResponse, FindRequest, HandlerGoes,
                      HandlerFrame
    <2>2. \A b \in Bodies : Unannounced(b)' => Unannounced(b)
      <3>1. ASSUME NEW b \in Bodies, Unannounced(b)'
            PROVE  Unannounced(b)
        <4>1. b[1] \in Exchanges
              BY DEF Bodies
        <4> QED
            BY <2>1, <3>1, <4>1 DEF Unannounced, CallbackInv
      <3> QED
          BY <3>1
    <2> QED
        BY <2>1, <2>2 DEF CallbackInv, CallbacksOnce
  <1>4. ASSUME NEW x \in Exchanges, StorePending(x)
        PROVE  CallbackInv'
    <2>1. Unannounced(<<x, "request">>)
          BY <1>4 DEF StorePending, Unannounced
    <2> QED
        BY <1>4, <2>1, AnnouncesOnce DEF StorePending, HandlerGoes, HandlerFrame, Callbacks
  <1>5. ASSUME NEW x \in Exchanges, FlagResponse(x)
        PROVE  CallbackInv'
    <2>1. Unannounced(<<x, "response">>)
          BY <1>5 DEF FlagResponse, Unannounced
    <2> QED
        BY <1>5, <2>1, AnnouncesOnce DEF FlagResponse, HandlerGoes, HandlerFrame, Callbacks
  <1>6. ASSUME NEW x \in Exchanges, CopyReturns(x) \/ Move(x) \/ RecordStep(x)
        PROVE  CallbackInv'
        BY <1>1, <1>6 DEF CopyReturns, Move, RecordStep, AddRecord, TrimHistory, RecordFrame,
                          BodyFrame, HandlerFrame, handlerVars, bodyVars
  <1>7. CASE ClearRecords \/ SearchRequests \/ UpdateConfig \/ UNCHANGED vars
        BY <1>1, <1>7 DEF ClearRecords, SearchRequests, UpdateConfig, vars, handlerVars, bodyVars
  <1> QED
      BY <1>2, <1>3, <1>4, <1>5, <1>6, <1>7 DEF Next, Environment, HandlerStep

\* Whichever of the end of a body, its timeout and OnReadDone comes first, a
\* callback runs once (main.go:133-163).
THEOREM EachCallbackOnce == Spec => []CallbacksOnce
  <1>1. CallbackInv => CallbacksOnce
        BY DEF CallbackInv
  <1> QED
      BY <1>1, CallbackInit, CallbackStep, PTL DEF Spec

-----------------------------------------------------------------------------

\* The goroutine that trims has the lock, and, unless the configuration has been
\* replaced, still finds too many records.
TrimInv ==
  /\ config \in Configs /\ updates \in Nat
  /\ hist \in [arr : Nat, off : Nat, len : Nat]
  /\ pc \in [Bodies -> {"none", "wait", "past", "trim", "end"}]
  /\ \A x \in Exchanges :
       /\ pc[<<x, "request">>] # "trim"
       /\ pc[<<x, "response">>] = "trim" =>
            rmu = x /\ (updates > 0 \/ hist.len > config.max)
  /\ TrimIsSafe

LEMMA ConfigBound == \A c \in Configs : c.max \in Nat
  BY TrackerAssumption DEF Config

LEMMA TrimInit == Init => TrimInv
  BY TrackerAssumption DEF Init, TrimInv, TrimIsSafe, NoSlice, Bodies

\* AddRecord starts the trimming, TrimHistory ends it; meanwhile nobody else
\* touches the history.
LEMMA TrimStep == TrimInv /\ [Next]_vars => TrimInv'
  <1> SUFFICES ASSUME TrimInv, [Next]_vars
               PROVE  TrimInv'
      OBVIOUS
  <1> USE TrackerAssumption DEF TrimInv
  <1>0. \A x \in Exchanges : <<x, "request">> \in Bodies /\ <<x, "response">> \in Bodies
        BY DEF Bodies
  <1>1. ASSUME UNCHANGED <<config, updates, hist, rmu, aborted>>,
               pc' \in [Bodies -> {"none", "wait", "past", "trim", "end"}],
               \A b \in Bodies : pc'[b] = "trim" => pc[b] = "trim"
        PROVE  TrimInv'
        BY <1>0, <1>1 DEF TrimIsSafe
  <1>2. ASSUME NEW b \in Bodies, BodyStep(b)
        PROVE  TrimInv'
    <2>1. /\ UNCHANGED <<config, updates, hist, rmu, aborted>>
          /\ pc' = pc \/ pc' = [pc EXCEPT ![b] = "past"]
          BY <1>2 DEF BodyStep, CopyEnds, WaitEnds, MarkReadDone, WaiterGoes, BodyFrame,
                      confVars, histVars
    <2> QED
        BY <1>1, <2>1
  <1>3. ASSUME NEW x \in Exchanges, Environment(x) \/ HandlerStep(x) \/ Move(x)
        PROVE  TrimInv'
    <2>1. /\ UNCHANGED <<config, updates, hist, rmu, aborted>>
          /\ \/ pc' = pc
             \/ \E b \in Bodies, to \in {"wait", "end"} : pc' = [pc EXCEPT ![b] = to]
          BY <1>0, <1>3 DEF Environment, CopyReturns, ProcessRequest, ForwardFails,
                            ProcessResponse, HandlerStep, StorePending, FindRequest,
                            FlagResponse, Move, WaiterGoes, BodyFrame, HandlerFrame,
                            confVars, histVars
    <2> QED
        BY <1>1, <2>1
  <1>4. ASSUME NEW x \in Exchanges, AddRecord(x)
        PROVE  TrimInv'
    <2>1. /\ UNCHANGED <<config, updates>> /\ rmu = NoOne
          /\ \/ hist'.len > config.max /\ rmu' = x /\ pc' = [pc EXCEPT ![<<x, "response">>] = "trim"]
             \/ rmu' = NoOne /\ pc' = [pc EXCEPT ![<<x, "response">>] = "end"]
          /\ aborted' \in {aborted, "map"}
          BY <1>4 DEF AddRecord, TakeRequest, RecordFrame, WaiterGoes, confVars
    <2>2. hist' \in [arr : Nat, off : Nat, len : Nat]
      <3>1. CASE hist' = [hist EXCEPT !.len = @ + 1]
            BY <3>1
      <3>2. CASE hist' = [arr |-> Len(arrays) + 1, off |-> 0, len |-> hist.len + 1]
            BY <3>2
      <3> QED
          BY <1>4, <3>1, <3>2 DEF AddRecord, AppendRecord
    <2>3. \A y \in Exchanges : pc[<<y, "response">>] # "trim"
          BY <2>1
    <2>4. TrimIsSafe'
          BY <2>1 DEF TrimIsSafe
    <2>5. CASE hist'.len > config.max /\ rmu' = x /\ pc' = [pc EXCEPT ![<<x, "response">>] = "trim"]
          BY <1>0, <2>1, <2>2, <2>3, <2>4, <2>5
    <2>6. CASE rmu' = NoOne /\ pc' = [pc EXCEPT ![<<x, "response">>] = "end"]
          BY <1>0, <2>1, <2>2, <2>3, <2>4, <2>6
    <2> QED
        BY <2>1, <2>5, <2>6
  <1>5. ASSUME NEW x \in Exchanges, TrimHistory(x)
        PROVE  TrimInv'
    <2>1. /\ UNCHANGED <<config, updates>> /\ rmu = x /\ config.max \in Nat
          /\ updates > 0 \/ hist.len > config.max
          BY <1>5, ConfigBound DEF TrimHistory, RecordFrame, confVars
    <2> hist.off \in Nat /\ hist.len \in Nat
        OBVIOUS
    <2>2. \A y \in Exchanges : pc[<<y, "response">>] = "trim" => y = x
          BY <2>1
    <2>3. CASE hist.len >= config.max
      <3>1. /\ hist' = [hist EXCEPT !.off = @ + (hist.len - config.max), !.len = config.max]
            /\ rmu' = NoOne /\ pc' = [pc EXCEPT ![<<x, "response">>] = "end"] /\ aborted' = aborted
            BY <1>5, <2>1, <2>3 DEF TrimHistory, WaiterGoes
      <3>2. hist' \in [arr : Nat, off : Nat, len : Nat]
        <4> DEFINE o == hist.off + (hist.len - config.max)
        <4>1. o \in Nat
              BY <2>1, <2>3
        <4>2. hist' = [hist EXCEPT !.off = o, !.len = config.max]
              BY <3>1
        <4> HIDE DEF o
        <4> QED
            BY <2>1, <4>1, <4>2
      <3> QED
          BY <1>0, <2>1, <2>2, <3>1, <3>2 DEF TrimIsSafe
    <2>4. CASE hist.len < config.max
      <3>1. aborted' = "slice" /\ UNCHANGED <<hist, rmu, pc>> /\ updates > 0
        <4>1. ~(hist.len >= config.max) /\ ~(hist.len > config.max)
              BY <2>1, <2>4
        <4> QED
            BY <1>5, <2>1, <4>1 DEF TrimHistory
      <3> QED
          BY <2>1, <3>1 DEF TrimIsSafe
    <2> QED
        BY <2>1, <2>3, <2>4
  <1>6. CASE ClearRecords
    <2>1. UNCHANGED <<config, updates, rmu, aborted, pc>> /\ rmu = NoOne /\ hist' = NoSlice
          BY <1>6 DEF ClearRecords, confVars
    <2> QED
        BY <2>1 DEF NoSlice, TrimIsSafe
  <1>7. CASE SearchRequests \/ UNCHANGED vars
        BY <1>1, <1>7 DEF SearchRequests, vars, confVars, histVars
  <1>8. CASE UpdateConfig
    <2>1. config' \in Configs /\ updates' = updates + 1 /\ UNCHANGED <<hist, rmu, aborted, pc>>
          BY <1>8 DEF UpdateConfig, histVars
    <2> QED
        BY <2>1 DEF TrimIsSafe
  <1> QED
      BY <1>2, <1>3, <1>4, <1>5, <1>6, <1>7, <1>8 DEF Next, RecordStep

\* Only a configuration that is replaced between the two reads of its bound
\* (main.go:656-657) makes the slice expression panic.
THEOREM TrimSafe == Spec => []TrimIsSafe
  <1>1. TrimInv => TrimIsSafe
        BY DEF TrimInv
  <1> QED
      BY <1>1, TrimInit, TrimStep, PTL DEF Spec

\* Recording leaves the history within the bound (main.go:655-658).
THEOREM HistoryWithinBound == Spec => HistoryBounded
  <1> DEFINE Bounded == pc' # pc /\ hist' # hist /\ rmu' = NoOne => hist'.len <= config.max
  <1>1. TrimInv /\ [Next]_vars => [Bounded]_vars
    <2> SUFFICES ASSUME TrimInv, Next
                 PROVE  Bounded
        OBVIOUS
    <2> USE TrackerAssumption DEF TrimInv
    <2>1. ASSUME NEW b \in Bodies, BodyStep(b)
          PROVE  hist' = hist
          BY <2>1 DEF BodyStep, CopyEnds, WaitEnds, MarkReadDone, BodyFrame, histVars
    <2>2. ASSUME NEW x \in Exchanges, Environment(x) \/ HandlerStep(x) \/ Move(x)
          PROVE  hist' = hist
          BY <2>2 DEF Environment, CopyReturns, ProcessRequest, ForwardFails, ProcessResponse,
                      HandlerStep, StorePending, FindRequest, FlagResponse, Move, BodyFrame,
                      HandlerFrame, histVars
    <2>3. ASSUME NEW x \in Exchanges, AddRecord(x)
          PROVE  Bounded
      <3>1. config.max \in Nat
            BY ConfigBound
      <3>2. hist'.len = hist.len + 1
            BY <2>3 DEF AddRecord, AppendRecord
      <3>3. rmu' = NoOne => ~(hist'.len > config.max)
            BY <2>3 DEF AddRecord
      <3> QED
          BY <3>1, <3>2, <3>3
    <2>4. ASSUME NEW x \in Exchanges, TrimHistory(x)
          PROVE  Bounded
      <3>1. CASE UNCHANGED hist
            BY <3>1
      <3>2. CASE hist' = [hist EXCEPT !.off = @ + (hist.len - config.max), !.len = config.max]
        <4>1. hist'.len = config.max /\ config.max \in Nat
              BY <3>2, ConfigBound
        <4> QED
            BY <4>1
      <3> QED
          BY <2>4, <3>1, <3>2 DEF TrimHistory
    <2>5. ASSUME ClearRecords \/ SearchRequests \/ UpdateConfig
          PROVE  pc' = pc
          BY <2>5 DEF ClearRecords, SearchRequests, UpdateConfig
    <2> QED
        BY <2>1, <2>2, <2>3, <2>4, <2>5 DEF Next, RecordStep
  <1> QED
      BY <1>1, TrimInit, TrimStep, PTL DEF Spec, HistoryBounded
-----------------------------------------------------------------------------

\* The types of what is no slice.
PartTypes ==
  /\ updates \in 0..MaxUpdates
  /\ DOMAIN target = Exchanges
  /\ copy \in [Bodies -> {"none", "copying", "whole", "part", "end", "broken"}]
  /\ content \in [Bodies -> {"none", "read"}]
  /\ pending \subseteq Exchanges /\ tracked \subseteq Exchanges
  /\ paired \in [Exchanges -> Exchanges \cup {NoOne}]
  /\ rmu \in Exchanges \cup {NoOne}
  /\ page \in Pages
  /\ aborted \in {"no", "map", "slice"}

LEMMA PartInit == Init => PartTypes
  <1> SUFFICES ASSUME Init PROVE PartTypes
      OBVIOUS
  <1>1. DOMAIN target = Exchanges
        BY TrackerAssumption DEF Init
  <1> QED
      BY <1>1, TrackerAssumption DEF Init, PartTypes

LEMMA PartStep == PartTypes /\ [Next]_vars => PartTypes'
  <1> SUFFICES ASSUME PartTypes, [Next]_vars
               PROVE  PartTypes'
      OBVIOUS
  <1> DEFINE rest == <<pending, tracked, paired, rmu, page, aborted>>
  <1>1. ASSUME NEW b \in Bodies, BodyStep(b)
        PROVE  PartTypes'
    <2>1. UNCHANGED <<updates, target, rest>>
          BY <1>1 DEF BodyStep, CopyEnds, WaitEnds, MarkReadDone, BodyFrame, confVars, handlerVars,
                      trackVars, histVars, viewVars
    <2>2. /\ content' = content \/ content' = [content EXCEPT ![b] = "read"]
          /\ copy' = copy \/ \E to \in {"broken", "end"} : copy' = [copy EXCEPT ![b] = to]
          BY <1>1 DEF BodyStep, CopyEnds, WaitEnds, MarkReadDone, bodyVars
    <2> QED
        BY <2>1, <2>2 DEF PartTypes
  <1>2. ASSUME NEW x \in Exchanges, CopyReturns(x)
        PROVE  PartTypes'
        BY <1>2 DEF CopyReturns, BodyFrame, confVars, handlerVars, trackVars, histVars, viewVars,
                    PartTypes
  <1>3. ASSUME NEW x \in Exchanges, ProcessRequest(x)
        PROVE  PartTypes'
    <2>1. UNCHANGED <<updates, content, rest>>
          BY <1>3 DEF ProcessRequest, HandlerFrame, confVars, trackVars, histVars, viewVars
    <2>2. copy' = copy \/ copy' = [copy EXCEPT ![<<x, "request">>] = "copying"]
          BY <1>3 DEF ProcessRequest, TrackBody
    <2>3. DOMAIN target' = DOMAIN target
          BY <1>3 DEF ProcessRequest
    <2> QED
        BY <2>1, <2>2, <2>3 DEF PartTypes
  <1>4. ASSUME NEW x \in Exchanges,
               StorePending(x) \/ Move(x) \/ ForwardFails(x) \/ ProcessResponse(x) \/ FlagResponse(x)
        PROVE  PartTypes'
    <2>1. UNCHANGED <<updates, target, copy, content, paired, rmu, page, aborted>>
          BY <1>4 DEF StorePending, Move, ForwardFails, ProcessResponse, FlagResponse, HandlerFrame,
                      confVars, handlerVars, trackVars, histVars, viewVars
    <2>2. pending' \subseteq pending \cup {x} /\ tracked' \subseteq tracked \cup {x}
          BY <1>4 DEF StorePending, Move, ForwardFails, ProcessResponse, FlagResponse, trackVars
    <2> QED
        BY <2>1, <2>2 DEF PartTypes
  <1>5. ASSUME NEW x \in Exchanges, FindRequest(x)
        PROVE  PartTypes'
    <2>1. UNCHANGED <<updates, target, content, pending, tracked, rmu, page, aborted>>
          BY <1>5 DEF FindRequest, HandlerFrame, confVars, histVars, viewVars
    <2>2. /\ copy' = [copy EXCEPT ![<<x, "response">>] = "copying"]
          /\ paired' = paired \/ \E y \in pending : paired' = [paired EXCEPT ![x] = y]
          BY <1>5 DEF FindRequest, TrackBody
    <2> QED
        BY <2>1, <2>2 DEF PartTypes
  <1>6. ASSUME NEW x \in Exchanges, RecordStep(x)
        PROVE  PartTypes'
    <2>1. UNCHANGED <<updates, target, copy, content, paired, page>>
          BY <1>6 DEF RecordStep, AddRecord, TrimHistory, TakeRequest, RecordFrame, confVars,
                      handlerVars, bodyVars, trackVars, viewVars
    <2>2. /\ pending' \subseteq pending /\ tracked' \subseteq tracked
          /\ rmu' \in {rmu, x, NoOne} /\ aborted' \in {aborted, "map", "slice"}
          BY <1>6 DEF RecordStep, AddRecord, TrimHistory, TakeRequest, trackVars
    <2> QED
        BY <2>1, <2>2 DEF PartTypes
  <1>7. ASSUME ClearRecords \/ SearchRequests \/ UNCHANGED vars
        PROVE  PartTypes'
    <2>1. UNCHANGED <<updates, target, copy, content, rest>>
          BY <1>7 DEF ClearRecords, SearchRequests, vars, confVars, handlerVars, bodyVars, trackVars,
                      histVars, viewVars
    <2> QED
        BY <2>1 DEF PartTypes
  <1>8. ASSUME UpdateConfig
        PROVE  PartTypes'
    <2>1. UNCHANGED <<target, copy, content, rest>>
          BY <1>8 DEF UpdateConfig, handlerVars, bodyVars, trackVars, histVars, viewVars
    <2>2. updates' \in 0..MaxUpdates
          BY <1>8, TrackerAssumption DEF UpdateConfig, PartTypes
    <2> QED
        BY <2>1, <2>2 DEF PartTypes
  <1> QED
      BY <1>1, <1>2, <1>3, <1>4, <1>5, <1>6, <1>7, <1>8 DEF Next, Environment, HandlerStep

-----------------------------------------------------------------------------

\* A slice lies within its array; what a search has returned lies before the end of
\* the history, or in an array that is not written to any more.
Within(s) ==
  /\ s \in [arr : Nat, off : Nat, len : Nat]
  /\ s.arr <= Len(arrays)
  /\ s.arr = 0 => s.len = 0
  /\ s.arr # 0 => s.off + s.len <= Len(arrays[s.arr])

Behind(s, t) == s.arr = t.arr /\ s.arr # 0 => s.off + s.len <= t.off + t.len

SliceInv ==
  /\ arrays \in Seq(Seq(Record)) /\ seen \in Seq(Record)
  /\ Within(hist) /\ Within(view) /\ Behind(view, hist)
  /\ ViewIsStable

LEMMA SliceInit == Init => SliceInv
  BY DEF Init, SliceInv, Within, Behind, ViewIsStable, Slice, NoSlice

\* What a slice refers to belongs to what is in the arrays.
LEMMA Sliced ==
  ASSUME NEW S, arrays \in Seq(Seq(S)), NEW s, Within(s)
  PROVE  Slice(s) \in Seq(S)
  <1>1. CASE s.len = 0
        BY <1>1 DEF Slice
  <1>2. CASE s.len # 0
    <2>1. s.arr \in 1..Len(arrays) /\ arrays[s.arr] \in Seq(S) /\ s.off \in Nat /\ s.len \in Nat
          BY <1>2 DEF Within
    <2>2. s.off + s.len <= Len(arrays[s.arr])
          BY <2>1 DEF Within
    <2>3. \A i \in (s.off + 1)..(s.off + s.len) : arrays[s.arr][i] \in S
          BY SMTT(20), <2>1, <2>2
    <2>4. SubSeq(arrays[s.arr], s.off + 1, s.off + s.len) \in Seq(S)
          BY <2>1, <2>3
    <2> QED
        BY <1>2, <2>4 DEF Slice
  <1> QED
      BY <1>1, <1>2

\* append, on a slice of the history: what other slices hold stays as it is.
LEMMA Appended ==
  ASSUME SliceInv, NEW r \in Record, AppendRecord(r)
  PROVE  /\ arrays' \in Seq(Seq(Record))
         /\ Within(hist)' /\ Len(arrays') >= Len(arrays)
         /\ \/ /\ hist'.arr = hist.arr /\ hist'.off = hist.off
               /\ hist'.len = hist.len + 1
            \/ hist'.arr = Len(arrays) + 1
         /\ \A k \in 1..Len(arrays) :
              /\ k # hist.arr => arrays'[k] = arrays[k]
              /\ k = hist.arr =>
                   \/ arrays'[k] = arrays[k]
                   \/ /\ Len(arrays'[k]) = hist.off + hist.len + 1
                      /\ \A i \in 1..(hist.off + hist.len) : arrays'[k][i] = arrays[k][i]
  <1> DEFINE end == hist.off + hist.len
  <1> USE DEF SliceInv
  <1>1. hist \in [arr : Nat, off : Nat, len : Nat] /\ arrays \in Seq(Seq(Record))
        BY DEF Within
  <1>0. hist.arr # 0 => /\ hist.arr \in 1..Len(arrays) /\ arrays[hist.arr] \in Seq(Record)
                        /\ end \in 0..Len(arrays[hist.arr])
    <2> SUFFICES ASSUME hist.arr # 0
                 PROVE  /\ hist.arr \in 1..Len(arrays) /\ arrays[hist.arr] \in Seq(Record)
                        /\ end \in 0..Len(arrays[hist.arr])
        OBVIOUS
    <2>1. /\ hist.arr <= Len(arrays) /\ hist.off + hist.len <= Len(arrays[hist.arr])
          /\ arrays \in Seq(Seq(Record))
          BY DEF Within
    <2>2. hist.arr \in 1..Len(arrays)
          BY <1>1, <2>1
    <2>3. arrays[hist.arr] \in Seq(Record) /\ hist.off \in Nat /\ hist.len \in Nat
          BY <1>1, <2>1, <2>2
    <2> QED
        BY <2>1, <2>2, <2>3
  <1> HIDE DEF SliceInv
  <1>2. CASE /\ hist.arr # 0
             /\ arrays' = [arrays EXCEPT ![hist.arr] = Append(SubSeq(@, 1, end), r)]
             /\ hist' = [hist EXCEPT !.len = @ + 1]
    <2> DEFINE old == arrays[hist.arr]
               new == Append(SubSeq(old, 1, end), r)
    <2>1. hist.arr \in 1..Len(arrays) /\ old \in Seq(Record) /\ end \in 0..Len(old)
          BY <1>0, <1>2
    <2>2. SubSeq(old, 1, end) \in Seq(Record) /\ Len(SubSeq(old, 1, end)) = end
      <3>1. \A i \in 1..end : old[i] \in Record
            BY <2>1
      <3> QED
          BY <2>1, <3>1
    <2>3. \A i \in 1..end : SubSeq(old, 1, end)[i] = old[i]
          BY <2>1
    <2>4. /\ new \in Seq(Record) /\ Len(new) = end + 1
          /\ \A i \in 1..end : new[i] = old[i]
          BY <2>1, <2>2, <2>3
    <2>5. arrays' = [arrays EXCEPT ![hist.arr] = new]
          BY <1>2
    <2> HIDE DEF new
    <2>6. /\ arrays' \in Seq(Seq(Record)) /\ Len(arrays') = Len(arrays) /\ arrays'[hist.arr] = new
          /\ \A k \in 1..Len(arrays) : k # hist.arr => arrays'[k] = arrays[k]
          BY <1>1, <2>1, <2>4, <2>5
    <2>7. hist' \in [arr : Nat, off : Nat, len : Nat] /\ hist'.arr = hist.arr
          /\ hist'.off = hist.off /\ hist'.len = hist.len + 1
          BY SMTT(20), <1>1, <1>2
    <2>8. Within(hist)'
      <3>1. end \in Nat /\ hist'.off + hist'.len = end + 1
        <4>1. hist.off \in Nat /\ hist.len \in Nat
              BY <1>1
        <4> QED
            BY <2>7, <4>1
      <3>2. hist'.arr <= Len(arrays') /\ hist'.arr # 0
            BY <2>1, <2>6, <2>7
      <3>3. Len(arrays'[hist'.arr]) = end + 1
            BY <2>4, <2>6, <2>7
      <3> HIDE DEF end
      <3> QED
          BY <2>7, <3>1, <3>2, <3>3 DEF Within
    <2> QED
        BY SMTT(20), <2>1, <2>4, <2>6, <2>7, <2>8
  <1>3. CASE /\ arrays' = Append(arrays, Append(Slice(hist), r))
             /\ hist' = [arr |-> Len(arrays) + 1, off |-> 0, len |-> hist.len + 1]
    <2> DEFINE new == Append(Slice(hist), r)
    <2>1. Slice(hist) \in Seq(Record) /\ Len(Slice(hist)) = hist.len
      <3>1. Slice(hist) \in Seq(Record)
            BY Sliced DEF SliceInv
      <3>2. CASE hist.len = 0
            BY <3>2 DEF Slice
      <3>3. CASE hist.len # 0
        <4>1. hist.arr # 0
              BY <3>3 DEF SliceInv, Within
        <4>2. /\ arrays[hist.arr] \in Seq(Record) /\ end <= Len(arrays[hist.arr])
              /\ hist.off \in Nat /\ hist.len \in Nat
              BY <1>0, <1>1, <4>1
        <4> QED
            BY <3>3, <4>2 DEF Slice
      <3> QED
          BY <3>1, <3>2, <3>3
    <2>2. new \in Seq(Record) /\ Len(new) = hist.len + 1
          BY <2>1
    <2>3. arrays' = Append(arrays, new)
          BY <1>3
    <2> HIDE DEF new
    <2>4. /\ arrays' \in Seq(Seq(Record)) /\ Len(arrays') = Len(arrays) + 1
          /\ arrays'[Len(arrays) + 1] = new /\ \A k \in 1..Len(arrays) : arrays'[k] = arrays[k]
          BY <1>1, <2>2, <2>3
    <2>5. hist' \in [arr : Nat, off : Nat, len : Nat] /\ hist'.arr = Len(arrays) + 1
          /\ hist'.off = 0 /\ hist'.len = hist.len + 1
          BY <1>1, <1>3
    <2>6. Within(hist)'
          BY <1>1, <2>2, <2>4, <2>5 DEF Within
    <2> QED
        BY <2>4, <2>5, <2>6
  <1> QED
      BY <1>2, <1>3 DEF AppendRecord

LEMMA SameSubSeq ==
  ASSUME NEW S, NEW s \in Seq(S), NEW t \in Seq(S), NEW off \in Nat, NEW n \in Nat,
         off + n <= Len(s), off + n <= Len(t), \A i \in 1..(off + n) : s[i] = t[i]
  PROVE  SubSeq(s, off + 1, off + n) = SubSeq(t, off + 1, off + n)
  <1>1. \A i \in 1..n : s[off + i] = t[off + i]
        OBVIOUS
  <1>2. \A i \in (off + 1)..(off + n) : s[i] = t[i] /\ s[i] \in S
        OBVIOUS
  <1> QED
      BY <1>1, <1>2

\* The history grows behind what a search has returned, or elsewhere.
LEMMA SliceStep == SliceInv /\ PartTypes /\ TrimInv /\ [Next]_vars => SliceInv'
  <1> SUFFICES ASSUME SliceInv, PartTypes, TrimInv, [Next]_vars
               PROVE  SliceInv'
      OBVIOUS
  <1>0. /\ arrays \in Seq(Seq(Record)) /\ seen \in Seq(Record)
        /\ hist \in [arr : Nat, off : Nat, len : Nat] /\ view \in [arr : Nat, off : Nat, len : Nat]
        /\ Within(hist) /\ Within(view) /\ Behind(view, hist) /\ Slice(view) = seen
        BY DEF SliceInv, Within, ViewIsStable
  <1>1. ASSUME UNCHANGED <<arrays, hist, view, seen>>
        PROVE  SliceInv'
        BY <1>0, <1>1 DEF SliceInv, Within, Behind, ViewIsStable, Slice
  <1>2. ASSUME NEW b \in Bodies, BodyStep(b)
        PROVE  UNCHANGED <<arrays, hist, view, seen>>
        BY <1>2 DEF BodyStep, CopyEnds, WaitEnds, MarkReadDone, BodyFrame, histVars, viewVars
  <1>3. ASSUME NEW x \in Exchanges, Environment(x) \/ HandlerStep(x) \/ Move(x)
        PROVE  UNCHANGED <<arrays, hist, view, seen>>
        BY <1>3 DEF Environment, CopyReturns, ProcessRequest, ForwardFails, ProcessResponse,
                    HandlerStep, StorePending, FindRequest, FlagResponse, Move, BodyFrame,
                    HandlerFrame, histVars, viewVars
  <1>4. ASSUME NEW x \in Exchanges, AddRecord(x)
        PROVE  SliceInv'
    <2>1. AppendRecord(NewRecord(x)) /\ UNCHANGED <<view, seen>>
          BY <1>4 DEF AddRecord, RecordFrame, viewVars
    <2>2. NewRecord(x) \in Record
      <3>1. content[<<x, "response">>] \in {"none", "read"}
            BY DEF PartTypes, Bodies
      <3>2. Match(x) \in Exchanges \cup {NoOne}
            BY DEF PartTypes, Match
      <3>3. Match(x) # NoOne => content[<<Match(x), "request">>] \in {"none", "read"}
            BY <3>2 DEF PartTypes, Bodies
      <3> QED
          BY <3>1, <3>2, <3>3 DEF NewRecord, Record
    <2>3. /\ arrays' \in Seq(Seq(Record)) /\ Within(hist)' /\ Len(arrays') >= Len(arrays)
          /\ \/ /\ hist'.arr = hist.arr /\ hist'.off = hist.off
                /\ hist'.len = hist.len + 1
             \/ hist'.arr = Len(arrays) + 1
          BY <2>1, <2>2, Appended
    <2>4. CASE view.arr = 0
          BY <1>0, <2>1, <2>3, <2>4 DEF SliceInv, Within, Behind, ViewIsStable, Slice
    <2>5. CASE view.arr # 0
      <3>1. /\ view.arr \in 1..Len(arrays) /\ arrays[view.arr] \in Seq(Record)
            /\ view.off \in Nat /\ view.len \in Nat /\ view.off + view.len <= Len(arrays[view.arr])
            BY <1>0, <2>5 DEF Within
      <3>2. /\ arrays'[view.arr] \in Seq(Record)
            /\ view.off + view.len <= Len(arrays'[view.arr])
            /\ \A i \in 1..(view.off + view.len) : arrays'[view.arr][i] = arrays[view.arr][i]
        <4>1. CASE arrays'[view.arr] = arrays[view.arr]
              BY <3>1, <4>1
        <4>2. CASE /\ view.arr = hist.arr
                   /\ Len(arrays'[view.arr]) = hist.off + hist.len + 1
                   /\ \A i \in 1..(hist.off + hist.len) : arrays'[view.arr][i] = arrays[view.arr][i]
          <5>1. view.off + view.len <= hist.off + hist.len /\ hist.off \in Nat /\ hist.len \in Nat
                BY <1>0, <2>5, <4>2 DEF Behind
          <5>2. view.arr \in 1..Len(arrays')
                BY <2>3, <3>1
          <5>3. arrays'[view.arr] \in Seq(Record)
                BY <2>3, <5>2
          <5>4. /\ view.off + view.len <= hist.off + hist.len + 1
                /\ \A i \in 1..(view.off + view.len) : i \in 1..(hist.off + hist.len)
                BY <3>1, <5>1
          <5> QED
              BY <4>2, <5>3, <5>4
        <4> QED
            BY <2>1, <2>2, <3>1, <4>1, <4>2, Appended
      <3>3. Slice(view)' = Slice(view)
        <4>1. CASE view.len = 0
              BY <2>1, <4>1 DEF Slice
        <4>2. CASE view.len # 0
          <5>1. SubSeq(arrays'[view.arr], view.off + 1, view.off + view.len)
                  = SubSeq(arrays[view.arr], view.off + 1, view.off + view.len)
            <6> DEFINE new == arrays'[view.arr]
                       old == arrays[view.arr]
            <6>1. /\ new \in Seq(Record) /\ old \in Seq(Record) /\ view.off \in Nat /\ view.len \in Nat
                  /\ view.off + view.len <= Len(new) /\ view.off + view.len <= Len(old)
                  /\ \A i \in 1..(view.off + view.len) : new[i] = old[i]
                  BY <3>1, <3>2
            <6> HIDE DEF new, old
            <6>2. SubSeq(new, view.off + 1, view.off + view.len)
                    = SubSeq(old, view.off + 1, view.off + view.len)
                  BY SMTT(20), <6>1, SameSubSeq
            <6> QED
                BY <6>2 DEF new, old
          <5> QED
              BY <2>1, <4>2, <5>1 DEF Slice
        <4> QED
            BY <4>1, <4>2
      <3>4. Within(view)'
            BY <1>0, <2>1, <2>3, <3>1, <3>2 DEF Within
      <3>5. Behind(view, hist)'
        <4>1. CASE hist'.arr = hist.arr /\ hist'.off = hist.off /\ hist'.len = hist.len + 1
          <5>1. hist.off \in Nat /\ hist.len \in Nat
                BY <1>0
          <5> QED
              BY <1>0, <2>1, <3>1, <4>1, <5>1 DEF Behind
        <4>2. CASE hist'.arr = Len(arrays) + 1
          <5>1. view.arr # Len(arrays) + 1
                BY <3>1
          <5> QED
              BY <2>1, <4>2, <5>1 DEF Behind
        <4> QED
            BY <2>3, <4>1, <4>2
      <3> QED
          BY <1>0, <2>1, <2>3, <3>3, <3>4, <3>5 DEF SliceInv, ViewIsStable
    <2> QED
        BY <2>4, <2>5
  <1>5. ASSUME NEW x \in Exchanges, TrimHistory(x)
        PROVE  SliceInv'
    <2>1. UNCHANGED <<arrays, view, seen>>
          BY <1>5 DEF TrimHistory, RecordFrame, viewVars
    <2>2. CASE /\ hist.len >= config.max
               /\ hist' = [hist EXCEPT !.off = @ + (hist.len - config.max), !.len = config.max]
      <3>1. config.max \in Nat
            BY ConfigBound DEF TrimInv
      <3>2. /\ hist' \in [arr : Nat, off : Nat, len : Nat] /\ hist'.arr = hist.arr
            /\ hist'.off + hist'.len = hist.off + hist.len /\ hist'.len <= hist.len
        <4>1. hist.off \in Nat /\ hist.len \in Nat /\ hist.arr \in Nat
              BY <1>0
        <4>2. hist'.arr = hist.arr /\ hist'.off = hist.off + (hist.len - config.max) /\ hist'.len = config.max
              BY <1>0, <2>2
        <4>3. hist' = [arr |-> hist.arr, off |-> hist.off + (hist.len - config.max), len |-> config.max]
              BY <1>0, <2>2
        <4>4. hist.len - config.max \in Nat
              BY <2>2, <3>1, <4>1
        <4>5. hist' \in [arr : Nat, off : Nat, len : Nat]
              BY <3>1, <4>1, <4>3, <4>4
        <4>6. hist'.off + hist'.len = hist.off + hist.len /\ hist'.len <= hist.len
              BY <2>2, <3>1, <4>1, <4>2
        <4> QED
            BY <4>2, <4>5, <4>6
      <3>3. Within(hist)'
            BY <1>0, <2>1, <3>2 DEF Within
      <3> QED
          BY <1>0, <2>1, <3>2, <3>3 DEF SliceInv, Within, Behind, ViewIsStable, Slice
    <2>3. CASE UNCHANGED hist
          BY <1>1, <2>1, <2>3
    <2> QED
        BY <1>5, <2>2, <2>3 DEF TrimHistory
  <1>6. ASSUME ClearRecords
        PROVE  SliceInv'
        BY SMTT(20), <1>0, <1>6 DEF ClearRecords, viewVars, NoSlice, SliceInv, Within, Behind, ViewIsStable, Slice
  <1>7. ASSUME SearchRequests
        PROVE  SliceInv'
    <2>1. view' = hist /\ seen' = Slice(hist) /\ UNCHANGED <<arrays, hist>>
          BY <1>7 DEF SearchRequests, histVars
    <2>2. Slice(hist) \in Seq(Record)
          BY <1>0, Sliced
    <2>3. Within(hist)' /\ Within(view)'
          BY <1>0, <2>1 DEF Within
    <2>4. Behind(view, hist)'
          BY <1>0, <2>1 DEF Behind
    <2>5. Slice(view)' = seen'
          BY <2>1 DEF Slice
    <2> QED
        BY <1>0, <2>1, <2>2, <2>3, <2>4, <2>5 DEF SliceInv, ViewIsStable
  <1>8. ASSUME UpdateConfig \/ UNCHANGED vars
        PROVE  UNCHANGED <<arrays, hist, view, seen>>
        BY <1>8 DEF UpdateConfig, vars, histVars, viewVars
  <1> QED
      BY <1>1, <1>2, <1>3, <1>4, <1>5, <1>6, <1>7, <1>8 DEF Next, RecordStep

\* A search returns the slice of the history and writes it out after the unlock
\* (main.go:668): what it refers to is never written to again, for append only adds
\* behind the history, and clearing it makes a new one (main.go:756).
THEOREM ViewStable == Spec => []ViewIsStable
  <1>1. SliceInv => ViewIsStable
        BY DEF SliceInv
  <1> QED
      BY <1>1, PartInit, PartStep, TrimInit, TrimStep, SliceInit, SliceStep, PTL DEF Spec

\* Every variable has its type; in particular the history never refers to more than
\* its array has.
THEOREM TypeCorrect == Spec => []TypeOK
  <1>1. CallbackInv /\ PartTypes /\ TrimInv /\ SliceInv => TypeOK
        BY DEF CallbackInv, PartTypes, TrimInv, SliceInv, Within, TypeOK
  <1> QED
      BY <1>1, CallbackInit, CallbackStep, PartInit, PartStep, TrimInit, TrimStep,
         SliceInit, SliceStep, PTL DEF Spec

-----------------------------------------------------------------------------

\* The records that pair what looks the same.  Requests are recorded after the
\* rules have been applied, so what they ask for does not change any more.
Fitting ==
  {r \in Record : /\ hpc[r.of] # "idle"
                  /\ r.from # NoOne => hpc[r.from] # "idle" /\ Key(r.from) = Key(r.of)}

PairInv ==
  /\ hpc \in [Exchanges -> {"idle", "store", "forward", "search", "flagResponse", "end"}]
  /\ \A x \in Exchanges, of \in {"request", "response"} : pc[<<x, of>>] # "none" => hpc[x] # "idle"
  /\ \A y \in pending \cup tracked : hpc[y] # "idle"
  /\ \A x \in Exchanges : paired[x] # NoOne =>
       Key(paired[x]) = Key(x) /\ hpc[x] # "idle" /\ hpc[paired[x]] # "idle"
  /\ arrays \in Seq(Seq(Fitting))

LEMMA PairInit == Init => PairInv
  BY DEF Init, PairInv, Bodies

\* Nobody is idle again, nor asks for something else: what fits goes on to fit.
LEMMA FitsOn ==
  ASSUME PairInv, UNCHANGED arrays,
         \A y \in Exchanges : hpc[y] # "idle" => hpc'[y] # "idle" /\ target'[y] = target[y]
  PROVE  arrays' \in Seq(Seq(Fitting'))
  <1>1. Fitting \subseteq Fitting'
    <2> SUFFICES ASSUME NEW r \in Fitting PROVE r \in Fitting'
        OBVIOUS
    <2>1. r \in Record /\ r.of \in Exchanges /\ r.from \in Exchanges \cup {NoOne}
          BY DEF Fitting, Record
    <2> QED
        BY <2>1 DEF Fitting, Key
  <1>2. Seq(Seq(Fitting)) \subseteq Seq(Seq(Fitting'))
    <2> DEFINE G == Fitting
               H == Fitting'
    <2> HIDE DEF G, H
    <2>1. G \subseteq H
          BY <1>1 DEF G, H
    <2>2. Seq(G) \subseteq Seq(H)
          BY <2>1
    <2>3. Seq(Seq(G)) \subseteq Seq(Seq(H))
          BY <2>2
    <2> QED
        BY <2>3 DEF G, H
  <1> QED
      BY <1>2 DEF PairInv

\* A record that fits, added to a history of such records.
LEMMA FitsAdded ==
  ASSUME NEW S, arrays \in Seq(Seq(S)), Within(hist), NEW r \in S, AppendRecord(r)
  PROVE  arrays' \in Seq(Seq(S))
  <1>1. CASE /\ hist.arr # 0
             /\ arrays' = [arrays EXCEPT ![hist.arr] =
                             Append(SubSeq(@, 1, hist.off + hist.len), r)]
    <2> DEFINE s == arrays[hist.arr]
               n == hist.off + hist.len
    <2>1. hist.arr \in 1..Len(arrays) /\ s \in Seq(S) /\ n \in 0..Len(s)
      <3>1. hist.arr \in Nat /\ hist.off \in Nat /\ hist.len \in Nat /\ hist.arr <= Len(arrays)
            BY DEF Within
      <3>2. hist.arr \in 1..Len(arrays)
            BY <1>1, <3>1
      <3>3. arrays[hist.arr] \in Seq(S)
            BY <3>2
      <3>4. hist.off + hist.len <= Len(arrays[hist.arr])
            BY <1>1 DEF Within
      <3> QED
          BY <3>1, <3>2, <3>3, <3>4
    <2> HIDE DEF s, n
    <2>2. \A i \in 1..n : s[i] \in S
          BY <2>1
    <2>3. SubSeq(s, 1, n) \in Seq(S)
          BY <2>1, <2>2
    <2>4. Append(SubSeq(s, 1, n), r) \in Seq(S)
          BY <2>3
    <2>5. arrays' = [arrays EXCEPT ![hist.arr] = Append(SubSeq(s, 1, n), r)]
          BY <1>1, <2>1 DEF s, n
    <2> QED
        BY <2>1, <2>4, <2>5
  <1>2. CASE arrays' = Append(arrays, Append(Slice(hist), r))
    <2>1. Slice(hist) \in Seq(S)
          BY Sliced
    <2>2. Append(Slice(hist), r) \in Seq(S)
          BY <2>1
    <2> QED
        BY <1>2, <2>2
  <1> QED
      BY <1>1, <1>2 DEF AppendRecord

\* A request is found by what it asks for, and neither it nor who looks for it
\* changes that afterwards.
LEMMA PairStep == PairInv /\ SliceInv /\ PartTypes /\ TrimInv /\ [Next]_vars => PairInv'
  <1> SUFFICES ASSUME PairInv, SliceInv, PartTypes, TrimInv, [Next]_vars
               PROVE  PairInv'
      OBVIOUS
  <1> DEFINE HpcType == hpc \in [Exchanges -> {"idle", "store", "forward", "search", "flagResponse", "end"}]
             PcType == pc \in [Bodies -> {"none", "wait", "past", "trim", "end"}]
  <1>0. /\ HpcType /\ PcType /\ DOMAIN target = Exchanges
        /\ pending \subseteq Exchanges /\ tracked \subseteq Exchanges
        /\ paired \in [Exchanges -> Exchanges \cup {NoOne}]
        BY DEF PairInv, TrimInv, PartTypes
  <1>1. ASSUME UNCHANGED <<handlerVars, arrays, paired>>,
               pending' \subseteq pending \cup tracked, tracked' \subseteq pending \cup tracked,
               \A b \in Bodies : pc'[b] # "none" => pc[b] # "none"
        PROVE  PairInv'
    <2>1. arrays' \in Seq(Seq(Fitting'))
          BY <1>1, FitsOn DEF handlerVars
    <2> QED
        BY <1>1, <2>1 DEF PairInv, handlerVars, Key, Bodies
  <1>2. ASSUME NEW b \in Bodies, BodyStep(b)
        PROVE  PairInv'
    <2>1. /\ UNCHANGED <<handlerVars, arrays, trackVars>>
          /\ \/ pc' = pc
             \/ pc[b] = "wait" /\ pc' = [pc EXCEPT ![b] = "past"]
          BY <1>2 DEF BodyStep, CopyEnds, WaitEnds, MarkReadDone, WaiterGoes, BodyFrame, histVars
    <2>2. \A d \in Bodies : pc'[d] # "none" => pc[d] # "none"
          BY <1>0, <2>1
    <2> QED
        BY <1>1, <2>1, <2>2 DEF trackVars
  <1>3. ASSUME NEW x \in Exchanges, CopyReturns(x)
        PROVE  PairInv'
    <2>1. UNCHANGED <<handlerVars, arrays, trackVars, pc>>
          BY <1>3 DEF CopyReturns, BodyFrame, histVars
    <2> QED
        BY <1>1, <2>1 DEF trackVars
  <1>4. ASSUME NEW x \in Exchanges, ProcessRequest(x)
        PROVE  PairInv'
    <2>1. /\ hpc[x] = "idle" /\ \E to \in {"store", "forward"} : hpc' = [hpc EXCEPT ![x] = to]
          /\ \A y \in Exchanges : y # x => target'[y] = target[y]
          /\ UNCHANGED <<pending, tracked, paired, arrays, pc>>
          BY <1>4 DEF ProcessRequest, HandlerGoes, HandlerFrame, trackVars, histVars
    <2>2. \A y \in Exchanges : hpc[y] # "idle" => hpc'[y] # "idle" /\ target'[y] = target[y]
          BY <1>0, <2>1
    <2>3. arrays' \in Seq(Seq(Fitting'))
          BY <2>1, <2>2, FitsOn
    <2>4. HpcType'
          BY <1>0, <2>1
    <2>5. \A y \in Exchanges, of \in {"request", "response"} : pc'[<<y, of>>] # "none" => hpc'[y] # "idle"
          BY <2>1, <2>2 DEF PairInv
    <2>6. \A y \in pending' \cup tracked' : hpc'[y] # "idle"
          BY <1>0, <2>1, <2>2 DEF PairInv
    <2>7. \A y \in Exchanges : paired'[y] # NoOne =>
            Key(paired[y])' = Key(y)' /\ hpc'[y] # "idle" /\ hpc'[paired'[y]] # "idle"
          BY <1>0, <2>1, <2>2 DEF PairInv, Key
    <2> QED
        BY <2>3, <2>4, <2>5, <2>6, <2>7 DEF PairInv
  <1>5. ASSUME NEW x \in Exchanges,
               StorePending(x) \/ ForwardFails(x) \/ ProcessResponse(x) \/ FlagResponse(x)
        PROVE  PairInv'
    <2>1. /\ hpc[x] # "idle"
          /\ \E to \in {"forward", "search", "end"} : hpc' = [hpc EXCEPT ![x] = to]
          /\ pending' \subseteq pending \cup {x}
          /\ UNCHANGED <<target, tracked, paired, arrays>>
          /\ pc' = pc \/ \E of \in {"request", "response"} : pc' = [pc EXCEPT ![<<x, of>>] = "wait"]
          BY <1>5 DEF StorePending, ForwardFails, ProcessResponse, FlagResponse, HandlerGoes,
                      WaiterGoes, HandlerFrame, trackVars, histVars
    <2>2. \A y \in Exchanges : hpc[y] # "idle" => hpc'[y] # "idle" /\ target'[y] = target[y]
          BY <1>0, <2>1
    <2>3. arrays' \in Seq(Seq(Fitting'))
          BY <2>1, <2>2, FitsOn
    <2>4. HpcType'
          BY <1>0, <2>1
    <2>5. ASSUME NEW y \in Exchanges, NEW of \in {"request", "response"}, pc'[<<y, of>>] # "none"
          PROVE  hpc'[y] # "idle"
      <3>1. y = x \/ pc'[<<y, of>>] = pc[<<y, of>>]
            BY <1>0, <2>1 DEF Bodies
      <3> QED
          BY <2>1, <2>2, <2>5, <3>1 DEF PairInv
    <2>6. \A y \in pending' \cup tracked' : hpc'[y] # "idle"
          BY <1>0, <2>1, <2>2 DEF PairInv
    <2>7. \A y \in Exchanges : paired'[y] # NoOne =>
            Key(paired[y])' = Key(y)' /\ hpc'[y] # "idle" /\ hpc'[paired'[y]] # "idle"
          BY <1>0, <2>1, <2>2 DEF PairInv, Key
    <2> QED
        BY <2>3, <2>4, <2>5, <2>6, <2>7 DEF PairInv
  <1>6. ASSUME NEW x \in Exchanges, FindRequest(x)
        PROVE  PairInv'
    <2>1. /\ hpc[x] = "search" /\ hpc' = [hpc EXCEPT ![x] = "flagResponse"]
          /\ \/ \E y \in pending : Key(y) = Key(x) /\ paired' = [paired EXCEPT ![x] = y]
             \/ UNCHANGED paired
          /\ UNCHANGED <<target, pending, tracked, arrays, pc>>
          BY <1>6 DEF FindRequest, HandlerGoes, HandlerFrame, histVars
    <2>2. \A y \in Exchanges : hpc[y] # "idle" => hpc'[y] # "idle" /\ target'[y] = target[y]
          BY <1>0, <2>1
    <2>3. arrays' \in Seq(Seq(Fitting'))
          BY <2>1, <2>2, FitsOn
    <2>4. HpcType'
          BY <1>0, <2>1
    <2>5. \A y \in Exchanges, of \in {"request", "response"} : pc'[<<y, of>>] # "none" => hpc'[y] # "idle"
          BY <2>1, <2>2 DEF PairInv
    <2>6. \A y \in pending' \cup tracked' : hpc'[y] # "idle"
          BY <1>0, <2>1, <2>2 DEF PairInv
    <2>7. ASSUME NEW y \in Exchanges, paired'[y] # NoOne
          PROVE  Key(paired[y])' = Key(y)' /\ hpc'[y] # "idle" /\ hpc'[paired'[y]] # "idle"
      <3>1. CASE paired'[y] = paired[y]
            BY <1>0, <2>1, <2>2, <2>7, <3>1 DEF PairInv, Key
      <3>2. CASE y = x /\ paired'[y] \in pending /\ Key(paired'[y]) = Key(y)
            BY <1>0, <2>1, <2>2, <2>7, <3>2 DEF PairInv, Key
      <3> QED
          BY <1>0, <2>1, <3>1, <3>2
    <2> QED
        BY <2>3, <2>4, <2>5, <2>6, <2>7 DEF PairInv
  <1>7. ASSUME NEW x \in Exchanges, Move(x)
        PROVE  PairInv'
    <2>1. /\ pc[<<x, "request">>] = "past" /\ pc' = [pc EXCEPT ![<<x, "request">>] = "end"]
          /\ pending' \subseteq pending /\ tracked' = tracked \cup {x}
          /\ UNCHANGED <<hpc, target, paired, arrays>>
          BY <1>7 DEF Move, WaiterGoes, HandlerFrame, handlerVars, histVars
    <2>2. hpc[x] # "idle"
          BY <2>1 DEF PairInv
    <2>3. arrays' \in Seq(Seq(Fitting'))
          BY <2>1, FitsOn
    <2>4. \A y \in Exchanges, of \in {"request", "response"} :
            pc'[<<y, of>>] # "none" => pc[<<y, of>>] # "none"
          BY <1>0, <2>1 DEF Bodies
    <2> QED
        BY <2>1, <2>2, <2>3, <2>4 DEF PairInv, Key
  <1>8. ASSUME NEW x \in Exchanges, AddRecord(x)
        PROVE  PairInv'
    <2>1. /\ pc[<<x, "response">>] = "past" /\ AppendRecord(NewRecord(x))
          /\ \E to \in {"trim", "end"} : pc' = [pc EXCEPT ![<<x, "response">>] = to]
          /\ pending' \subseteq pending /\ tracked' \subseteq tracked
          /\ UNCHANGED <<hpc, target, paired>>
          BY <1>8 DEF AddRecord, TakeRequest, WaiterGoes, RecordFrame, handlerVars
    <2>2. NewRecord(x) \in Fitting
      <3>1. NewRecord(x) \in Record
        <4>1. content[<<x, "response">>] \in {"none", "read"}
              BY DEF PartTypes, Bodies
        <4>2. Match(x) \in Exchanges \cup {NoOne}
              BY <1>0 DEF Match
        <4>3. Match(x) # NoOne => content[<<Match(x), "request">>] \in {"none", "read"}
              BY <4>2 DEF PartTypes, Bodies
        <4> QED
            BY <4>1, <4>2, <4>3 DEF NewRecord, Record
      <3>2. NewRecord(x).of = x /\ NewRecord(x).from = Match(x)
            BY DEF NewRecord
      <3>3. hpc[x] # "idle"
            BY <2>1 DEF PairInv
      <3>4. Match(x) # NoOne => Match(x) = paired[x]
            BY DEF Match
      <3> QED
          BY <3>1, <3>2, <3>3, <3>4 DEF Fitting, PairInv
    <2>3. arrays' \in Seq(Seq(Fitting))
          BY <2>1, <2>2, FitsAdded DEF PairInv, SliceInv
    <2>4. Fitting' = Fitting
          BY <2>1 DEF Fitting, Key
    <2>5. \A y \in Exchanges, of \in {"request", "response"} :
            pc'[<<y, of>>] # "none" => pc[<<y, of>>] # "none"
          BY <1>0, <2>1 DEF Bodies
    <2> QED
        BY <2>1, <2>3, <2>4, <2>5 DEF PairInv, Key
  <1>9. ASSUME NEW x \in Exchanges, TrimHistory(x)
        PROVE  PairInv'
    <2>1. /\ UNCHANGED <<handlerVars, arrays, trackVars>>
          /\ \/ pc' = pc
             \/ pc[<<x, "response">>] = "trim" /\ pc' = [pc EXCEPT ![<<x, "response">>] = "end"]
          BY <1>9 DEF TrimHistory, WaiterGoes, RecordFrame
    <2>2. \A d \in Bodies : pc'[d] # "none" => pc[d] # "none"
          BY <1>0, <2>1
    <2> QED
        BY <1>1, <2>1, <2>2 DEF trackVars
  <1>10. ASSUME ClearRecords \/ SearchRequests \/ UpdateConfig \/ UNCHANGED vars
         PROVE  PairInv'
    <2>1. UNCHANGED <<handlerVars, arrays, trackVars, pc>>
          BY <1>10 DEF ClearRecords, SearchRequests, UpdateConfig, vars, histVars
    <2> QED
        BY <1>1, <2>1 DEF trackVars
  <1> QED
      BY <1>2, <1>3, <1>4, <1>5, <1>6, <1>7, <1>8, <1>9, <1>10
      DEF Next, Environment, HandlerStep, RecordStep

\* Responses are recorded with a request for the same URL and method or with none
\* (main.go:578), however requests overtake each other, are moved from map to map,
\* and are rewritten to look the same.
THEOREM RecordsKeptApart == Spec => []KeptApart
  <1>1. SliceInv /\ PairInv => KeptApart
    <2> SUFFICES ASSUME SliceInv, PairInv, NEW i \in 1..hist.len, Slice(hist)[i].from # NoOne
                 PROVE  Key(Slice(hist)[i].from) = Key(Slice(hist)[i].of)
        BY DEF KeptApart
    <2>1. Slice(hist) \in Seq(Fitting)
          BY Sliced DEF SliceInv, PairInv
    <2>2. hist.len \in Nat /\ Len(Slice(hist)) = hist.len
      <3>1. Within(hist)
            BY DEF SliceInv
      <3>2. hist.off \in Nat /\ hist.len \in Nat /\ hist.len # 0
            BY <3>1 DEF Within
      <3> QED
          BY <3>2 DEF Slice
    <2>3. Slice(hist)[i] \in Fitting
          BY <2>1, <2>2
    <2> QED
        BY <2>3 DEF Fitting
  <1> QED
      BY <1>1, PartInit, PartStep, TrimInit, TrimStep, SliceInit, SliceStep, PairInit, PairStep, PTL
      DEF Spec

-----------------------------------------------------------------------------

\* The content of a body is there, or its goroutine is still to bring it.
Coming(b) == copy[b] = "copying" \/ content[b] = "read"

\* The body of a response is done for who waits for it only when the content is
\* there; MarkReadDone is the waiter's own.
ResponseComing(x) ==
  LET b == <<x, "response">>
  IN  /\ hpc[x] # "end" => pc[b] = "none"
      /\ hpc[x] = "flagResponse" \/ pc[b] # "none" => Coming(b)
      /\ done[b] /\ pc[b] \in {"none", "wait"} => content[b] = "read"

ComingInv == \A x \in Exchanges : ResponseComing(x)

LEMMA ComingInit == Init => ComingInv
  BY DEF Init, ComingInv, ResponseComing, Bodies

LEMMA ComingStep == CallbackInv /\ PartTypes /\ TrimInv /\ ComingInv /\ [Next]_vars => ComingInv'
  <1> SUFFICES ASSUME CallbackInv, PartTypes, TrimInv, ComingInv, [Next]_vars
               PROVE  ComingInv'
      OBVIOUS
  <1>0. /\ hpc \in [Exchanges -> {"idle", "store", "forward", "search", "flagResponse", "end"}]
        /\ pc \in [Bodies -> {"none", "wait", "past", "trim", "end"}]
        /\ copy \in [Bodies -> {"none", "copying", "whole", "part", "end", "broken"}]
        /\ content \in [Bodies -> {"none", "read"}] /\ done \in [Bodies -> BOOLEAN]
        /\ \A x \in Exchanges : <<x, "response">> \in Bodies /\ <<x, "request">> \in Bodies
        BY DEF CallbackInv, TrimInv, PartTypes, Bodies
  <1>1. ASSUME NEW b \in Bodies, CopyEnds(b)
        PROVE  ComingInv'
    <2>1. /\ content' = [content EXCEPT ![b] = "read"] /\ done' = [done EXCEPT ![b] = TRUE]
          /\ \A d \in Bodies : d # b => copy'[d] = copy[d]
          /\ UNCHANGED <<hpc, pc>>
          BY <1>0, <1>1 DEF CopyEnds, RunCallbacks, BodyFrame, handlerVars
    <2>2. ASSUME NEW y \in Exchanges
          PROVE  ResponseComing(y)'
          BY <1>0, <2>1 DEF ComingInv, ResponseComing, Coming
    <2> QED
        BY <2>2 DEF ComingInv
  <1>2. ASSUME NEW b \in Bodies, WaitEnds(b) \/ MarkReadDone(b)
        PROVE  ComingInv'
    <2>1. /\ pc[b] = "wait" /\ pc' = [pc EXCEPT ![b] = "past"]
          /\ \A d \in Bodies : d # b => done'[d] = done[d]
          /\ UNCHANGED <<hpc, copy, content>>
          BY <1>0, <1>2 DEF WaitEnds, MarkReadDone, RunCallbacks, WaiterGoes, BodyFrame, bodyVars,
                            handlerVars
    <2>2. ASSUME NEW y \in Exchanges
          PROVE  ResponseComing(y)'
          BY <1>0, <2>1 DEF ComingInv, ResponseComing, Coming
    <2> QED
        BY <2>2 DEF ComingInv
  <1>3. ASSUME NEW x \in Exchanges, CopyReturns(x) \/ ProcessRequest(x)
        PROVE  ComingInv'
    <2>1. /\ UNCHANGED <<content, done, pc>>
          /\ \A d \in Bodies : d # <<x, "request">> => copy'[d] = copy[d]
          /\ \A y \in Exchanges : /\ hpc'[y] = "flagResponse" => hpc[y] = "flagResponse"
                                  /\ hpc'[y] # "end" => hpc[y] # "end"
          BY <1>0, <1>3 DEF CopyReturns, ProcessRequest, TrackBody, HandlerGoes, BodyFrame,
                            HandlerFrame, handlerVars
    <2>2. ASSUME NEW y \in Exchanges
          PROVE  ResponseComing(y)'
          BY <1>0, <2>1 DEF ComingInv, ResponseComing, Coming
    <2> QED
        BY <2>2 DEF ComingInv
  <1>4. ASSUME NEW x \in Exchanges,
               StorePending(x) \/ Move(x) \/ ForwardFails(x) \/ ProcessResponse(x)
        PROVE  ComingInv'
    <2>1. /\ UNCHANGED <<copy, content, done>>
          /\ \A y \in Exchanges : /\ hpc'[y] = "flagResponse" => hpc[y] = "flagResponse"
                                  /\ hpc'[y] # "end" => hpc[y] # "end"
          /\ \A y \in Exchanges : pc'[<<y, "response">>] = pc[<<y, "response">>]
          BY <1>0, <1>4 DEF StorePending, Move, ForwardFails, ProcessResponse, HandlerGoes,
                            WaiterGoes, HandlerFrame, handlerVars
    <2>2. ASSUME NEW y \in Exchanges
          PROVE  ResponseComing(y)'
          BY <1>0, <2>1 DEF ComingInv, ResponseComing, Coming
    <2> QED
        BY <2>2 DEF ComingInv
  <1>5. ASSUME NEW x \in Exchanges, FindRequest(x)
        PROVE  ComingInv'
    <2>1. /\ copy' = [copy EXCEPT ![<<x, "response">>] = "copying"]
          /\ hpc[x] = "search" /\ hpc' = [hpc EXCEPT ![x] = "flagResponse"]
          /\ UNCHANGED <<content, done, pc>>
          BY <1>5 DEF FindRequest, TrackBody, HandlerGoes, HandlerFrame
    <2>2. ASSUME NEW y \in Exchanges
          PROVE  ResponseComing(y)'
          BY <1>0, <2>1 DEF ComingInv, ResponseComing, Coming
    <2> QED
        BY <2>2 DEF ComingInv
  <1>6. ASSUME NEW x \in Exchanges, FlagResponse(x)
        PROVE  ComingInv'
    <2>1. /\ hpc[x] = "flagResponse" /\ hpc' = [hpc EXCEPT ![x] = "end"]
          /\ pc' = [pc EXCEPT ![<<x, "response">>] = "wait"]
          /\ UNCHANGED <<copy, content, done>>
          BY <1>6 DEF FlagResponse, WaiterGoes, HandlerGoes, HandlerFrame
    <2>2. ASSUME NEW y \in Exchanges
          PROVE  ResponseComing(y)'
          BY <1>0, <2>1 DEF ComingInv, ResponseComing, Coming
    <2> QED
        BY <2>2 DEF ComingInv
  <1>7. ASSUME NEW x \in Exchanges, RecordStep(x)
        PROVE  ComingInv'
    <2>1. /\ UNCHANGED <<hpc, copy, content, done>>
          /\ pc[<<x, "response">>] \in {"past", "trim"}
          /\ pc' = pc \/ \E to \in {"trim", "end"} : pc' = [pc EXCEPT ![<<x, "response">>] = to]
          BY <1>7 DEF RecordStep, AddRecord, TrimHistory, WaiterGoes, RecordFrame, handlerVars, bodyVars
    <2>2. ASSUME NEW y \in Exchanges
          PROVE  ResponseComing(y)'
          BY <1>0, <2>1 DEF ComingInv, ResponseComing, Coming
    <2> QED
        BY <2>2 DEF ComingInv
  <1>8. ASSUME ClearRecords \/ SearchRequests \/ UpdateConfig \/ UNCHANGED vars
        PROVE  ComingInv'
    <2>1. UNCHANGED <<hpc, copy, content, done, pc>>
          BY <1>8 DEF ClearRecords, SearchRequests, UpdateConfig, vars, handlerVars, bodyVars
    <2> QED
        BY <2>1 DEF ComingInv, ResponseComing, Coming
  <1> QED
      BY <1>1, <1>2, <1>3, <1>4, <1>5, <1>6, <1>7, <1>8
      DEF Next, BodyStep, Environment, HandlerStep

\* A response is recorded without its body only while that is still on its way
\* (main.go:93): the end is announced when the content is there.
THEOREM RecordsWholeOrLate == Spec => WholeOrLate
  <1>1. ComingInv => [\A x \in Exchanges :
                        LET b == <<x, "response">>
                        IN  pc[b] = "past" /\ pc'[b] # "past" /\ content[b] = "none"
                              => copy[b] = "copying"]_vars
        BY DEF ComingInv, ResponseComing, Coming
  <1> QED
      BY <1>1, CallbackInit, CallbackStep, PartInit, PartStep, TrimInit, TrimStep, ComingInit,
         ComingStep, PTL
      DEF Spec, WholeOrLate

=============================================================================
