------------------------------- MODULE VMPool -------------------------------
(***************************************************************************)
(* examples/lua_proxy/main.go: a channel of Lua states that the callbacks  *)
(* of the proxy share, and a cache of the scripts they run.  Every         *)
(* callback takes a state, loads the script of its kind into it - so that  *)
(* an edit of the file is followed at once - hands it the request in       *)
(* global variables, calls a function, reads the changes out of another    *)
(* global variable, and puts the state back.                               *)
(*                                                                         *)
(* A version of a script stands for its text and its modification time:    *)
(* every edit gives the file a later one.                                  *)
(***************************************************************************)
EXTENDS Naturals, Sequences

CONSTANTS
  Workers,     \* the goroutines that serve client connections
  VMs,         \* the Lua states there may be at a time
  Kinds,       \* the callbacks, each with a script and a function of its own
  MaxPool,     \* maxPoolSize: the capacity of the channel (100 in NewLuaMITM)
  Edited,      \* bound: the kinds whose scripts are edited
  MaxVersion,  \* bound: each of them is edited at most MaxVersion - 1 times
  BadScripts,  \* the versions that do not compile
  NoOne, NoVM

Versions == 1..MaxVersion
Gone == 0        \* there is no such file; no such function
NoKind == "none"

ASSUME VMPoolAssumption ==
  /\ MaxPool \in Nat /\ MaxVersion \in Nat \ {0}
  /\ BadScripts \subseteq Versions
  /\ Kinds \subseteq {"request", "response", "inject", "proxy"}
  /\ NoOne \notin Workers /\ NoVM \notin VMs

VARIABLES
  file, last,  \* the version in the file of a script, and the last one it had
  cache,       \* scriptCache
  pool,        \* luaPool
  open,        \* the Lua states that are not closed
  funcs,       \* the version of each callback's function that a state has
  env,         \* whose request left a value in a global variable of a state
  pc, kind, vm, info, text,  \* a callback: where it is, its kind, its state, the
                             \* version it has looked at and the one it has read
  aborted      \* the runtime has ended the program

fileVars == <<file, last>>
poolVars == <<pool, open>>
vmVars == <<funcs, env>>
callVars == <<pc, kind, vm, info, text>>
vars == <<fileVars, cache, poolVars, vmVars, callVars, aborted>>

\* One of the variables a callback is told about, what a script may set, and
\* what only response.lua is told.
Globals == {"url", "modified_headers", "content_length"}
ResetGlobals == Globals \ {"content_length"}  \* main.go:92-101

Given(k) == IF k = "response" THEN {"url", "content_length"} ELSE {"url"}

Init ==
  /\ file = [k \in Kinds |-> 1] /\ last = [k \in Kinds |-> 1]
  /\ cache = [k \in Kinds |-> [time |-> Gone, text |-> Gone]]
  /\ pool = <<>> /\ open = {}
  /\ funcs = [v \in VMs |-> [k \in Kinds |-> Gone]]
  /\ env = [v \in VMs |-> [g \in Globals |-> NoOne]]
  /\ pc = [w \in Workers |-> "idle"]
  /\ kind = [w \in Workers |-> NoKind]
  /\ vm = [w \in Workers |-> NoVM]
  /\ info = [w \in Workers |-> Gone] /\ text = [w \in Workers |-> Gone]
  /\ aborted = FALSE

Goes(w, to) == pc' = [pc EXCEPT ![w] = to]
Pooled == {pool[i] : i \in 1..Len(pool)}

-----------------------------------------------------------------------------
(* getLuaVM *)

\* Mutant: the state is looked at and stays in the channel.
GetLuaVM_Peeks(w, k) ==
  /\ pc[w] = "idle"
  /\ kind' = [kind EXCEPT ![w] = k]
  /\ \/ /\ pool # <<>>
        /\ vm' = [vm EXCEPT ![w] = Head(pool)]
        /\ Goes(w, "stat")
     \/ /\ pool = <<>>
        /\ Goes(w, "new")
        /\ UNCHANGED vm
  /\ UNCHANGED <<fileVars, cache, poolVars, vmVars, info, text, aborted>>

\* A callback begins: a state from the channel, if there is one ...
GetLuaVM(w, k) ==
  /\ pc[w] = "idle"
  /\ kind' = [kind EXCEPT ![w] = k]
  /\ \/ /\ pool # <<>>
        /\ vm' = [vm EXCEPT ![w] = Head(pool)]
        /\ pool' = Tail(pool)
        /\ Goes(w, "stat")
     \/ /\ pool = <<>>
        /\ Goes(w, "new")
        /\ UNCHANGED <<vm, pool>>
  /\ UNCHANGED <<fileVars, cache, open, vmVars, info, text, aborted>>

\* ... and else a new one.  poolSize decides nothing: below the limit and above
\* it, a state is made (main.go:71-81).
NewVM(w) ==
  /\ pc[w] = "new"
  /\ \E v \in VMs \ open :
       /\ open' = open \cup {v}
       /\ vm' = [vm EXCEPT ![w] = v]
       /\ funcs' = [funcs EXCEPT ![v] = [k \in Kinds |-> Gone]]
       /\ env' = [env EXCEPT ![v] = [g \in Globals |-> NoOne]]
  /\ Goes(w, "stat")
  /\ UNCHANGED <<fileVars, cache, pool, kind, info, text, aborted>>

-----------------------------------------------------------------------------
(* loadScript *)

LoadFrame == UNCHANGED <<fileVars, poolVars, env, kind, vm>>

\* Look at the file.  A script that is not there is skipped, its function is not.
StatFile(w) ==
  /\ pc[w] = "stat"
  /\ info' = [info EXCEPT ![w] = file[kind[w]]]
  /\ Goes(w, IF file[kind[w]] = Gone THEN "call" ELSE "lookup")
  /\ LoadFrame /\ UNCHANGED <<cache, funcs, text, aborted>>

\* DoString: the script defines the function in this state, unless it does not run.
RunScript(w, version) ==
  IF version \in BadScripts
  THEN UNCHANGED funcs
  ELSE funcs' = [funcs EXCEPT ![vm[w]][kind[w]] = version]

\* The cache is a map without a lock.  If the runtime notices that it is written
\* while another goroutine is about to use it, it ends the program.
MapIsUsed(w, by) ==
  \/ UNCHANGED aborted
  \/ (\E u \in Workers \ {w} : pc[u] \in by) /\ aborted' = TRUE

\* A script with the time just seen is run from the cache, or has its error there.
LookUp(w) ==
  /\ pc[w] = "lookup"
  /\ MapIsUsed(w, {"store"})
  /\ LET item == cache[kind[w]] IN
     \/ /\ item.time # info[w]
        /\ Goes(w, "read")
        /\ UNCHANGED funcs
     \/ /\ item.time = info[w]
        /\ RunScript(w, item.text)
        /\ Goes(w, IF item.text \in BadScripts THEN "put" ELSE "call")
  /\ LoadFrame /\ UNCHANGED <<cache, info, text>>

\* Read the file, which may be gone by now, and run it ...
ReadFile(w) ==
  /\ pc[w] = "read"
  /\ \/ /\ file[kind[w]] = Gone
        /\ Goes(w, "put")
        /\ UNCHANGED <<funcs, text>>
     \/ /\ file[kind[w]] # Gone
        /\ text' = [text EXCEPT ![w] = file[kind[w]]]
        /\ RunScript(w, file[kind[w]])
        /\ Goes(w, "store")
  /\ LoadFrame /\ UNCHANGED <<cache, info, aborted>>

\* Mutant: the time is looked up when the script has run.
StoreScript_StatsLast(w) ==
  /\ pc[w] = "store"
  /\ MapIsUsed(w, {"lookup", "store"})
  /\ cache' = [cache EXCEPT ![kind[w]] = [time |-> file[kind[w]], text |-> text[w]]]
  /\ Goes(w, IF text[w] \in BadScripts THEN "put" ELSE "call")
  /\ LoadFrame /\ UNCHANGED <<funcs, info, text>>

\* ... then keep it, and whether it runs, under the time seen before.
StoreScript(w) ==
  /\ pc[w] = "store"
  /\ MapIsUsed(w, {"lookup", "store"})
  /\ cache' = [cache EXCEPT ![kind[w]] = [time |-> info[w], text |-> text[w]]]
  /\ Goes(w, IF text[w] \in BadScripts THEN "put" ELSE "call")
  /\ LoadFrame /\ UNCHANGED <<funcs, info, text>>

-----------------------------------------------------------------------------
(* The callbacks, and putLuaVM *)

\* Set the global variables and call the function.  It returns, with or without
\* changes to the headers; or it raises an error, or is not there, and the call
\* panics, for it is not protected.
CallFunction(w) ==
  /\ pc[w] = "call"
  /\ \E left \in {{}, {"modified_headers"}} :
       /\ funcs[vm[w]][kind[w]] = Gone => left = {}
       /\ env' = [env EXCEPT ![vm[w]] =
                    [g \in Globals |-> IF g \in Given(kind[w]) \cup left THEN w ELSE @[g]]]
  /\ Goes(w, "put")
  /\ UNCHANGED <<fileVars, cache, poolVars, funcs, kind, vm, info, text, aborted>>

\* Mutant: the state is back in the channel before it is reset.
PutLuaVM_Keeps(w) ==
  /\ pc[w] = "put"
  /\ \/ /\ Len(pool) < MaxPool
        /\ pool' = Append(pool, vm[w])
        /\ UNCHANGED open
     \/ /\ Len(pool) >= MaxPool
        /\ open' = open \ {vm[w]}
        /\ UNCHANGED pool
  /\ Goes(w, "idle")
  /\ vm' = [vm EXCEPT ![w] = NoVM] /\ kind' = [kind EXCEPT ![w] = NoKind]
  /\ info' = [info EXCEPT ![w] = Gone] /\ text' = [text EXCEPT ![w] = Gone]
  /\ UNCHANGED <<fileVars, cache, vmVars, aborted>>

\* Deferred, so after an error and after a panic, too: clear the globals, then
\* give the state back, or close it if the channel is full.
PutLuaVM(w) ==
  /\ pc[w] = "put"
  /\ env' = [env EXCEPT ![vm[w]] = [g \in Globals |-> IF g \in ResetGlobals THEN NoOne ELSE @[g]]]
  /\ \/ /\ Len(pool) < MaxPool
        /\ pool' = Append(pool, vm[w])
        /\ UNCHANGED open
     \/ /\ Len(pool) >= MaxPool
        /\ open' = open \ {vm[w]}
        /\ UNCHANGED pool
  /\ Goes(w, "idle")
  /\ vm' = [vm EXCEPT ![w] = NoVM] /\ kind' = [kind EXCEPT ![w] = NoKind]
  /\ info' = [info EXCEPT ![w] = Gone] /\ text' = [text EXCEPT ![w] = Gone]
  /\ UNCHANGED <<fileVars, cache, funcs, aborted>>

-----------------------------------------------------------------------------
(* Someone edits a script, or removes it *)

Edit(k) ==
  /\ k \in Edited /\ last[k] < MaxVersion
  /\ last' = [last EXCEPT ![k] = @ + 1]
  /\ file' = [file EXCEPT ![k] = last'[k]]
  /\ UNCHANGED <<cache, poolVars, vmVars, callVars, aborted>>

Remove(k) ==
  /\ k \in Edited /\ file[k] # Gone
  /\ file' = [file EXCEPT ![k] = Gone]
  /\ UNCHANGED <<last, cache, poolVars, vmVars, callVars, aborted>>

LoadStep(w) == StatFile(w) \/ LookUp(w) \/ ReadFile(w) \/ StoreScript(w)

Next ==
  /\ ~aborted
  /\ \/ \E w \in Workers, k \in Kinds : GetLuaVM(w, k)
     \/ \E w \in Workers : NewVM(w) \/ LoadStep(w) \/ CallFunction(w) \/ PutLuaVM(w)
     \/ \E k \in Kinds : Edit(k) \/ Remove(k)

Spec == Init /\ [][Next]_vars

-----------------------------------------------------------------------------
(* Properties *)

\* Every variable has its type, and the channel keeps to its capacity.
TypeOK ==
  /\ file \in [Kinds -> Versions \cup {Gone}] /\ last \in [Kinds -> Versions]
  /\ cache \in [Kinds -> [time : Versions \cup {Gone}, text : Versions \cup {Gone}]]
  /\ pool \in Seq(VMs) /\ Len(pool) <= MaxPool /\ open \subseteq VMs
  /\ funcs \in [VMs -> [Kinds -> Versions \cup {Gone}]]
  /\ env \in [VMs -> [Globals -> Workers \cup {NoOne}]]
  /\ pc \in [Workers -> {"idle", "new", "stat", "lookup", "read", "store", "call", "put"}]
  /\ kind \in [Workers -> Kinds \cup {NoKind}] /\ vm \in [Workers -> VMs \cup {NoVM}]
  /\ info \in [Workers -> Versions \cup {Gone}] /\ text \in [Workers -> Versions \cup {Gone}]
  /\ aborted \in BOOLEAN

\* A Lua state is not safe for concurrent use: every open one is in the channel,
\* once, or in the hands of one callback; none is lost, whatever fails on the way.
OneOwner ==
  /\ \A i, j \in 1..Len(pool) : pool[i] = pool[j] => i = j
  /\ \A w \in Workers : vm[w] # NoVM => vm[w] \in open \ Pooled
  /\ \A w, u \in Workers : vm[w] # NoVM /\ vm[w] = vm[u] => w = u
  /\ open = Pooled \cup ({vm[w] : w \in Workers} \ {NoVM})

\* What a script sees, and what is taken for its changes to the headers, belongs
\* to the request at hand, though the state has served others, and they may have
\* failed.  content_length is the exception: a request script can see that of an
\* earlier response.
Isolated ==
  \A w \in Workers : vm[w] # NoVM =>
    \A g \in ResetGlobals : env[vm[w]][g] \in {w, NoOne}

\* An edit is followed at once (main.go:131-144): a callback that has seen its
\* script runs no older version of it, whoever filled the cache, and whatever
\* its state has run before.
Fresh ==
  \A w \in Workers :
    pc[w] = "call" /\ info[w] # Gone => funcs[vm[w]][kind[w]] >= info[w]

=============================================================================
