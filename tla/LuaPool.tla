------------------------------- MODULE LuaPool -------------------------------
(***************************************************************************)
(* Hot reload in examples/rewrite_by_lua_v2: Config (config.go), which     *)
(* re-reads the Lua script when the file changes, and Pool (lua.go), the   *)
(* cache of Lua states that the handlers of the proxy run callbacks in.    *)
(* A reload empties the pool from inside Config's lock; Get reads the      *)
(* script from inside the pool's.  Workers are the goroutines that serve   *)
(* client connections, Admins the requests for /api/config/reload, each of *)
(* which a goroutine of its own serves.                                    *)
(*                                                                         *)
(* A version of the script stands for its text.  Every edit of the file    *)
(* gives it a later modification time, so a version stands for that too.   *)
(***************************************************************************)
EXTENDS Naturals, Sequences, FiniteSets

CONSTANTS
  Workers,
  Watcher, Admins,   \* what calls Config.Reload: Watch, and the requests that do
  MaxStates,         \* bound: this many Lua states of one version at a time
  MaxSize,           \* the capacity of the pool (8 in main.go)
  MaxVersion,        \* bound: the file is edited at most MaxVersion - 1 times
  BadScripts,        \* the versions that do not run
  NoOne, NoState

Reloaders == {Watcher} \cup Admins
Versions == 1..MaxVersion

\* A Lua state runs the script it was made with.
LStates == [n : 1..MaxStates, script : Versions]

ASSUME LuaPoolAssumption ==
  /\ MaxSize \in Nat \ {0}
  /\ MaxVersion \in Nat \ {0}
  /\ BadScripts \subseteq Versions
  /\ MaxStates \in Nat
  /\ NoState \notin LStates
  /\ NoOne \notin Workers \cup Reloaders
  /\ Workers \cap Reloaders = {}
  /\ Watcher \notin Admins

VARIABLES
  disk,       \* the version that is in the file
  script, modTime,  \* Config: the version in force, the time recorded for it
  cmu,        \* the goroutine that holds Config.mu for writing
  pmu,        \* the goroutine that holds Pool.mu
  arrays,     \* the backing arrays Pool.states has had, the last one in use
  len,        \* len(Pool.states)
  open,       \* the Lua states that are not closed
  wpc, want, held,   \* a worker: where it is, the script and the state it has
  rpc, info, old, at \* a reloader: where it is, the time it has seen, and
                     \* in Recreate the old states and the next one to close

configVars == <<script, modTime, cmu>>
poolVars == <<pmu, arrays, len>>
workerVars == <<wpc, want, held>>
reloadVars == <<rpc, info, old, at>>
vars == <<disk, configVars, poolVars, open, workerVars, reloadVars>>

NoSlice == [arr |-> 0, len |-> 0]

\* main: LoadConfig has read the file, the pool is empty.
Init ==
  /\ disk = 1
  /\ script = 1 /\ modTime = 1 /\ cmu = NoOne
  /\ pmu = NoOne /\ arrays = <<>> /\ len = 0
  /\ open = {}
  /\ wpc = [w \in Workers |-> "idle"]
  /\ want = [w \in Workers |-> 0]
  /\ held = [w \in Workers |-> NoState]
  /\ rpc = [r \in Reloaders |-> "idle"]
  /\ info = [r \in Reloaders |-> 0]
  /\ old = [r \in Reloaders |-> NoSlice]
  /\ at = [r \in Reloaders |-> 0]

-----------------------------------------------------------------------------
(* Pool.states, a Go slice: append writes into the backing array while it  *)
(* has room, and moves to one of twice the size when it has not.           *)

Array == IF arrays = <<>> THEN <<>> ELSE arrays[Len(arrays)]

Pooled == {Array[i] : i \in 1..len}

Grown(L) ==
  [i \in 1..(IF len = 0 THEN 1 ELSE 2 * len) |->
     IF i <= len THEN Array[i] ELSE IF i = len + 1 THEN L ELSE NoState]

AppendState(L) ==
  /\ arrays' = IF len < Len(Array)
               THEN [arrays EXCEPT ![Len(arrays)][len + 1] = L]
               ELSE Append(arrays, Grown(L))
  /\ len' = len + 1

\* A Lua state is made anew once nothing refers to it.
Referenced ==
  {held[w] : w \in Workers} \cup
  UNION {{arrays[k][i] : i \in DOMAIN arrays[k]} : k \in DOMAIN arrays}

Unused(v) == CHOOSE L \in LStates \ Referenced : L.script = v

-----------------------------------------------------------------------------
(* Workers: a handler calls Get, runs its callback, and calls Put *)

WorkerGoes(w, to) == wpc' = [wpc EXCEPT ![w] = to]

Call(w) ==
  /\ wpc[w] = "idle"
  /\ WorkerGoes(w, "lock")
  /\ UNCHANGED <<disk, configVars, poolVars, open, want, held, reloadVars>>

LockPool(w) ==
  /\ wpc[w] = "lock"
  /\ pmu = NoOne
  /\ pmu' = w
  /\ WorkerGoes(w, "get")
  /\ UNCHANGED <<disk, configVars, arrays, len, open, want, held, reloadVars>>

\* Mutants: the state stays in the pool; the pool stays locked.
Get_Peeks(w) ==
  /\ wpc[w] = "get"
  /\ cmu = NoOne
  /\ \/ /\ len > 0
        /\ held' = [held EXCEPT ![w] = Array[len]]
        /\ WorkerGoes(w, "use")
        /\ UNCHANGED want
     \/ /\ len = 0
        /\ want' = [want EXCEPT ![w] = script]
        /\ WorkerGoes(w, "load")
        /\ UNCHANGED held
  /\ pmu' = NoOne
  /\ UNCHANGED <<disk, configVars, arrays, len, open, reloadVars>>

Get_StaysLocked(w) ==
  /\ wpc[w] = "get"
  /\ cmu = NoOne
  /\ \/ /\ len > 0
        /\ held' = [held EXCEPT ![w] = Array[len]]
        /\ len' = len - 1
        /\ WorkerGoes(w, "use")
        /\ UNCHANGED <<want, pmu>>
     \/ /\ len = 0
        /\ want' = [want EXCEPT ![w] = script]
        /\ WorkerGoes(w, "load")
        /\ pmu' = NoOne
        /\ UNCHANGED <<held, len>>
  /\ UNCHANGED <<disk, configVars, arrays, open, reloadVars>>

\* With Pool.mu held: read the script, which needs Config.mu, then take the last
\* state, if there is one, and unlock.
Get(w) ==
  /\ wpc[w] = "get"
  /\ cmu = NoOne
  /\ \/ /\ len > 0
        /\ held' = [held EXCEPT ![w] = Array[len]]
        /\ len' = len - 1
        /\ WorkerGoes(w, "use")
        /\ UNCHANGED want
     \/ /\ len = 0
        /\ want' = [want EXCEPT ![w] = script]
        /\ WorkerGoes(w, "load")
        /\ UNCHANGED <<held, len>>
  /\ pmu' = NoOne
  /\ UNCHANGED <<disk, configVars, arrays, open, reloadVars>>

\* Without a lock: make a state and run the script, which may fail.
Load(w) ==
  /\ wpc[w] = "load"
  /\ want' = [want EXCEPT ![w] = 0]
  /\ \/ /\ want[w] \in BadScripts
        /\ WorkerGoes(w, "idle")
        /\ UNCHANGED <<open, held>>
     \/ /\ want[w] \notin BadScripts
        /\ \E L \in LStates \ Referenced :
             /\ L = Unused(want[w])
             /\ held' = [held EXCEPT ![w] = L]
             /\ open' = open \cup {L}
        /\ WorkerGoes(w, "use")
  /\ UNCHANGED <<disk, configVars, poolVars, reloadVars>>

\* The callback is over: put the state back, or close it if the pool is full.
Put(w) ==
  /\ wpc[w] = "use"
  /\ pmu = NoOne
  /\ \/ len < MaxSize /\ AppendState(held[w]) /\ UNCHANGED open
     \/ /\ len >= MaxSize
        /\ open' = open \ {held[w]}
        /\ UNCHANGED <<arrays, len>>
  /\ held' = [held EXCEPT ![w] = NoState]
  /\ WorkerGoes(w, "idle")
  /\ UNCHANGED <<disk, configVars, pmu, want, reloadVars>>

-----------------------------------------------------------------------------
(* Reloaders: Config.Watch, AdminServer.handleReload, Config.Reload *)

ReloaderGoes(r, to) == rpc' = [rpc EXCEPT ![r] = to]

\* Watch: the ticker fires and the file is looked at ...
Tick ==
  /\ rpc[Watcher] = "idle"
  /\ info' = [info EXCEPT ![Watcher] = disk]
  /\ ReloaderGoes(Watcher, "compare")
  /\ UNCHANGED <<disk, configVars, poolVars, open, workerVars, old, at>>

\* ... and its time compared with the recorded one.
Compare ==
  /\ rpc[Watcher] = "compare"
  /\ cmu = NoOne
  /\ ReloaderGoes(Watcher, IF info[Watcher] > modTime THEN "reload" ELSE "idle")
  /\ info' = [info EXCEPT ![Watcher] = 0]
  /\ UNCHANGED <<disk, configVars, poolVars, open, workerVars, old, at>>

\* A request for /api/config/reload.
Request(r) ==
  /\ r \in Admins
  /\ rpc[r] = "idle"
  /\ ReloaderGoes(r, "reload")
  /\ UNCHANGED <<disk, configVars, poolVars, open, workerVars, info, old, at>>

\* Reload takes the lock and looks at the file ...
LockAndStat(r) ==
  /\ rpc[r] = "reload"
  /\ cmu = NoOne
  /\ cmu' = r
  /\ info' = [info EXCEPT ![r] = disk]
  /\ ReloaderGoes(r, "read")
  /\ UNCHANGED <<disk, script, modTime, poolVars, open, workerVars, old, at>>

\* Mutant: the file is read first and then looked at.
ReadFile_StatsLast(r) ==
  /\ rpc[r] = "read"
  /\ script' = info[r]
  /\ modTime' = disk
  /\ info' = [info EXCEPT ![r] = 0]
  /\ ReloaderGoes(r, "onChange")
  /\ UNCHANGED <<disk, cmu, poolVars, open, workerVars, old, at>>

\* ... and reads it.  The time it had before is recorded.
ReadFile(r) ==
  /\ rpc[r] = "read"
  /\ script' = disk
  /\ modTime' = info[r]
  /\ info' = [info EXCEPT ![r] = 0]
  /\ ReloaderGoes(r, "onChange")
  /\ UNCHANGED <<disk, cmu, poolVars, open, workerVars, old, at>>

\* Mutant: the error return leaves Config locked.
FileFails_StaysLocked(r) ==
  /\ rpc[r] = "read"
  /\ info' = [info EXCEPT ![r] = 0]
  /\ ReloaderGoes(r, IF r = Watcher THEN "idle" ELSE "done")
  /\ UNCHANGED <<disk, configVars, poolVars, open, workerVars, old, at>>

\* The file could not be looked at, or cannot be read, say while an editor replaces it.
FileFails(r) ==
  /\ rpc[r] = "read"
  /\ cmu' = NoOne
  /\ info' = [info EXCEPT ![r] = 0]
  /\ ReloaderGoes(r, IF r = Watcher THEN "idle" ELSE "done")
  /\ UNCHANGED <<disk, script, modTime, poolVars, open, workerVars, old, at>>

\* Pool.Recreate, called by onChange with Config.mu held and, once more, by
\* handleReload without: empty the slice under Pool.mu ...
Recreate(r) ==
  /\ rpc[r] \in {"onChange", "again"}
  /\ pmu = NoOne
  /\ old' = [old EXCEPT ![r] = [arr |-> Len(arrays), len |-> len]]
  /\ at' = [at EXCEPT ![r] = 1]
  /\ len' = 0
  /\ ReloaderGoes(r, IF rpc[r] = "onChange" THEN "close" ELSE "closeAgain")
  /\ UNCHANGED <<disk, configVars, pmu, arrays, open, workerVars, info>>

\* ... then, without it, close what the backing array of the old slice holds by
\* now (lua.go:65-71).
CloseNext(r) ==
  /\ rpc[r] \in {"close", "closeAgain"}
  /\ at[r] <= old[r].len
  /\ open' = open \ {arrays[old[r].arr][at[r]]}
  /\ at' = [at EXCEPT ![r] = @ + 1]
  /\ UNCHANGED <<disk, configVars, poolVars, workerVars, rpc, info, old>>

\* Recreate returns; the first time Reload does too and unlocks Config.mu.
RecreateEnds(r) ==
  /\ rpc[r] \in {"close", "closeAgain"}
  /\ at[r] > old[r].len
  /\ cmu' = IF rpc[r] = "close" THEN NoOne ELSE cmu
  /\ ReloaderGoes(r, CASE r = Watcher -> "idle"
                          [] r # Watcher /\ rpc[r] = "close" -> "again"
                          [] r # Watcher /\ rpc[r] = "closeAgain" -> "done")
  /\ old' = [old EXCEPT ![r] = NoSlice]
  /\ at' = [at EXCEPT ![r] = 0]
  /\ UNCHANGED <<disk, script, modTime, poolVars, open, workerVars, info>>

\* Someone edits the file.
Edit ==
  /\ disk < MaxVersion
  /\ disk' = disk + 1
  /\ UNCHANGED <<configVars, poolVars, open, workerVars, reloadVars>>

-----------------------------------------------------------------------------

WorkerStep(w) == LockPool(w) \/ Get(w) \/ Load(w) \/ Put(w)
ReloadStep(r) ==
  \/ LockAndStat(r) \/ ReadFile(r) \/ Recreate(r) \/ CloseNext(r) \/ RecreateEnds(r)
  \/ r = Watcher /\ (Tick \/ Compare)

Next ==
  \/ \E w \in Workers : Call(w) \/ WorkerStep(w)
  \/ \E r \in Reloaders : Request(r) \/ ReloadStep(r) \/ FileFails(r)
  \/ Edit

Spec == Init /\ [][Next]_vars

\* Callbacks end.  sync.Mutex hands itself to a waiter that starves, so a lock
\* that is free again and again is obtained; and a file that can be read again
\* and again is read in the end.
FairSpec ==
  /\ Spec
  /\ \A w \in Workers : SF_vars(WorkerStep(w))
  /\ \A r \in Reloaders : SF_vars(ReloadStep(r))
  /\ SF_vars(ReadFile(Watcher))

-----------------------------------------------------------------------------
(* Properties *)

\* Every variable has its type, and the pool keeps to its capacity.
TypeOK ==
  /\ disk \in Versions /\ script \in Versions /\ modTime \in Versions
  /\ cmu \in Reloaders \cup {NoOne}
  /\ pmu \in Workers \cup {NoOne}
  /\ arrays \in Seq(Seq(LStates \cup {NoState}))
  /\ len \in 0..MaxSize
  /\ len <= Len(Array)
  /\ open \subseteq LStates
  /\ wpc \in [Workers -> {"idle", "lock", "get", "load", "use"}]
  /\ want \in [Workers -> 0..MaxVersion]
  /\ held \in [Workers -> LStates \cup {NoState}]
  /\ rpc \in [Reloaders -> {"idle", "compare", "reload", "read", "onChange",
                            "close", "again", "closeAgain", "done"}]
  /\ info \in [Reloaders -> 0..MaxVersion]
  /\ old \in [Reloaders -> [arr : Nat, len : 0..MaxSize]]
  /\ at \in [Reloaders -> 0..(MaxSize + 1)]

\* A Lua state is not safe for concurrent use: it is in the hands of one worker,
\* or once in the pool, whatever Recreate does meanwhile (README.md:23).
OneOwner ==
  /\ \A w \in Workers : held[w] # NoState => held[w] \notin Pooled
  /\ \A w, v \in Workers : held[w] # NoState /\ held[w] = held[v] => w = v
  /\ \A i, j \in 1..len : Array[i] = Array[j] => i = j

\* Reload records a time that is not later than the text it has read, so that an
\* edit in between is seen by the next tick.
EditsAreSeen == modTime = disk => script = disk

\* A goroutine in Get holds Pool.mu and waits for Config.mu, one in Reload holds
\* Config.mu and waits for Pool.mu.
Embrace ==
  \E w \in Workers, r \in Reloaders :
    pmu = w /\ wpc[w] = "get" /\ cmu = r /\ rpc[r] = "onChange"

\* Nothing but that cycle keeps a handler or a reload from coming to its end.
CallsEndOrEmbrace ==
  /\ \A w \in Workers : []<>(wpc[w] = "idle" \/ Embrace)
  /\ \A r \in Reloaders : []<>(rpc[r] \in {"idle", "done"} \/ Embrace)

\* And nothing else keeps an edit from coming into force.
EditsTakeEffect == \A v \in Versions : disk = v ~> script >= v \/ Embrace

\* README.md:18-20: reloading needs no restart, later requests use the new script;
\* so a request is never blocked for good.
CallsEnd == \A w \in Workers : wpc[w] # "idle" ~> wpc[w] = "idle"

=============================================================================
