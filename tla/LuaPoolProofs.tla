---------------------------- MODULE LuaPoolProofs ----------------------------
(* Theorems about LuaPool, for any goroutines and any number of edits. *)
EXTENDS LuaPool, TLAPS

\* What EditsAreSeen rests on: nothing is later than the file, and the recorded
\* time is not later than the text.
StampInv ==
  /\ disk \in Nat /\ script \in Nat /\ modTime \in Nat
  /\ info \in [Reloaders -> Nat]
  /\ modTime <= script /\ script <= disk
  /\ \A r \in Reloaders : info[r] <= disk

\* The file has a version and Config has read it.
LEMMA StampInit == Init => StampInv
  BY DEF Init, StampInv

\* Only Tick, Compare, LockAndStat, ReadFile, FileFails and Edit touch times.
LEMMA StampStep == StampInv /\ [Next]_vars => StampInv'
  <1> SUFFICES ASSUME StampInv, [Next]_vars
               PROVE  StampInv'
      OBVIOUS
  <1> USE DEF StampInv
  <1> Watcher \in Reloaders
      BY DEF Reloaders
  <1>1. ASSUME NEW w \in Workers, Call(w) \/ WorkerStep(w)
        PROVE  StampInv'
        BY <1>1 DEF Call, WorkerStep, LockPool, Get, Load, Put, configVars, reloadVars
  <1>2. ASSUME NEW r \in Reloaders, Request(r)
        PROVE  StampInv'
        BY <1>2 DEF Request, configVars
  <1>3. ASSUME NEW r \in Reloaders, LockAndStat(r)
        PROVE  StampInv'
        BY <1>3 DEF LockAndStat, configVars
  <1>4. ASSUME NEW r \in Reloaders, ReadFile(r)
        PROVE  StampInv'
        BY <1>4 DEF ReadFile
  <1>5. ASSUME NEW r \in Reloaders, FileFails(r)
        PROVE  StampInv'
        BY <1>5 DEF FileFails
  <1>6. ASSUME NEW r \in Reloaders, Recreate(r) \/ CloseNext(r) \/ RecreateEnds(r)
        PROVE  StampInv'
        BY <1>6 DEF Recreate, CloseNext, RecreateEnds, configVars
  <1>7. CASE Tick
        BY <1>7 DEF Tick, configVars
  <1>8. CASE Compare
        BY <1>8 DEF Compare, configVars
  <1>9. CASE Edit
        BY <1>9 DEF Edit, configVars, reloadVars
  <1>10. CASE UNCHANGED vars
        BY <1>10 DEF vars, configVars, reloadVars
  <1> QED
      BY <1>1, <1>2, <1>3, <1>4, <1>5, <1>6, <1>7, <1>8, <1>9, <1>10 DEF Next, ReloadStep

\* The watcher never takes a text for newer than it is: an edit made after the
\* script in force was read has a later time than the recorded one (config.go:76).
THEOREM NoEditLost == Spec => []EditsAreSeen
  <1>1. StampInv => EditsAreSeen
        BY DEF StampInv, EditsAreSeen
  <1> QED
      BY <1>1, StampInit, StampStep, PTL DEF Spec

-----------------------------------------------------------------------------

\* What OneOwner rests on: the slots of the slice are there and hold states, and a
\* callback runs with a state.
OwnerInv ==
  /\ arrays \in Seq(Seq(LStates \cup {NoState}))
  /\ len \in Nat /\ len <= Len(Array)
  /\ \A i \in 1..len : Array[i] \in LStates
  /\ held \in [Workers -> LStates \cup {NoState}]
  /\ wpc \in [Workers -> {"idle", "lock", "get", "load", "use"}]
  /\ \A w \in Workers : wpc[w] = "use" => held[w] \in LStates
  /\ OneOwner

LEMMA OwnerInit == Init => OwnerInv
  BY LuaPoolAssumption DEF Init, OwnerInv, OneOwner, Array

\* append leaves what the slice holds where it is, in the same array or a larger one.
LEMMA Appended ==
  ASSUME arrays \in Seq(Seq(LStates \cup {NoState})), len \in Nat, len <= Len(Array),
         NEW L \in LStates, AppendState(L)
  PROVE  /\ arrays' \in Seq(Seq(LStates \cup {NoState}))
         /\ len' = len + 1 /\ len' <= Len(Array')
         /\ Array'[len + 1] = L /\ \A i \in 1..len : Array'[i] = Array[i]
  <1> DEFINE S == Seq(LStates \cup {NoState})
  <1>1. len' = len + 1
        BY DEF AppendState
  <1>2. Array \in S
    <2>1. CASE arrays = <<>>
          BY <2>1 DEF Array
    <2>2. CASE arrays # <<>>
      <3>1. Len(arrays) \in 1..Len(arrays) /\ Array = arrays[Len(arrays)]
            BY <2>2 DEF Array
      <3> QED
          BY <3>1
    <2> QED
        BY <2>1, <2>2
  <1>3. CASE len < Len(Array)
    <2> DEFINE A == [Array EXCEPT ![len + 1] = L]
    <2>1. arrays # <<>> /\ Len(arrays) \in 1..Len(arrays) /\ Array = arrays[Len(arrays)]
          BY <1>3 DEF Array
    <2>2. arrays' = [arrays EXCEPT ![Len(arrays)] = A]
          BY <1>3, <2>1 DEF AppendState
    <2>3. len + 1 \in 1..Len(Array)
          BY <1>3
    <2>4. A \in S /\ Len(A) = Len(Array)
          BY <1>2, <2>3
    <2>5. A[len + 1] = L /\ \A i \in 1..len : A[i] = Array[i]
          BY <1>2, <2>3
    <2> HIDE DEF A
    <2>6. arrays' \in Seq(S) /\ Len(arrays') = Len(arrays) /\ arrays'[Len(arrays)] = A
          BY <2>1, <2>2, <2>4
    <2>7. Array' = A
          BY <2>1, <2>6 DEF Array
    <2> QED
        BY <1>1, <2>3, <2>4, <2>5, <2>6, <2>7
  <1>4. CASE ~(len < Len(Array))
    <2> DEFINE size == IF len = 0 THEN 1 ELSE 2 * len
    <2>1. len + 1 \in 1..size /\ size \in Nat
          OBVIOUS
    <2>2. /\ Grown(L) \in S /\ Len(Grown(L)) = size
          /\ Grown(L)[len + 1] = L /\ \A i \in 1..len : Grown(L)[i] = Array[i]
      <3>1. \A i \in 1..size : i <= len => Array[i] \in LStates \cup {NoState}
            BY <1>2
      <3>2. Grown(L) \in [1..size -> LStates \cup {NoState}]
            BY <3>1 DEF Grown
      <3> QED
          BY <2>1, <3>2 DEF Grown
    <2>3. arrays' = Append(arrays, Grown(L))
          BY <1>4 DEF AppendState
    <2>4. arrays' \in Seq(S) /\ Len(arrays') = Len(arrays) + 1 /\ arrays'[Len(arrays')] = Grown(L)
          BY <2>2, <2>3
    <2>5. Array' = Grown(L)
          BY <2>4 DEF Array
    <2> QED
        BY <1>1, <2>1, <2>2, <2>4, <2>5
  <1> QED
      BY <1>3, <1>4

\* Get takes the last state of the slice, Load makes one that nothing refers to, Put
\* gives one back; Recreate only takes states away.
LEMMA OwnerStep == OwnerInv /\ [Next]_vars => OwnerInv'
  <1> SUFFICES ASSUME OwnerInv, [Next]_vars
               PROVE  OwnerInv'
      OBVIOUS
  <1> USE LuaPoolAssumption DEF OwnerInv
  <1>1. ASSUME NEW w \in Workers, Call(w) \/ LockPool(w)
        PROVE  OwnerInv'
    <2>1. /\ UNCHANGED <<arrays, len, held>>
          /\ \E to \in {"lock", "get"} : wpc' = [wpc EXCEPT ![w] = to]
          BY <1>1 DEF Call, LockPool, WorkerGoes, poolVars
    <2> QED
        BY <2>1 DEF OneOwner, Pooled, Array
  <1>2. ASSUME NEW w \in Workers, Get(w)
        PROVE  OwnerInv'
    <2>1. arrays' = arrays /\ Array' = Array
          BY <1>2 DEF Get, Array
    <2>2. CASE len > 0
      <3>1. held' = [held EXCEPT ![w] = Array[len]] /\ len' = len - 1 /\ wpc' = [wpc EXCEPT ![w] = "use"]
            BY <1>2, <2>2 DEF Get, WorkerGoes
      <3>2. Array[len] \in LStates \cap Pooled /\ Pooled' = {Array[i] : i \in 1..(len - 1)}
            BY <2>1, <2>2, <3>1 DEF Pooled
      <3>3. Array[len] \notin Pooled' /\ Pooled' \subseteq Pooled
        <4>1. \A i \in 1..(len - 1) : i \in 1..len /\ i # len /\ len \in 1..len
              BY <2>2
        <4>2. \A i \in 1..(len - 1) : Array[i] # Array[len] /\ Array[i] \in Pooled
              BY <4>1 DEF OneOwner, Pooled
        <4> QED
            BY <3>2, <4>2
      <3>4. OneOwner'
            BY <2>1, <2>2, <3>1, <3>2, <3>3 DEF OneOwner
      <3>5. /\ held' \in [Workers -> LStates \cup {NoState}]
            /\ \A u \in Workers : wpc'[u] = "use" => held'[u] \in LStates
            BY <3>1, <3>2
      <3> QED
          BY <2>1, <2>2, <3>1, <3>4, <3>5
    <2>3. CASE len = 0
      <3>1. UNCHANGED <<len, held>> /\ wpc' = [wpc EXCEPT ![w] = "load"]
            BY <1>2, <2>3 DEF Get, WorkerGoes
      <3>2. OneOwner'
            BY <2>1, <3>1 DEF OneOwner, Pooled
      <3>3. /\ wpc' \in [Workers -> {"idle", "lock", "get", "load", "use"}]
            /\ \A u \in Workers : wpc'[u] = "use" => held'[u] \in LStates
            BY <3>1
      <3> QED
          BY <2>1, <3>1, <3>2, <3>3
    <2> QED
        BY <2>2, <2>3
  <1>3. ASSUME NEW w \in Workers, Load(w)
        PROVE  OwnerInv'
    <2>1. UNCHANGED <<arrays, len>> /\ Array' = Array /\ Pooled' = Pooled
          BY <1>3 DEF Load, poolVars, Array, Pooled
    <2>2. CASE wpc' = [wpc EXCEPT ![w] = "idle"] /\ held' = held
          BY <2>1, <2>2 DEF OneOwner
    <2>3. CASE \E L \in LStates \ Referenced : held' = [held EXCEPT ![w] = L] /\ wpc' = [wpc EXCEPT ![w] = "use"]
      <3>1. PICK L \in LStates \ Referenced : held' = [held EXCEPT ![w] = L] /\ wpc' = [wpc EXCEPT ![w] = "use"]
            BY <2>3
      <3>2. \A u \in Workers : held[u] # L
            BY <3>1 DEF Referenced
      <3>3. L \notin Pooled
        <4>1. SUFFICES ASSUME NEW i \in 1..len
                       PROVE  Array[i] # L
              BY DEF Pooled
        <4>2. arrays # <<>> /\ Len(arrays) \in DOMAIN arrays /\ Array = arrays[Len(arrays)]
              BY DEF Array
        <4>3. i \in DOMAIN arrays[Len(arrays)]
              BY <4>2
        <4> QED
            BY <3>1, <4>2, <4>3 DEF Referenced
      <3> QED
          BY <2>1, <3>1, <3>2, <3>3 DEF OneOwner
    <2> QED
        BY <1>3, <2>2, <2>3 DEF Load, WorkerGoes
  <1>4. ASSUME NEW w \in Workers, Put(w)
        PROVE  OwnerInv'
    <2>1. /\ held[w] \in LStates /\ held[w] \notin Pooled
          /\ held' = [held EXCEPT ![w] = NoState] /\ wpc' = [wpc EXCEPT ![w] = "idle"]
          BY <1>4 DEF Put, WorkerGoes, OneOwner
    <2>2. CASE AppendState(held[w])
      <3>1. /\ arrays' \in Seq(Seq(LStates \cup {NoState}))
            /\ len' = len + 1 /\ len' <= Len(Array')
            /\ Array'[len + 1] = held[w] /\ \A i \in 1..len : Array'[i] = Array[i]
            BY <2>1, <2>2, Appended
      <3>2. \A i \in 1..len' : i \in 1..len \/ i = len + 1
            BY <3>1
      <3>3. \A i \in 1..len' : Array'[i] \in LStates /\ Array'[i] \in Pooled \cup {held[w]}
            BY <2>1, <3>1, <3>2 DEF Pooled
      <3>4. Pooled' \subseteq Pooled \cup {held[w]}
            BY <3>3 DEF Pooled
      <3>5. \A i, j \in 1..len' : Array'[i] = Array'[j] => i = j
        <4>1. \A i \in 1..len : Array'[i] # held[w]
              BY <2>1, <3>1 DEF Pooled
        <4>2. \A i, j \in 1..len : Array'[i] = Array'[j] => i = j
              BY <3>1 DEF OneOwner
        <4> QED
            BY <3>1, <3>2, <4>1, <4>2
      <3>6. OneOwner'
            BY <2>1, <3>4, <3>5 DEF OneOwner
      <3> QED
          BY <2>1, <3>1, <3>3, <3>6
    <2>3. CASE UNCHANGED <<arrays, len>>
          BY <2>1, <2>3 DEF OneOwner, Pooled, Array
    <2> QED
        BY <1>4, <2>2, <2>3 DEF Put
  <1>5. ASSUME NEW r \in Reloaders, Recreate(r)
        PROVE  OwnerInv'
    <2>1. UNCHANGED <<arrays, held, wpc>> /\ len' = 0 /\ Array' = Array
          BY <1>5 DEF Recreate, workerVars, Array
    <2> QED
        BY <2>1 DEF OneOwner, Pooled
  <1>6. ASSUME UNCHANGED <<arrays, len, held, wpc>>
        PROVE  OwnerInv'
        BY <1>6 DEF OneOwner, Pooled, Array
  <1>7. ASSUME NEW r \in Reloaders, Request(r) \/ FileFails(r) \/ LockAndStat(r) \/ ReadFile(r)
        PROVE  OwnerInv'
        BY <1>6, <1>7 DEF Request, FileFails, LockAndStat, ReadFile, poolVars, workerVars
  <1>8. ASSUME NEW r \in Reloaders, CloseNext(r) \/ RecreateEnds(r)
        PROVE  OwnerInv'
        BY <1>6, <1>8 DEF CloseNext, RecreateEnds, poolVars, workerVars
  <1>9. CASE Tick \/ Compare \/ Edit \/ UNCHANGED vars
        BY <1>6, <1>9 DEF Tick, Compare, Edit, vars, poolVars, workerVars
  <1> QED
      BY <1>1, <1>2, <1>3, <1>4, <1>5, <1>7, <1>8, <1>9 DEF Next, WorkerStep, ReloadStep

\* No Lua state is in two hands, though Recreate empties the slice while append
\* still writes into the array behind it (lua.go:33-71).
THEOREM StatesUnshared == Spec => []OneOwner
  <1>1. OwnerInv => OneOwner
        BY DEF OwnerInv
  <1> QED
      BY <1>1, OwnerInit, OwnerStep, PTL DEF Spec
-----------------------------------------------------------------------------

\* The time a reloader goes on with is one that the file has had.
TypeInv == TypeOK /\ \A r \in Reloaders : rpc[r] = "read" => info[r] \in Versions

LEMMA TypeInit == Init => TypeInv
  <1> SUFFICES ASSUME Init PROVE TypeInv
      OBVIOUS
  <1> USE LuaPoolAssumption DEF Init, TypeInv, Versions
  <1>1. len <= Len(Array) /\ arrays \in Seq(Seq(LStates \cup {NoState}))
        BY DEF Array
  <1> QED
      BY <1>1 DEF TypeOK, NoSlice

\* The pool takes no state beyond its capacity; the arrays are OwnerInv's.
LEMMA TypeStep == OwnerInv /\ OwnerInv' /\ TypeInv /\ [Next]_vars => TypeInv'
  <1> SUFFICES ASSUME OwnerInv, OwnerInv', TypeInv, [Next]_vars
               PROVE  TypeInv'
      OBVIOUS
  <1>0. /\ arrays' \in Seq(Seq(LStates \cup {NoState})) /\ len' <= Len(Array')
        /\ held' \in [Workers -> LStates \cup {NoState}]
        /\ wpc' \in [Workers -> {"idle", "lock", "get", "load", "use"}]
        BY DEF OwnerInv
  <1> USE LuaPoolAssumption, <1>0 DEF TypeInv, TypeOK, Versions
  <1>1. ASSUME NEW w \in Workers, Call(w) \/ LockPool(w) \/ Get(w)
        PROVE  TypeInv'
        BY SMTT(20), <1>1 DEF Call, LockPool, Get, configVars, poolVars, reloadVars
  <1>2. ASSUME NEW w \in Workers, Load(w)
        PROVE  TypeInv'
        BY SMTT(20), <1>2 DEF Load, configVars, poolVars, reloadVars
  <1>3. ASSUME NEW w \in Workers, Put(w)
        PROVE  TypeInv'
    <2>1. len' \in 0..MaxSize /\ open' \subseteq LStates
          BY SMTT(20), <1>3 DEF Put, AppendState
    <2> QED
        BY <1>3, <2>1 DEF Put, configVars, reloadVars
  <1>4. ASSUME NEW r \in Reloaders, Tick \/ Compare => r = Watcher,
               Request(r) \/ LockAndStat(r) \/ ReadFile(r) \/ FileFails(r) \/ Tick \/ Compare
        PROVE  TypeInv'
    <2>1. PICK to \in {"idle", "compare", "reload", "read", "onChange", "done"} :
            rpc' = [rpc EXCEPT ![r] = to] /\ (to = "read" => info'[r] = disk)
          BY <1>4 DEF Request, LockAndStat, ReadFile, FileFails, Tick, Compare, ReloaderGoes
    <2>2. PICK time \in 0..MaxVersion : info' = [info EXCEPT ![r] = time]
      <3>1. info' = info \/ info' = [info EXCEPT ![r] = 0] \/ info' = [info EXCEPT ![r] = disk]
            BY <1>4 DEF Request, LockAndStat, ReadFile, FileFails, Tick, Compare
      <3>2. info[r] \in 0..MaxVersion /\ info = [info EXCEPT ![r] = info[r]] /\ disk \in 0..MaxVersion
            OBVIOUS
      <3> QED
          BY <3>1, <3>2
    <2>3. script' \in Versions /\ modTime' \in Versions /\ cmu' \in Reloaders \cup {NoOne}
          BY SMTT(20), <1>4 DEF Request, LockAndStat, ReadFile, FileFails, Tick, Compare, configVars
    <2>4. UNCHANGED <<disk, poolVars, open, workerVars, old, at>>
          BY <1>4 DEF Request, LockAndStat, ReadFile, FileFails, Tick, Compare
    <2> QED
        BY <2>1, <2>2, <2>3, <2>4 DEF poolVars, workerVars
  <1>5. ASSUME NEW r \in Reloaders, Recreate(r)
        PROVE  TypeInv'
    <2>1. Len(arrays) \in Nat
          BY DEF OwnerInv
    <2>2. /\ len' = 0 /\ at' = [at EXCEPT ![r] = 1]
          /\ old' = [old EXCEPT ![r] = [arr |-> Len(arrays), len |-> len]]
          /\ \E to \in {"close", "closeAgain"} : rpc' = [rpc EXCEPT ![r] = to]
          /\ UNCHANGED <<disk, script, modTime, cmu, pmu, open, want, info>>
          BY <1>5 DEF Recreate, ReloaderGoes, configVars, workerVars
    <2>3. len' \in 0..MaxSize /\ old' \in [Reloaders -> [arr : Nat, len : 0..MaxSize]]
          BY <2>1, <2>2
    <2>4. at' \in [Reloaders -> 0..(MaxSize + 1)]
          BY <2>2
    <2>5. /\ rpc' \in [Reloaders -> {"idle", "compare", "reload", "read", "onChange",
                                     "close", "again", "closeAgain", "done"}]
          /\ \A q \in Reloaders : rpc'[q] = "read" => info'[q] \in Versions
          BY <2>2
    <2> QED
        BY <2>2, <2>3, <2>4, <2>5
  <1>6. ASSUME NEW r \in Reloaders, CloseNext(r)
        PROVE  TypeInv'
    <2>1. at[r] + 1 \in 0..(MaxSize + 1)
      <3>1. old[r].len \in 0..MaxSize /\ at[r] \in 0..(MaxSize + 1) /\ at[r] <= old[r].len
            BY <1>6 DEF CloseNext
      <3> HIDE DEF TypeInv, TypeOK
      <3> QED
          BY <3>1
    <2>2. at' \in [Reloaders -> 0..(MaxSize + 1)]
          BY <1>6, <2>1 DEF CloseNext
    <2> QED
        BY <1>6, <2>2 DEF CloseNext, configVars, poolVars, workerVars
  <1>7. ASSUME NEW r \in Reloaders, RecreateEnds(r)
        PROVE  TypeInv'
    <2>1. PICK to \in {"idle", "again", "done"} : rpc' = [rpc EXCEPT ![r] = to]
      <3>1. rpc[r] = "close" \/ rpc[r] = "closeAgain"
            BY <1>7 DEF RecreateEnds
      <3>2. CASE r = Watcher
            BY <1>7, <3>2 DEF RecreateEnds, ReloaderGoes
      <3>3. CASE r # Watcher /\ rpc[r] = "close"
            BY <1>7, <3>3 DEF RecreateEnds, ReloaderGoes
      <3>4. CASE r # Watcher /\ rpc[r] = "closeAgain"
            BY <1>7, <3>4 DEF RecreateEnds, ReloaderGoes
      <3> QED
          BY <3>1, <3>2, <3>3, <3>4
    <2>2. cmu' \in Reloaders \cup {NoOne}
          BY <1>7 DEF RecreateEnds
    <2>3. old' \in [Reloaders -> [arr : Nat, len : 0..MaxSize]] /\ at' \in [Reloaders -> 0..(MaxSize + 1)]
      <3>1. NoSlice \in [arr : Nat, len : 0..MaxSize]
            BY DEF NoSlice
      <3>2. old' = [old EXCEPT ![r] = NoSlice] /\ at' = [at EXCEPT ![r] = 0]
            BY <1>7 DEF RecreateEnds
      <3>3. /\ old \in [Reloaders -> [arr : Nat, len : 0..MaxSize]]
            /\ at \in [Reloaders -> 0..(MaxSize + 1)] /\ 0 \in 0..(MaxSize + 1)
            BY SMTT(20)
      <3> HIDE DEF TypeInv, TypeOK
      <3> QED
          BY <3>1, <3>2, <3>3
    <2>4. UNCHANGED <<disk, script, modTime, poolVars, open, workerVars, info>>
          BY <1>7 DEF RecreateEnds
    <2> QED
        BY <2>1, <2>2, <2>3, <2>4 DEF poolVars, workerVars
  <1>8. Edit => TypeInv'
        BY SMTT(20) DEF Edit, configVars, poolVars, workerVars, reloadVars
  <1>9. UNCHANGED vars => TypeInv'
        BY DEF vars, configVars, poolVars, workerVars, reloadVars
  <1> HIDE DEF TypeInv, TypeOK
  <1>10. ASSUME NEW w \in Workers, Call(w) \/ WorkerStep(w)
         PROVE  TypeInv'
         BY <1>1, <1>2, <1>3, <1>10 DEF WorkerStep
  <1>11. ASSUME NEW r \in Reloaders, Request(r) \/ ReloadStep(r) \/ FileFails(r)
         PROVE  TypeInv'
    <2>1. CASE Tick \/ Compare
          BY <1>4, <2>1 DEF Reloaders
    <2>2. CASE ~(Tick \/ Compare)
          BY <1>4, <1>5, <1>6, <1>7, <1>11, <2>2 DEF ReloadStep
    <2> QED
        BY <2>1, <2>2
  <1> QED
      BY <1>8, <1>9, <1>10, <1>11 DEF Next

\* Every variable has its type; in particular the pool never exceeds its capacity,
\* for any number of handlers and reloaders (lua.go:56-62).
THEOREM TypeCorrect == Spec => []TypeOK
  <1>1. TypeInv => TypeOK
        BY DEF TypeInv
  <1> QED
      BY <1>1, OwnerInit, OwnerStep, TypeInit, TypeStep, PTL DEF Spec
=============================================================================
