---------------------------- MODULE VMPoolProofs ----------------------------
(* Theorems about VMPool, for any number of callbacks, states and edits. *)
EXTENDS VMPool, TLAPS

Elements(s) == {s[i] : i \in 1..Len(s)}
Distinct(s) == \A i, j \in 1..Len(s) : s[i] = s[j] => i = j

\* What is received from a channel is not in it any more.
LEMMA TailElements ==
  ASSUME NEW S, NEW s \in Seq(S), s # <<>>, Distinct(s)
  PROVE  /\ Tail(s) \in Seq(S) /\ Distinct(Tail(s)) /\ Head(s) \in S
         /\ Elements(s) = Elements(Tail(s)) \cup {Head(s)}
         /\ Head(s) \notin Elements(Tail(s))
  <1>1. /\ Len(s) >= 1 /\ Head(s) = s[1] /\ Len(Tail(s)) = Len(s) - 1 /\ Len(s) \in Nat
        /\ \A i \in 1..Len(Tail(s)) : Tail(s)[i] = s[i + 1]
        OBVIOUS
  <1>2. Elements(s) = Elements(Tail(s)) \cup {Head(s)}
    <2>1. ASSUME NEW i \in 1..Len(s)
          PROVE  s[i] \in Elements(Tail(s)) \cup {Head(s)}
          <3>1. CASE i = 1
                BY <1>1, <3>1
          <3>2. CASE i # 1
            <4>1. i - 1 \in 1..Len(Tail(s)) /\ Tail(s)[i - 1] = s[i]
                  BY <1>1, <3>2
            <4> QED
                BY <4>1 DEF Elements
          <3> QED
              BY <3>1, <3>2
    <2>2. ASSUME NEW i \in 1..Len(Tail(s))
          PROVE  Tail(s)[i] \in Elements(s)
          BY <1>1 DEF Elements
    <2>3. Head(s) \in Elements(s)
          BY <1>1 DEF Elements
    <2> QED
        BY <2>1, <2>2, <2>3 DEF Elements
  <1>3. Head(s) \notin Elements(Tail(s)) /\ Distinct(Tail(s))
        BY <1>1 DEF Elements, Distinct
  <1> QED
      BY <1>1, <1>2, <1>3

\* What is sent to a channel is in it.
LEMMA AppendElements ==
  ASSUME NEW S, NEW s \in Seq(S), Distinct(s), NEW v \in S, v \notin Elements(s)
  PROVE  /\ Append(s, v) \in Seq(S) /\ Distinct(Append(s, v))
         /\ Elements(Append(s, v)) = Elements(s) \cup {v}
  <1>1. /\ Len(Append(s, v)) = Len(s) + 1 /\ Append(s, v)[Len(s) + 1] = v /\ Len(s) \in Nat
        /\ \A i \in 1..Len(s) : Append(s, v)[i] = s[i]
        /\ Append(s, v) \in Seq(S)
        OBVIOUS
  <1> DEFINE t == Append(s, v)
  <1>2. \A i \in 1..Len(t) : i \in 1..Len(s) \/ i = Len(s) + 1
        BY <1>1
  <1> HIDE DEF t
  <1>3. Distinct(t)
        BY <1>1, <1>2 DEF t, Elements, Distinct
  <1>4. Elements(t) = Elements(s) \cup {v}
    <2>1. \A i \in 1..Len(t) : t[i] \in Elements(s) \cup {v}
          BY <1>1, <1>2 DEF t, Elements
    <2>2. \A i \in 1..Len(s) : s[i] \in Elements(t)
          BY <1>1 DEF t, Elements
    <2>3. v \in Elements(t)
          BY <1>1 DEF t, Elements
    <2> QED
        BY <2>1, <2>2, <2>3 DEF Elements
  <1> QED
      BY <1>1, <1>3, <1>4 DEF t

-----------------------------------------------------------------------------

\* A callback holds a state from getLuaVM to putLuaVM.
Holding(w) == vm[w] # NoVM <=> pc[w] \notin {"idle", "new"}

OwnerInv ==
  /\ pool \in Seq(VMs) /\ open \subseteq VMs
  /\ pc \in [Workers -> {"idle", "new", "stat", "lookup", "read", "store", "call", "put"}]
  /\ vm \in [Workers -> VMs \cup {NoVM}]
  /\ \A w \in Workers : Holding(w)
  /\ OneOwner

LEMMA OwnerInit == Init => OwnerInv
  BY VMPoolAssumption DEF Init, OwnerInv, Holding, OneOwner, Pooled

\* Only GetLuaVM, NewVM and PutLuaVM move a state, each of them one.
LEMMA OwnerStep == OwnerInv /\ [Next]_vars => OwnerInv'
  <1> SUFFICES ASSUME OwnerInv, [Next]_vars
               PROVE  OwnerInv'
      OBVIOUS
  <1> USE VMPoolAssumption DEF OwnerInv, Holding
  <1>0. Distinct(pool) /\ Pooled = Elements(pool)
        BY DEF OneOwner, Distinct, Pooled, Elements
  <1>1. ASSUME NEW w \in Workers, NEW k \in Kinds, GetLuaVM(w, k)
        PROVE  OwnerInv'
    <2>1. CASE pool # <<>>
      <3>1. /\ pool' = Tail(pool) /\ vm' = [vm EXCEPT ![w] = Head(pool)]
            /\ pc' = [pc EXCEPT ![w] = "stat"] /\ open' = open /\ vm[w] = NoVM
            BY <1>1, <2>1 DEF GetLuaVM, Goes
      <3>2. /\ pool' \in Seq(VMs) /\ Distinct(pool') /\ Head(pool) \in VMs
            /\ Pooled = Elements(pool') \cup {Head(pool)} /\ Head(pool) \notin Elements(pool')
            BY <1>0, <2>1, <3>1, TailElements
      <3>3. Pooled' = Elements(pool')
            BY DEF Pooled, Elements
      <3>4. OneOwner'
        <4>1. \A i, j \in 1..Len(pool') : pool'[i] = pool'[j] => i = j
              BY <3>2 DEF Distinct
        <4>2. \A u \in Workers : vm'[u] # NoVM => vm'[u] \in open' \ Pooled'
              BY <3>1, <3>2, <3>3 DEF OneOwner
        <4>3. \A x, u \in Workers : vm'[x] # NoVM /\ vm'[x] = vm'[u] => x = u
              BY <3>1, <3>2 DEF OneOwner
        <4>4. open' = Pooled' \cup ({vm'[u] : u \in Workers} \ {NoVM})
              BY <3>1, <3>2, <3>3 DEF OneOwner
        <4> QED
            BY <4>1, <4>2, <4>3, <4>4 DEF OneOwner
      <3> QED
          BY <3>1, <3>2, <3>4
    <2>2. CASE pool = <<>>
          BY <1>1, <2>2 DEF GetLuaVM, Goes, OneOwner, Pooled
    <2> QED
        BY <2>1, <2>2
  <1>2. ASSUME NEW w \in Workers, NewVM(w)
        PROVE  OwnerInv'
    <2>1. PICK v \in VMs \ open :
            /\ open' = open \cup {v} /\ vm' = [vm EXCEPT ![w] = v]
            /\ pc' = [pc EXCEPT ![w] = "stat"] /\ pool' = pool /\ vm[w] = NoVM
          BY <1>2 DEF NewVM, Goes
    <2>2. OneOwner'
          BY <2>1 DEF OneOwner, Pooled
    <2> QED
        BY <2>1, <2>2
  <1>3. ASSUME NEW w \in Workers, LoadStep(w) \/ CallFunction(w)
        PROVE  OwnerInv'
    <2>1. /\ UNCHANGED <<pool, open, vm>> /\ pc[w] \notin {"idle", "new"}
          /\ \E to \in {"lookup", "read", "store", "call", "put"} : pc' = [pc EXCEPT ![w] = to]
          BY <1>3 DEF LoadStep, StatFile, LookUp, ReadFile, StoreScript, CallFunction, Goes,
                      LoadFrame, poolVars
    <2> QED
        BY <2>1 DEF OneOwner, Pooled
  <1>4. ASSUME NEW w \in Workers, PutLuaVM(w)
        PROVE  OwnerInv'
    <2>1. /\ vm' = [vm EXCEPT ![w] = NoVM] /\ pc' = [pc EXCEPT ![w] = "idle"]
          /\ vm[w] \in VMs /\ vm[w] \in open \ Pooled
          BY <1>4 DEF PutLuaVM, Goes, OneOwner
    <2>2. CASE pool' = Append(pool, vm[w]) /\ open' = open
      <3>1. /\ pool' \in Seq(VMs) /\ Distinct(pool')
            /\ Elements(pool') = Pooled \cup {vm[w]}
            BY <1>0, <2>1, <2>2, AppendElements
      <3>2. OneOwner'
            BY <2>1, <2>2, <3>1 DEF OneOwner, Distinct, Pooled, Elements
      <3> QED
          BY <2>1, <2>2, <3>1, <3>2
    <2>3. CASE pool' = pool /\ open' = open \ {vm[w]}
      <3>1. OneOwner'
            BY <2>1, <2>3 DEF OneOwner, Pooled
      <3> QED
          BY <2>1, <2>3, <3>1
    <2> QED
        BY <1>4, <2>2, <2>3 DEF PutLuaVM
  <1>5. ASSUME NEW k \in Kinds, Edit(k) \/ Remove(k)
        PROVE  OwnerInv'
        BY <1>5 DEF Edit, Remove, poolVars, callVars, OneOwner, Pooled
  <1>6. CASE UNCHANGED vars
        BY <1>6 DEF vars, poolVars, callVars, OneOwner, Pooled
  <1> QED
      BY <1>1, <1>2, <1>3, <1>4, <1>5, <1>6 DEF Next

\* No Lua state is in two hands or lost, though a callback may fail anywhere
\* between getLuaVM and the deferred putLuaVM (main.go:176-177).
THEOREM NoStateShared == Spec => []OneOwner
  <1>1. OwnerInv => OneOwner
        BY DEF OwnerInv
  <1> QED
      BY <1>1, OwnerInit, OwnerStep, PTL DEF Spec

-----------------------------------------------------------------------------

\* A state that nobody holds has nobody's request in it; and nobody else's while
\* a callback holds it.
CleanInv ==
  /\ env \in [VMs -> [Globals -> Workers \cup {NoOne}]]
  /\ \A v \in Pooled, g \in ResetGlobals : env[v][g] = NoOne
  /\ Isolated

LEMMA CleanInit == Init => CleanInv
  BY VMPoolAssumption DEF Init, CleanInv, Isolated, Pooled

\* CallFunction writes into the state it holds, PutLuaVM clears it.
LEMMA CleanStep == OwnerInv /\ CleanInv /\ [Next]_vars => CleanInv'
  <1> SUFFICES ASSUME OwnerInv, CleanInv, [Next]_vars
               PROVE  CleanInv'
      OBVIOUS
  <1> USE VMPoolAssumption DEF CleanInv
  <1>0. /\ OneOwner /\ Pooled = Elements(pool) /\ Distinct(pool) /\ pool \in Seq(VMs)
        /\ vm \in [Workers -> VMs \cup {NoVM}] /\ \A w \in Workers : Holding(w)
        BY DEF OwnerInv, OneOwner, Distinct, Pooled, Elements
  <1>1. ASSUME NEW w \in Workers, NEW k \in Kinds, GetLuaVM(w, k)
        PROVE  CleanInv'
    <2>1. CASE pool # <<>>
      <3>1. pool' = Tail(pool) /\ vm' = [vm EXCEPT ![w] = Head(pool)] /\ env' = env
            BY <1>1, <2>1 DEF GetLuaVM, vmVars
      <3>2. Head(pool) \in Pooled /\ Pooled' \subseteq Pooled
            BY <1>0, <2>1, <3>1, TailElements DEF Pooled, Elements
      <3> QED
          BY <1>0, <3>1, <3>2 DEF Isolated
    <2>2. CASE pool = <<>>
          BY <1>1, <2>2 DEF GetLuaVM, vmVars, Isolated, Pooled
    <2> QED
        BY <2>1, <2>2
  <1>2. ASSUME NEW w \in Workers, NewVM(w)
        PROVE  CleanInv'
    <2>1. PICK v \in VMs \ open :
            /\ vm' = [vm EXCEPT ![w] = v] /\ pool' = pool
            /\ env' = [env EXCEPT ![v] = [g \in Globals |-> NoOne]]
          BY <1>2 DEF NewVM
    <2>2. v \notin Pooled /\ Pooled' = Pooled /\ \A u \in Workers : vm[u] # v
          BY <1>0, <2>1 DEF OneOwner, Pooled
    <2> QED
        BY <1>0, <2>1, <2>2 DEF Isolated, ResetGlobals
  <1>3. ASSUME NEW w \in Workers, LoadStep(w)
        PROVE  CleanInv'
        BY <1>3 DEF LoadStep, StatFile, LookUp, ReadFile, StoreScript, LoadFrame, poolVars,
                    Isolated, Pooled
  <1>4. ASSUME NEW w \in Workers, CallFunction(w)
        PROVE  CleanInv'
    <2>1. vm[w] \in VMs \ Pooled /\ vm' = vm /\ Pooled' = Pooled
          BY <1>0, <1>4 DEF CallFunction, Holding, OneOwner, poolVars, Pooled
    <2>2. PICK left \in {{}, {"modified_headers"}} :
            env' = [env EXCEPT ![vm[w]] =
                      [g \in Globals |-> IF g \in Given(kind[w]) \cup left THEN w ELSE @[g]]]
          BY <1>4 DEF CallFunction
    <2>3. \A v \in VMs : v # vm[w] => env'[v] = env[v]
          BY <2>2
    <2>4. \A g \in Globals : env'[vm[w]][g] \in {w, env[vm[w]][g]}
          BY <2>1, <2>2
    <2>5. env' \in [VMs -> [Globals -> Workers \cup {NoOne}]]
      <3>1. env[vm[w]] \in [Globals -> Workers \cup {NoOne}]
            BY <2>1
      <3> DEFINE e == [g \in Globals |-> IF g \in Given(kind[w]) \cup left THEN w ELSE env[vm[w]][g]]
      <3>2. e \in [Globals -> Workers \cup {NoOne}]
            BY <3>1
      <3>3. env' = [env EXCEPT ![vm[w]] = e]
            BY <2>2
      <3> HIDE DEF e
      <3> QED
          BY <3>2, <3>3
    <2>6. \A v \in Pooled', g \in ResetGlobals : env'[v][g] = NoOne
      <3>1. Pooled \subseteq VMs
            BY <1>0 DEF Pooled
      <3> QED
          BY <2>1, <2>3, <3>1
    <2>7. ASSUME NEW u \in Workers, vm'[u] # NoVM, NEW g \in ResetGlobals
          PROVE  env'[vm'[u]][g] \in {u, NoOne}
      <3>1. CASE u = w
            BY <2>1, <2>4, <2>7, <3>1 DEF Isolated, ResetGlobals
      <3>2. CASE u # w
            BY <1>0, <2>1, <2>3, <2>7, <3>2 DEF Isolated, OneOwner
      <3> QED
          BY <3>1, <3>2
    <2> QED
        BY <2>5, <2>6, <2>7 DEF Isolated
  <1>5. ASSUME NEW w \in Workers, PutLuaVM(w)
        PROVE  CleanInv'
    <2>1. /\ env' = [env EXCEPT ![vm[w]] = [g \in Globals |-> IF g \in ResetGlobals THEN NoOne ELSE @[g]]]
          /\ vm' = [vm EXCEPT ![w] = NoVM] /\ pool' \in {pool, Append(pool, vm[w])}
          BY <1>5 DEF PutLuaVM
    <2>2. vm[w] \in VMs /\ vm[w] \notin Pooled
          BY <1>0, <1>5 DEF PutLuaVM, Holding, OneOwner
    <2>3. Pooled' \subseteq Pooled \cup {vm[w]}
      <3>1. CASE pool' = pool
            BY <3>1 DEF Pooled
      <3>2. CASE pool' = Append(pool, vm[w])
        <4>1. Elements(pool') = Elements(pool) \cup {vm[w]}
              BY <1>0, <2>2, <3>2, AppendElements
        <4> QED
            BY <1>0, <4>1 DEF Pooled, Elements
      <3> QED
          BY <2>1, <3>1, <3>2
    <2>4. env' \in [VMs -> [Globals -> Workers \cup {NoOne}]]
          BY <2>1, <2>2
    <2>5. \A v \in VMs : v # vm[w] => env'[v] = env[v]
          BY <2>1
    <2>6. \A g \in ResetGlobals : env'[vm[w]][g] = NoOne
          BY <2>1, <2>2 DEF ResetGlobals
    <2>7. Pooled \subseteq VMs
          BY <1>0 DEF Pooled
    <2>8. \A v \in Pooled', g \in ResetGlobals : env'[v][g] = NoOne
          BY <2>3, <2>5, <2>6, <2>7
    <2>9. Isolated'
          BY <1>0, <2>1, <2>5 DEF Isolated, OneOwner
    <2> QED
        BY <2>4, <2>8, <2>9
  <1>6. ASSUME NEW k \in Kinds, Edit(k) \/ Remove(k)
        PROVE  CleanInv'
        BY <1>6 DEF Edit, Remove, poolVars, vmVars, callVars, Isolated, Pooled
  <1>7. CASE UNCHANGED vars
        BY <1>7 DEF vars, poolVars, vmVars, callVars, Isolated, Pooled
  <1> QED
      BY <1>1, <1>2, <1>3, <1>4, <1>5, <1>6, <1>7 DEF Next

\* What putLuaVM clears never reaches another request (main.go:91-101).
THEOREM RequestsIsolated == Spec => []Isolated
  <1>1. CleanInv => Isolated
        BY DEF CleanInv
  <1> QED
      BY <1>1, OwnerInit, OwnerStep, CleanInit, CleanStep, PTL DEF Spec

-----------------------------------------------------------------------------

\* What Fresh rests on: a file only gets newer, ...
FilesInv ==
  /\ last \in [Kinds -> Nat] /\ file \in [Kinds -> Nat]
  /\ \A k \in Kinds : file[k] \in {Gone, last[k]}

\* ... what is cached is not older than the time it goes with, ...
CacheInv ==
  /\ cache \in [Kinds -> [time : Nat, text : Nat]]
  /\ \A k \in Kinds : cache[k].time <= cache[k].text

CallTypes ==
  /\ funcs \in [VMs -> [Kinds -> Nat]]
  /\ kind \in [Workers -> Kinds \cup {NoKind}]
  /\ info \in [Workers -> Nat] /\ text \in [Workers -> Nat]

\* ... and neither is what a callback reads, or runs in its state.
LoadInv(w) ==
  /\ pc[w] # "idle" => kind[w] \in Kinds
  /\ pc[w] \in {"lookup", "read"} => info[w] <= last[kind[w]]
  /\ pc[w] = "store" => /\ info[w] <= text[w]
                        /\ text[w] \in BadScripts \/ funcs[vm[w]][kind[w]] = text[w]
  /\ pc[w] = "call" /\ info[w] # Gone => funcs[vm[w]][kind[w]] >= info[w]

FreshInv == FilesInv /\ CacheInv /\ CallTypes /\ \A w \in Workers : LoadInv(w)

LEMMA FreshInit == Init => FreshInv
  BY VMPoolAssumption
  DEF Init, FreshInv, FilesInv, CacheInv, CallTypes, LoadInv, Gone, Versions

\* A callback is not disturbed by what leaves it and its state alone.
LEMMA LoadFramed ==
  ASSUME NEW u \in Workers, LoadInv(u), FilesInv, pc[u] # "idle" => kind[u] \in Kinds,
         \A k \in Kinds : last'[k] >= last[k], last' \in [Kinds -> Nat],
         info \in [Workers -> Nat],
         pc'[u] = pc[u], kind'[u] = kind[u], info'[u] = info[u], text'[u] = text[u],
         pc[u] \in {"idle", "new"} \/ (vm'[u] = vm[u] /\ funcs'[vm[u]] = funcs[vm[u]])
  PROVE  LoadInv(u)'
  <1>1. pc[u] \in {"lookup", "read"} => info'[u] <= last'[kind'[u]]
        BY DEF LoadInv, FilesInv
  <1> QED
      BY <1>1 DEF LoadInv

\* A callback runs scripts in its own state only, and no one makes a state that is
\* in use anew.
LEMMA FreshStep == OwnerInv /\ FreshInv /\ [Next]_vars => FreshInv'
  <1> SUFFICES ASSUME OwnerInv, FreshInv, [Next]_vars
               PROVE  FreshInv'
      OBVIOUS
  <1> USE VMPoolAssumption
  <1>0. /\ vm \in [Workers -> VMs \cup {NoVM}] /\ \A w \in Workers : Holding(w)
        /\ \A w, u \in Workers : vm[w] # NoVM /\ vm[w] = vm[u] => w = u
        /\ \A w \in Workers : vm[w] # NoVM => vm[w] \in open
        /\ pc \in [Workers -> {"idle", "new", "stat", "lookup", "read", "store", "call", "put"}]
        /\ FilesInv /\ CacheInv /\ CallTypes /\ \A w \in Workers : LoadInv(w)
        BY DEF OwnerInv, OneOwner, FreshInv
  <1>a. \A u \in Workers : pc[u] \in {"idle", "new"} \/ vm[u] \in VMs
        BY <1>0 DEF Holding
  <1>1. ASSUME NEW w \in Workers, NEW k \in Kinds, GetLuaVM(w, k)
        PROVE  FreshInv'
    <2>1. /\ kind' = [kind EXCEPT ![w] = k] /\ \E to \in {"stat", "new"} : pc' = [pc EXCEPT ![w] = to]
          /\ \A u \in Workers : u # w => vm'[u] = vm[u]
          /\ UNCHANGED <<file, last, cache, funcs, info, text>>
          BY <1>0, <1>1 DEF GetLuaVM, Goes, fileVars, vmVars
    <2>2. FilesInv' /\ CacheInv' /\ CallTypes'
          BY <1>0, <2>1 DEF FilesInv, CacheInv, CallTypes
    <2>3. LoadInv(w)'
          BY <1>0, <2>1 DEF LoadInv, CallTypes
    <2>4. ASSUME NEW u \in Workers, u # w
          PROVE  LoadInv(u)'
          BY <1>0, <2>1, <2>4, LoadFramed DEF LoadInv, FilesInv, CallTypes
    <2> QED
        BY <2>2, <2>3, <2>4 DEF FreshInv
  <1>2. ASSUME NEW w \in Workers, NewVM(w)
        PROVE  FreshInv'
    <2>1. PICK v \in VMs \ open :
            /\ vm' = [vm EXCEPT ![w] = v] /\ funcs' = [funcs EXCEPT ![v] = [k \in Kinds |-> Gone]]
            /\ pc[w] = "new" /\ pc' = [pc EXCEPT ![w] = "stat"]
            /\ UNCHANGED <<file, last, cache, kind, info, text>>
          BY <1>2 DEF NewVM, Goes, fileVars
    <2>2. FilesInv' /\ CacheInv' /\ CallTypes'
          BY <1>0, <2>1 DEF FilesInv, CacheInv, CallTypes, Gone
    <2>3. LoadInv(w)'
          BY <1>0, <2>1 DEF LoadInv
    <2>4. ASSUME NEW u \in Workers, u # w
          PROVE  LoadInv(u)'
      <3>1. vm'[u] = vm[u] /\ vm[u] # v /\ (pc[u] \in {"idle", "new"} \/ funcs'[vm[u]] = funcs[vm[u]])
            BY <1>0, <1>a, <2>1, <2>4 DEF CallTypes, Holding
      <3> QED
          BY <1>0, <2>1, <2>4, <3>1, LoadFramed DEF LoadInv, FilesInv, CallTypes
    <2> QED
        BY <2>2, <2>3, <2>4 DEF FreshInv
  <1>3. ASSUME NEW w \in Workers, LoadStep(w)
        PROVE  FreshInv'
    <2>1. /\ vm[w] \in VMs /\ kind[w] \in Kinds /\ pc[w] \in {"stat", "lookup", "read", "store"}
          /\ UNCHANGED <<file, last, vm, kind>>
          BY <1>0, <1>3 DEF LoadStep, StatFile, LookUp, ReadFile, StoreScript, LoadFrame,
                            fileVars, Holding, LoadInv
    <2>2. FilesInv'
          BY <1>0, <2>1 DEF FilesInv
    <2>3. \A version \in Nat : RunScript(w, version) =>
            /\ funcs' \in [VMs -> [Kinds -> Nat]]
            /\ version \in BadScripts \/ funcs'[vm[w]][kind[w]] = version
            /\ \A v \in VMs : v # vm[w] => funcs'[v] = funcs[v]
      <3>1. SUFFICES ASSUME NEW version \in Nat, RunScript(w, version)
                     PROVE  /\ funcs' \in [VMs -> [Kinds -> Nat]]
                            /\ version \in BadScripts \/ funcs'[vm[w]][kind[w]] = version
                            /\ \A v \in VMs : v # vm[w] => funcs'[v] = funcs[v]
            OBVIOUS
      <3>2. CASE version \in BadScripts
            BY <1>0, <3>1, <3>2 DEF RunScript, CallTypes
      <3>3. CASE version \notin BadScripts
        <4>1. funcs' = [funcs EXCEPT ![vm[w]] = [funcs[vm[w]] EXCEPT ![kind[w]] = version]]
              BY <3>1, <3>3 DEF RunScript
        <4>2. /\ funcs[vm[w]] \in [Kinds -> Nat]
              /\ [funcs[vm[w]] EXCEPT ![kind[w]] = version] \in [Kinds -> Nat]
              BY <1>0, <2>1 DEF CallTypes
        <4> QED
            BY <1>0, <2>1, <4>1, <4>2 DEF CallTypes
      <3> QED
          BY <3>2, <3>3
    <2>4. /\ CacheInv' /\ CallTypes' /\ LoadInv(w)'
          /\ \A v \in VMs : v # vm[w] => funcs'[v] = funcs[v]
          /\ \A u \in Workers : u # w => pc'[u] = pc[u] /\ info'[u] = info[u] /\ text'[u] = text[u]
      <3>1. CASE StatFile(w)
        <4>1. /\ info' = [info EXCEPT ![w] = file[kind[w]]] /\ UNCHANGED <<cache, funcs, text>>
              /\ pc' = [pc EXCEPT ![w] = IF file[kind[w]] = Gone THEN "call" ELSE "lookup"]
              BY <3>1 DEF StatFile, Goes
        <4>2. file[kind[w]] \in Nat /\ last[kind[w]] \in Nat /\ file[kind[w]] \in {Gone, last[kind[w]]}
              BY <1>0, <2>1 DEF FilesInv
        <4>3. CacheInv' /\ CallTypes'
              BY <1>0, <2>1, <4>1, <4>2 DEF CacheInv, CallTypes
        <4>4. LoadInv(w)'
              BY <1>0, <2>1, <4>1, <4>2 DEF LoadInv, CallTypes
        <4> QED
            BY <1>0, <4>1, <4>3, <4>4 DEF CallTypes
      <3>2. CASE LookUp(w)
        <4> DEFINE item == cache[kind[w]]
        <4>1. /\ UNCHANGED <<cache, info, text>> /\ pc[w] = "lookup"
              /\ \/ item.time # info[w] /\ pc' = [pc EXCEPT ![w] = "read"] /\ UNCHANGED funcs
                 \/ /\ item.time = info[w] /\ RunScript(w, item.text)
                    /\ pc' = [pc EXCEPT ![w] = IF item.text \in BadScripts THEN "put" ELSE "call"]
              BY <3>2 DEF LookUp, Goes
        <4>2. item.text \in Nat /\ item.time \in Nat /\ item.time <= item.text
              BY <1>0, <2>1 DEF CacheInv
        <4>3. CacheInv'
              BY <1>0, <4>1 DEF CacheInv
        <4> HIDE DEF item
        <4>4. CASE item.time # info[w]
          <5>1. pc' = [pc EXCEPT ![w] = "read"] /\ UNCHANGED funcs
                BY <4>1, <4>4
          <5> QED
              BY <1>0, <2>1, <4>1, <4>3, <5>1 DEF CallTypes, LoadInv
        <4>5. CASE item.time = info[w]
          <5>1. /\ RunScript(w, item.text)
                /\ pc' = [pc EXCEPT ![w] = IF item.text \in BadScripts THEN "put" ELSE "call"]
                BY <4>1, <4>5
          <5> QED
              BY <1>0, <2>1, <2>3, <4>1, <4>2, <4>3, <4>5, <5>1 DEF CallTypes, LoadInv
        <4> QED
            BY <4>4, <4>5
      <3>3. CASE ReadFile(w)
        <4>1. /\ UNCHANGED <<cache, info>> /\ pc[w] = "read"
              /\ \/ pc' = [pc EXCEPT ![w] = "put"] /\ UNCHANGED <<funcs, text>>
                 \/ /\ file[kind[w]] # Gone /\ text' = [text EXCEPT ![w] = file[kind[w]]]
                    /\ RunScript(w, file[kind[w]]) /\ pc' = [pc EXCEPT ![w] = "store"]
              BY <3>3 DEF ReadFile, Goes
        <4>2. file[kind[w]] \in Nat /\ (file[kind[w]] # Gone => info[w] <= file[kind[w]])
              BY <1>0, <2>1, <4>1 DEF FilesInv, LoadInv
        <4>3. CacheInv'
              BY <1>0, <4>1 DEF CacheInv
        <4>4. CASE pc' = [pc EXCEPT ![w] = "put"] /\ UNCHANGED <<funcs, text>>
              BY <1>0, <2>1, <4>1, <4>3, <4>4 DEF CallTypes, LoadInv
        <4>5. CASE /\ file[kind[w]] # Gone /\ text' = [text EXCEPT ![w] = file[kind[w]]]
                   /\ RunScript(w, file[kind[w]]) /\ pc' = [pc EXCEPT ![w] = "store"]
              BY <1>0, <2>1, <2>3, <4>1, <4>2, <4>3, <4>5 DEF CallTypes, LoadInv
        <4> QED
            BY <4>1, <4>4, <4>5
      <3>4. CASE StoreScript(w)
        <4>1. /\ UNCHANGED <<funcs, info, text>> /\ pc[w] = "store"
              /\ cache' = [cache EXCEPT ![kind[w]] = [time |-> info[w], text |-> text[w]]]
              /\ pc' = [pc EXCEPT ![w] = IF text[w] \in BadScripts THEN "put" ELSE "call"]
              BY <3>4 DEF StoreScript, Goes
        <4>2. /\ info[w] \in Nat /\ text[w] \in Nat /\ info[w] <= text[w]
              /\ text[w] \in BadScripts \/ funcs[vm[w]][kind[w]] = text[w]
              BY <1>0, <4>1 DEF LoadInv, CallTypes
        <4>3. CacheInv'
              BY <1>0, <2>1, <4>1, <4>2 DEF CacheInv
        <4> QED
            BY <1>0, <2>1, <4>1, <4>2, <4>3 DEF CallTypes, LoadInv
      <3> QED
          BY <1>3, <3>1, <3>2, <3>3, <3>4 DEF LoadStep
    <2>5. ASSUME NEW u \in Workers, u # w
          PROVE  LoadInv(u)'
      <3>1. pc[u] \in {"idle", "new"} \/ (vm'[u] = vm[u] /\ funcs'[vm[u]] = funcs[vm[u]])
            BY <1>0, <1>a, <2>1, <2>4, <2>5 DEF Holding
      <3> QED
          BY <1>0, <2>1, <2>4, <2>5, <3>1, LoadFramed DEF LoadInv, FilesInv, CallTypes
    <2> QED
        BY <2>2, <2>4, <2>5 DEF FreshInv
  <1>7. ASSUME NEW w \in Workers, CallFunction(w) \/ PutLuaVM(w)
        PROVE  FreshInv'
    <2>1. /\ UNCHANGED <<file, last, cache, funcs>>
          /\ \A u \in Workers : u # w => /\ pc'[u] = pc[u] /\ kind'[u] = kind[u] /\ vm'[u] = vm[u]
                                         /\ info'[u] = info[u] /\ text'[u] = text[u]
          BY <1>0, <1>7 DEF CallFunction, PutLuaVM, Goes, fileVars, CallTypes
    <2>3. FilesInv' /\ CacheInv'
          BY <1>0, <2>1 DEF FilesInv, CacheInv
    <2>4. CallTypes' /\ LoadInv(w)'
      <3>1. CASE CallFunction(w)
        <4>1. /\ UNCHANGED <<funcs, kind, vm, info, text>> /\ pc[w] = "call"
              /\ pc' = [pc EXCEPT ![w] = "put"]
              BY <3>1 DEF CallFunction, Goes
        <4> QED
            BY <1>0, <4>1 DEF CallTypes, LoadInv
      <3>2. CASE PutLuaVM(w)
        <4>1. /\ UNCHANGED funcs /\ pc' = [pc EXCEPT ![w] = "idle"]
              /\ kind' = [kind EXCEPT ![w] = NoKind]
              /\ info' = [info EXCEPT ![w] = Gone] /\ text' = [text EXCEPT ![w] = Gone]
              BY <3>2 DEF PutLuaVM, Goes
        <4> QED
            BY <1>0, <4>1 DEF CallTypes, LoadInv, Gone
      <3> QED
          BY <1>7, <3>1, <3>2
    <2>5. ASSUME NEW u \in Workers, u # w
          PROVE  LoadInv(u)'
          BY <1>0, <2>1, <2>5, LoadFramed DEF LoadInv, FilesInv, CallTypes
    <2> QED
        BY <2>3, <2>4, <2>5 DEF FreshInv
  <1>8. ASSUME NEW k \in Kinds, Edit(k) \/ Remove(k)
        PROVE  FreshInv'
    <2>1. UNCHANGED <<cache, funcs, kind, pc, vm, info, text>>
          BY <1>8 DEF Edit, Remove, vmVars, callVars
    <2>2. FilesInv' /\ \A j \in Kinds : last'[j] >= last[j]
      <3>1. CASE Edit(k)
            BY <1>0, <3>1 DEF Edit, FilesInv
      <3>2. CASE Remove(k)
            BY <1>0, <3>2 DEF Remove, FilesInv, Gone
      <3> QED
          BY <1>8, <3>1, <3>2
    <2>3. CacheInv' /\ CallTypes'
          BY <1>0, <2>1 DEF CacheInv, CallTypes
    <2>4. ASSUME NEW u \in Workers
          PROVE  LoadInv(u)'
          BY <1>0, <2>1, <2>2, <2>4, LoadFramed DEF LoadInv, FilesInv, CallTypes
    <2> QED
        BY <2>2, <2>3, <2>4 DEF FreshInv
  <1>9. CASE UNCHANGED vars
        BY <1>0, <1>9 DEF vars, fileVars, vmVars, callVars, FreshInv, FilesInv, CacheInv,
                          CallTypes, LoadInv
  <1> QED
      BY <1>1, <1>2, <1>3, <1>7, <1>8, <1>9 DEF Next

\* Every edit is followed by the next callback, through a cache that any callback
\* may fill and states that have run any version (main.go:131-172).
THEOREM ScriptsFresh == Spec => []Fresh
  <1>1. FreshInv => Fresh
        BY DEF FreshInv, LoadInv, Fresh
  <1> QED
      BY <1>1, OwnerInit, OwnerStep, FreshInit, FreshStep, PTL DEF Spec
-----------------------------------------------------------------------------

\* What the other invariants leave to say.
Kept == Versions \cup {Gone}
VersionTypes ==
  /\ file \in [Kinds -> Kept] /\ last \in [Kinds -> Versions]
  /\ cache \in [Kinds -> [time : Kept, text : Kept]]
  /\ funcs \in [VMs -> [Kinds -> Kept]]
  /\ info \in [Workers -> Kept] /\ text \in [Workers -> Kept]
  /\ Len(pool) <= MaxPool

LEMMA TypeInit == Init => TypeOK
  <1> SUFFICES ASSUME Init PROVE TypeOK
      OBVIOUS
  <1> USE VMPoolAssumption
  <1>1. VersionTypes
    <2>1. 1 \in Versions /\ 1 \in Kept /\ Gone \in Kept
          BY DEF Versions, Kept
    <2>2. Len(pool) <= MaxPool
          BY DEF Init
    <2> QED
        BY <2>1, <2>2 DEF Init, VersionTypes
  <1>2. OwnerInv /\ CleanInv /\ FreshInv
        BY OwnerInit, CleanInit, FreshInit
  <1>3. aborted \in BOOLEAN
        BY DEF Init
  <1> QED
      BY <1>1, <1>2, <1>3 DEF TypeOK, VersionTypes, Kept, OwnerInv, CleanInv, FreshInv, CallTypes

\* Every version that is kept or run was in the file once, and only PutLuaVM adds to
\* the channel.
LEMMA TypeStep ==
  OwnerInv /\ OwnerInv' /\ CleanInv' /\ FreshInv /\ FreshInv' /\ TypeOK /\ [Next]_vars => TypeOK'
  <1> SUFFICES ASSUME OwnerInv, OwnerInv', CleanInv', FreshInv, FreshInv', TypeOK, [Next]_vars
               PROVE  TypeOK'
      OBVIOUS
  <1>1. /\ pool' \in Seq(VMs) /\ open' \subseteq VMs /\ vm' \in [Workers -> VMs \cup {NoVM}]
        /\ pc' \in [Workers -> {"idle", "new", "stat", "lookup", "read", "store", "call", "put"}]
        /\ env' \in [VMs -> [Globals -> Workers \cup {NoOne}]]
        /\ kind' \in [Workers -> Kinds \cup {NoKind}]
        BY DEF OwnerInv, CleanInv, FreshInv, CallTypes
  <1>2. Gone \in Kept /\ Versions \subseteq Kept
        BY DEF Kept
  <1>3. /\ VersionTypes /\ pool \in Seq(VMs)
        /\ vm \in [Workers -> VMs \cup {NoVM}] /\ kind \in [Workers -> Kinds \cup {NoKind}]
        BY DEF TypeOK, VersionTypes, Kept
  <1> USE DEF VersionTypes
  <1>4. ASSUME NEW w \in Workers, NEW k \in Kinds, GetLuaVM(w, k)
        PROVE  VersionTypes'
    <2>1. Len(pool') <= MaxPool
      <3>1. CASE pool # <<>> /\ pool' = Tail(pool)
            BY <1>3, <3>1, VMPoolAssumption
      <3>2. CASE pool' = pool
            BY <1>3, <3>2
      <3> QED
          BY <1>4, <3>1, <3>2 DEF GetLuaVM
    <2> QED
        BY <1>3, <1>4, <2>1 DEF GetLuaVM, fileVars, vmVars
  <1>5. ASSUME NEW w \in Workers, NewVM(w)
        PROVE  VersionTypes'
    <2>1. PICK v \in VMs : funcs' = [funcs EXCEPT ![v] = [k \in Kinds |-> Gone]]
          BY <1>5 DEF NewVM
    <2>2. UNCHANGED <<file, last, cache, pool, info, text>>
          BY <1>5 DEF NewVM, fileVars
    <2> QED
        BY <1>2, <1>3, <2>1, <2>2
  <1>6. ASSUME NEW w \in Workers, LoadStep(w)
        PROVE  VersionTypes'
    <2>1. UNCHANGED <<file, last, pool>> /\ vm[w] \in VMs /\ kind[w] \in Kinds
      <3>1. pc[w] \in {"stat", "lookup", "read", "store"} /\ UNCHANGED <<file, last, pool>>
            BY <1>6 DEF LoadStep, StatFile, LookUp, ReadFile, StoreScript, LoadFrame, fileVars, poolVars
      <3> QED
          BY <3>1, <1>3 DEF OwnerInv, Holding, FreshInv, LoadInv
    <2>2. file[kind[w]] \in Kept /\ info[w] \in Kept /\ text[w] \in Kept /\ cache[kind[w]].text \in Kept
          BY <1>3, <2>1
    <2>3. info' \in [Workers -> Kept]
          BY <1>3, <1>6, <2>2 DEF LoadStep, StatFile, LookUp, ReadFile, StoreScript
    <2>4. text' \in [Workers -> Kept]
          BY <1>3, <1>6, <2>2 DEF LoadStep, StatFile, LookUp, ReadFile, StoreScript
    <2>5. cache' \in [Kinds -> [time : Kept, text : Kept]]
          BY <1>3, <1>6, <2>2 DEF LoadStep, StatFile, LookUp, ReadFile, StoreScript
    <2>6. funcs' \in [VMs -> [Kinds -> Kept]]
      <3>1. \/ funcs' = funcs
            \/ \E t \in {file[kind[w]], cache[kind[w]].text} :
                 funcs' = [funcs EXCEPT ![vm[w]][kind[w]] = t]
            BY <1>6 DEF LoadStep, StatFile, LookUp, ReadFile, StoreScript, RunScript
      <3>2. CASE funcs' = funcs
            BY <1>3, <3>2
      <3>3. ASSUME NEW t \in Kept, funcs' = [funcs EXCEPT ![vm[w]][kind[w]] = t]
            PROVE  funcs' \in [VMs -> [Kinds -> Kept]]
        <4>1. [funcs[vm[w]] EXCEPT ![kind[w]] = t] \in [Kinds -> Kept]
              BY <1>3, <2>1, <3>3
        <4> QED
            BY <1>3, <2>1, <3>3, <4>1
      <3> QED
          BY <2>2, <3>1, <3>2, <3>3
    <2> QED
        BY <1>3, <2>1, <2>3, <2>4, <2>5, <2>6
  <1>7. ASSUME NEW w \in Workers, CallFunction(w)
        PROVE  VersionTypes'
        BY <1>3, <1>7 DEF CallFunction, fileVars, poolVars
  <1>8. ASSUME NEW w \in Workers, PutLuaVM(w)
        PROVE  VersionTypes'
    <2>1. Len(pool') <= MaxPool
      <3>1. CASE Len(pool) < MaxPool /\ pool' = Append(pool, vm[w])
            BY <1>3, <3>1, VMPoolAssumption
      <3>2. CASE pool' = pool
            BY <1>3, <3>2
      <3> QED
          BY <1>8, <3>1, <3>2 DEF PutLuaVM
    <2>2. info' \in [Workers -> Kept] /\ text' \in [Workers -> Kept]
          BY <1>2, <1>3, <1>8 DEF PutLuaVM
    <2>3. UNCHANGED <<file, last, cache, funcs>>
          BY <1>8 DEF PutLuaVM, fileVars
    <2> QED
        BY <1>3, <2>1, <2>2, <2>3
  <1>9. ASSUME NEW k \in Kinds, Edit(k) \/ Remove(k)
        PROVE  VersionTypes'
    <2>1. UNCHANGED <<cache, pool, funcs, info, text>>
          BY <1>9 DEF Edit, Remove, poolVars, vmVars, callVars
    <2>2. CASE Edit(k)
      <3>1. last[k] + 1 \in Versions
            BY <1>3, <2>2, VMPoolAssumption DEF Edit, Versions
      <3>2. last' = [last EXCEPT ![k] = last[k] + 1] /\ file' = [file EXCEPT ![k] = last[k] + 1]
            BY <1>3, <2>2 DEF Edit
      <3> QED
          BY <1>2, <1>3, <2>1, <3>1, <3>2
    <2>3. CASE Remove(k)
          BY <1>2, <1>3, <2>1, <2>3 DEF Remove
    <2> QED
        BY <1>9, <2>2, <2>3
  <1>10. ASSUME UNCHANGED vars PROVE VersionTypes'
    <2>1. UNCHANGED <<file, last, cache, funcs, info, text, pool>>
          BY <1>10 DEF vars, fileVars, poolVars, vmVars, callVars
    <2> QED
        BY <1>3, <2>1
  <1> HIDE DEF VersionTypes
  <1>11. VersionTypes'
         BY <1>4, <1>5, <1>6, <1>7, <1>8, <1>9, <1>10 DEF Next
  <1>12. aborted' \in BOOLEAN
    <2>1. aborted \in BOOLEAN
          BY DEF TypeOK
    <2> QED
        BY <2>1, Zenon DEF Next, GetLuaVM, NewVM, LoadStep, StatFile, LookUp, ReadFile, StoreScript,
                     MapIsUsed, CallFunction, PutLuaVM, Edit, Remove, vars
  <1> QED
      BY <1>1, <1>11, <1>12 DEF TypeOK, VersionTypes, Kept

\* Every variable has its type; in particular the channel never holds more states
\* than it has room for (main.go:104-113).
THEOREM TypeCorrect == Spec => []TypeOK
  <1> QED
      BY OwnerInit, OwnerStep, CleanInit, CleanStep, FreshInit, FreshStep, TypeInit, TypeStep, PTL
      DEF Spec
=============================================================================
