---------------------------- MODULE RestartProofs ----------------------------
(* Theorems about Restart, for any number of edits and faults. *)
EXTENDS Restart, TLAPS

Types ==
  /\ disk \in Nat
  /\ started \in Processes
  /\ main \in [Processes -> {"none", "read", "listen", "serve", "deaf", "gone"}]
  /\ watch \in [Processes -> {"none", "stat", "check", "spawn", "exit", "over", "gone"}]
  /\ script \in [Processes -> Nat] /\ stamp \in [Processes -> Nat]
  /\ port \in Nat

\* The goroutines of one process keep to the order of main, and die together.
InStep(p) ==
  /\ main[p] \in {"none", "read"} => watch[p] = "none" /\ script[p] = 0
  /\ main[p] \in {"listen", "serve", "deaf"} => watch[p] \notin {"none", "gone"}
  /\ main[p] = "gone" <=> watch[p] = "gone"
  /\ p > started <=> main[p] = "none"

\* A process has read what its number asks for, and looks for something later.
Later(p) ==
  /\ script[p] <= disk /\ stamp[p] <= disk
  /\ script[p] # 0 => script[p] >= p
  /\ watch[p] \in {"stat", "check", "spawn", "exit"} => script[p] # 0
  /\ watch[p] = "check" => script[p] <= stamp[p]
  /\ watch[p] = "spawn" => script[p] < stamp[p]
  /\ p < started => watch[p] \in {"exit", "gone"} /\ script[p] < disk

\* Scripts get newer from process to process.
Ascending == \A p, q \in Processes : q < p /\ script[p] # 0 => script[q] < script[p]

RInv ==
  /\ Types
  /\ started <= disk
  /\ \A p \in Processes : InStep(p) /\ Later(p)
  /\ Ascending
  /\ port # 0 => port \in Processes /\ main[port] = "serve"

\* The user has started the first process.
LEMMA RInit == Init => RInv
  BY RestartAssumption DEF Init, RInv, Types, InStep, Later, Ascending, Processes

\* Of the steps of a process only Spawn counts: its number is the last one, for
\* the others are on their way out, and its time is later than its script.
LEMMA RStep == RInv /\ [Next]_vars => RInv'
  <1> SUFFICES ASSUME RInv, [Next]_vars
               PROVE  RInv'
      OBVIOUS
  <1> USE RestartAssumption DEF RInv, Types, Processes
  <1>1. ASSUME NEW p \in Processes, ReadScript(p)
        PROVE  RInv'
        BY SMTT(20), <1>1 DEF ReadScript, MainGoes, WatchGoes, InStep, Later, Ascending, fileVars
  <1>2. ASSUME NEW p \in Processes, Listen(p)
        PROVE  RInv'
    <2>1. ASSUME NEW q \in Processes
          PROVE  (InStep(q) /\ Later(q))'
          BY SMTT(20), <1>2 DEF Listen, MainGoes, InStep, Later, fileVars
    <2>2. port' # 0 => port' \in Processes /\ main'[port'] = "serve"
          BY <1>2 DEF Listen, MainGoes
    <2>3. UNCHANGED <<disk, started, watch, script, stamp>>
          BY <1>2 DEF Listen, fileVars
    <2>4. main' \in [Processes -> {"none", "read", "listen", "serve", "deaf", "gone"}] /\ port' \in Nat
      <3>1. /\ port' \in {port, p}
            /\ main' = [main EXCEPT ![p] = "serve"] \/ main' = [main EXCEPT ![p] = "deaf"]
            BY <1>2 DEF Listen, MainGoes
      <3>2. CASE main' = [main EXCEPT ![p] = "serve"]
            BY <3>1, <3>2
      <3>3. CASE main' = [main EXCEPT ![p] = "deaf"]
            BY <3>1, <3>3
      <3> QED
          BY <3>1, <3>2, <3>3
    <2>5. Ascending'
          BY <2>3 DEF Ascending
    <2> QED
        BY <2>1, <2>2, <2>3, <2>4, <2>5
  <1>3. ASSUME NEW p \in Processes,
               ReadFails(p) \/ RunScript(p) \/ Interrupt(p) \/ SpawnFails(p) \/ Exit(p)
        PROVE  RInv'
    <2>1. /\ main' = [main EXCEPT ![p] = "gone"] /\ watch' = [watch EXCEPT ![p] = "gone"]
          /\ port' = IF port = p THEN 0 ELSE port
          /\ disk' = disk /\ started' = started /\ script' = script /\ stamp' = stamp
          /\ main[p] # "none"
          BY <1>3 DEF ReadFails, RunScript, Interrupt, SpawnFails, Exit, Die, MainGoes,
                      WatchGoes, fileVars, InStep
    <2> QED
      <3>1. ASSUME NEW q \in Processes
            PROVE  InStep(q)'
            BY <2>1 DEF InStep
      <3>2. ASSUME NEW q \in Processes
            PROVE  Later(q)'
            BY <2>1 DEF Later
      <3> QED
          BY <2>1, <3>1, <3>2 DEF Ascending
  <1>4. ASSUME NEW p \in Processes, FirstStat(p)
        PROVE  RInv'
    <2>1. ASSUME NEW q \in Processes
          PROVE  InStep(q)'
          BY <1>4 DEF FirstStat, WatchGoes, InStep, fileVars
    <2>2. ASSUME NEW q \in Processes
          PROVE  Later(q)'
          BY SMTT(20), <1>4 DEF FirstStat, WatchGoes, Later, fileVars
    <2> QED
        BY ZenonT(40), <1>4, <2>1, <2>2 DEF FirstStat, WatchGoes, Ascending, fileVars
  <1>5. ASSUME NEW p \in Processes, CheckFile(p)
        PROVE  RInv'
        BY <1>5 DEF CheckFile, WatchGoes, InStep, Later, Ascending, fileVars
  <1>6. ASSUME NEW p \in Processes, Spawn(p)
        PROVE  RInv'
    <2>1. p = started /\ script[p] < disk /\ started < MaxVersion
          BY <1>6 DEF Spawn, InStep, Later
    <2>2. /\ started' = started + 1 /\ started' \in Processes /\ started' <= disk'
          /\ main[started'] = "none"
          BY <2>1, <1>6, RestartAssumption DEF Spawn, fileVars, InStep, Later
    <2>3. ASSUME NEW q \in Processes
          PROVE  InStep(q)'
          BY <1>6, <2>1, <2>2 DEF Spawn, WatchGoes, InStep
    <2>4. ASSUME NEW q \in Processes
          PROVE  Later(q)'
          BY <1>6, <2>1, <2>2 DEF Spawn, WatchGoes, fileVars, InStep, Later
    <2> QED
        BY <1>6, <2>1, <2>2, <2>3, <2>4 DEF Spawn, WatchGoes, Ascending, fileVars
  <1>7. CASE Edit \/ PutBack
    <2>1. disk' = disk + 1 /\ UNCHANGED <<started, main, watch, script, stamp, port>>
          BY <1>7 DEF Edit, PutBack
    <2> QED
        BY <2>1 DEF InStep, Later, Ascending
  <1>8. CASE TakeAway \/ UNCHANGED vars
    <2>1. UNCHANGED <<disk, started, main, watch, script, stamp, port>>
          BY <1>8 DEF TakeAway, vars, fileVars
    <2> QED
        BY <2>1 DEF InStep, Later, Ascending
  <1> QED
      BY <1>1, <1>2, <1>3, <1>4, <1>5, <1>6, <1>7, <1>8 DEF Next, MainStep, WatchStep

\* However often the file is edited, and whatever fails: a process is started for a
\* later script only, so the restarts come to an end when the edits do (main.go:353).
THEOREM RestartsFollowEdits == Spec => []NoStorm
  <1>1. RInv => NoStorm
        BY RestartAssumption DEF RInv, Types, Later, Ascending, NoStorm, Processes
  <1> QED
      BY <1>1, RInit, RStep, PTL DEF Spec

\* All processes but the last are done with the file (main.go:384).
THEOREM LastOneRemains == Spec => []OneRemains
  <1>1. RInv => OneRemains
        BY DEF RInv, Later, OneRemains
  <1> QED
      BY <1>1, RInit, RStep, PTL DEF Spec

\* The process that goes on finds the port in use only because os.Exit comes after
\* the start of the successor (main.go:380-384).
THEOREM OnlyPredecessorHasPort == Spec => DeafByPredecessor
  <1>1. ASSUME RInv, [Next]_vars, main[started] # "deaf", main'[started] = "deaf"
        PROVE  port \in 1..(started - 1) /\ watch[port] = "exit"
    <2> USE DEF RInv, Types, Processes
    <2>1. PICK p \in Processes : Listen(p) /\ p = started
      <3>1. ASSUME NEW p \in Processes,
                   ReadScript(p) \/ ReadFails(p) \/ RunScript(p) \/ Interrupt(p) \/ SpawnFails(p) \/ WatchStep(p)
            PROVE  FALSE
            BY <1>1, <3>1 DEF ReadScript, ReadFails, RunScript, Interrupt, SpawnFails, WatchStep,
                              FirstStat, CheckFile, Spawn, Exit, Die, MainGoes, InStep
      <3>2. ~(Edit \/ TakeAway \/ PutBack \/ UNCHANGED vars)
            BY <1>1 DEF Edit, TakeAway, PutBack, vars
      <3> QED
          BY <1>1, <3>1, <3>2 DEF Next, MainStep, Listen, MainGoes
    <2>2. port # 0 /\ main[port] = "serve" /\ port # started
          BY <1>1, <2>1 DEF Listen, MainGoes
    <2> QED
        BY <1>1, <2>2 DEF InStep, Later
  <1> QED
      BY <1>1, RInit, RStep, PTL DEF Spec, DeafByPredecessor
-----------------------------------------------------------------------------

\* A file that is away comes back with a later time.
PortInv == TypeOK /\ (~there => disk < MaxVersion)

LEMMA PortInit == Init => PortInv
  BY RestartAssumption DEF Init, PortInv, TypeOK, Processes, Versions

\* Who gets the port finds it free, and who dies gives it back.
LEMMA PortStep == RInv /\ RInv' /\ PortInv /\ [Next]_vars => PortInv'
  <1> SUFFICES ASSUME RInv, RInv', PortInv, [Next]_vars
               PROVE  PortInv'
      OBVIOUS
  <1> USE RestartAssumption DEF Processes
  <1>1. /\ started' \in Processes /\ port' \in Nat /\ disk' \in Nat
        /\ main' \in [Processes -> {"none", "read", "listen", "serve", "deaf", "gone"}]
        /\ watch' \in [Processes -> {"none", "stat", "check", "spawn", "exit", "over", "gone"}]
        /\ script' \in [Processes -> Nat] /\ stamp' \in [Processes -> Nat]
        BY DEF RInv, Types
  <1>2. /\ disk' \in Versions /\ there' \in BOOLEAN /\ faults' \in 0..MaxFaults
        /\ ~there' => disk' < MaxVersion
    <2> USE DEF PortInv, TypeOK, Versions
    <2>1. ASSUME NEW p \in Processes,
                 ReadScript(p) \/ ReadFails(p) \/ Listen(p) \/ RunScript(p) \/ WatchStep(p)
          PROVE  UNCHANGED fileVars
          BY <2>1 DEF ReadScript, ReadFails, Listen, RunScript, WatchStep, FirstStat, CheckFile,
                      Spawn, Exit, fileVars
    <2>2. ASSUME NEW p \in Processes, Interrupt(p) \/ SpawnFails(p)
          PROVE  UNCHANGED <<disk, there>> /\ faults' \in 0..MaxFaults
          BY SMTT(20), <2>2 DEF Interrupt, SpawnFails
    <2>3. CASE UNCHANGED fileVars
          BY <2>3 DEF fileVars
    <2>4. CASE Edit \/ TakeAway \/ PutBack
      <3>1. CASE Edit
            BY <3>1 DEF Edit
      <3>2. CASE TakeAway
        <4>1. disk' \in Versions /\ disk' < MaxVersion /\ faults' \in 0..MaxFaults
              BY <3>2 DEF TakeAway
        <4>2. there' = FALSE
              BY <3>2 DEF TakeAway
        <4> QED
            BY <4>1, <4>2
      <3>3. CASE PutBack
            BY <3>3 DEF PutBack
      <3> QED
          BY <2>4, <3>1, <3>2, <3>3
    <2>5. CASE UNCHANGED vars
          BY <2>5 DEF vars, fileVars
    <2>6. CASE \E p \in Processes : Interrupt(p) \/ SpawnFails(p)
          BY <2>2, <2>6
    <2>7. CASE \E p \in Processes :
                 ReadScript(p) \/ ReadFails(p) \/ Listen(p) \/ RunScript(p) \/ WatchStep(p)
          BY <2>1, <2>3, <2>7
    <2> HIDE DEF PortInv, TypeOK
    <2> QED
        BY <2>4, <2>5, <2>6, <2>7 DEF Next, MainStep
  <1>3. port' \in 0..MaxVersion /\ \A p \in Processes : main'[p] = "serve" <=> port' = p
    <2> USE DEF PortInv, TypeOK, RInv, Types
    <2>1. ASSUME NEW p \in Processes, Listen(p)
          PROVE  port' \in 0..MaxVersion /\ \A q \in Processes : main'[q] = "serve" <=> port' = q
      <3>1. CASE port = 0 /\ port' = p /\ main' = [main EXCEPT ![p] = "serve"]
        <4>1. \A q \in Processes : main[q] # "serve"
              BY <3>1
        <4>2. /\ main'[p] = "serve" /\ \A q \in Processes : q # p => main'[q] = main[q]
              BY <3>1
        <4>3. port' \in 0..MaxVersion
              BY <3>1
        <4> HIDE DEF PortInv, TypeOK, RInv, Types
        <4> QED
            BY <3>1, <4>1, <4>2, <4>3
      <3>2. CASE port' = port /\ main' = [main EXCEPT ![p] = "deaf"] /\ main[p] # "serve"
            BY <3>2
      <3> QED
          BY <2>1, <3>1, <3>2 DEF Listen, MainGoes
    <2>2. ASSUME NEW p \in Processes,
                 ReadFails(p) \/ RunScript(p) \/ Interrupt(p) \/ SpawnFails(p) \/ Exit(p)
          PROVE  port' \in 0..MaxVersion /\ \A q \in Processes : main'[q] = "serve" <=> port' = q
      <3>1. main' = [main EXCEPT ![p] = "gone"] /\ port' = IF port = p THEN 0 ELSE port
            BY <2>2 DEF ReadFails, RunScript, Interrupt, SpawnFails, Exit, Die, MainGoes
      <3>2. ASSUME NEW q \in Processes
            PROVE  main'[q] = "serve" <=> port' = q
        <4>1. CASE q = p
              BY <3>1, <4>1
        <4>2. CASE q # p
          <5>1. main'[q] = main[q] /\ (main[q] = "serve" <=> port = q)
                BY <3>1, <4>2
          <5>2. port = p => port' = 0 /\ port # q /\ q # 0
                BY <3>1, <4>2
          <5>3. port # p => port' = port
                BY <3>1
          <5> QED
              BY <5>1, <5>2, <5>3
        <4> QED
            BY <4>1, <4>2
      <3>3. port' \in 0..MaxVersion
            BY <3>1
      <3> QED
          BY <3>2, <3>3
    <2>3. ASSUME NEW p \in Processes, ReadScript(p)
          PROVE  port' \in 0..MaxVersion /\ \A q \in Processes : main'[q] = "serve" <=> port' = q
          BY <2>3 DEF ReadScript, MainGoes
    <2>4. ASSUME NEW p \in Processes, Spawn(p)
          PROVE  port' \in 0..MaxVersion /\ \A q \in Processes : main'[q] = "serve" <=> port' = q
      <3>1. main[started'] # "serve" /\ started' \in Processes
            BY <2>4, <1>1 DEF Spawn, InStep
      <3> QED
          BY <2>4, <3>1 DEF Spawn
    <2>5. ASSUME NEW p \in Processes, FirstStat(p) \/ CheckFile(p)
          PROVE  port' \in 0..MaxVersion /\ \A q \in Processes : main'[q] = "serve" <=> port' = q
          BY <2>5 DEF FirstStat, CheckFile
    <2>6. CASE Edit \/ TakeAway \/ PutBack \/ UNCHANGED vars
          BY <2>6 DEF Edit, TakeAway, PutBack, vars
    <2> QED
        BY <2>1, <2>2, <2>3, <2>4, <2>5, <2>6 DEF Next, MainStep, WatchStep
  <1>4. script' \in [Processes -> 0..MaxVersion] /\ stamp' \in [Processes -> 0..MaxVersion]
    <2>1. \A p \in Processes : script'[p] \in 0..MaxVersion /\ stamp'[p] \in 0..MaxVersion
          BY SMTT(20), <1>1, <1>2 DEF RInv, Later, Versions
    <2> QED
        BY <1>1, <2>1
  <1> QED
      BY <1>1, <1>2, <1>3, <1>4 DEF PortInv, TypeOK

\* Every variable has its type, and the process that serves is the one that has the
\* port (main.go:380-384).
THEOREM TypeCorrect == Spec => []TypeOK
  <1>1. PortInv => TypeOK
        BY DEF PortInv
  <1> QED
      BY <1>1, RInit, RStep, PortInit, PortStep, PTL DEF Spec
=============================================================================
