------------------------------- MODULE Restart -------------------------------
(***************************************************************************)
(* examples/rewrite_by_lua/main.go, the first version of the Lua proxy: it *)
(* follows edits of its script by starting itself anew and exiting.        *)
(* Processes are numbered in the order in which they are started.  In each *)
(* of them main reads the script and listens, and a goroutine looks at the *)
(* file every two seconds; the script is run by the first request.         *)
(*                                                                         *)
(* A version stands for the text of the script and for its modification    *)
(* time: every edit gives the file a later one.                            *)
(***************************************************************************)
EXTENDS Naturals

CONSTANTS
  MaxVersion,  \* bound: the file is edited at most MaxVersion - 1 times
  BadScripts,  \* the versions that do not run
  MaxFaults    \* bound: how often a process cannot be started or is interrupted, or
               \* an editor leaves the file away for a moment

Versions == 1..MaxVersion

ASSUME RestartAssumption ==
  /\ MaxVersion \in Nat \ {0}
  /\ BadScripts \subseteq Versions
  /\ MaxFaults \in Nat

VARIABLES
  disk, there,  \* the version of the script, and whether the file is there
  faults,
  started,      \* how many processes have been started
  main,         \* of each: what its main goroutine does
  watch,        \* of each: what checkConfChange does
  script,       \* of each: the version main has read
  stamp,        \* of each: lastModTime
  port          \* the process that listens (0: none)

fileVars == <<disk, there, faults>>
vars == <<fileVars, started, main, watch, script, stamp, port>>

\* With one process for each version, one is never missing (NoStorm).
Processes == 1..MaxVersion

\* The user has started the program.
Init ==
  /\ disk = 1 /\ there = TRUE /\ faults = 0
  /\ started = 1
  /\ main = [p \in Processes |-> IF p = 1 THEN "read" ELSE "none"]
  /\ watch = [p \in Processes |-> "none"]
  /\ script = [p \in Processes |-> 0] /\ stamp = [p \in Processes |-> 0]
  /\ port = 0

MainGoes(p, to) == main' = [main EXCEPT ![p] = to]
WatchGoes(p, to) == watch' = [watch EXCEPT ![p] = to]

\* os.Exit and log.Fatal end every goroutine and close the socket.
Die(p) ==
  /\ MainGoes(p, "gone") /\ WatchGoes(p, "gone")
  /\ port' = IF port = p THEN 0 ELSE port

-----------------------------------------------------------------------------
(* main *)

\* Read the script and start to watch it.
ReadScript(p) ==
  /\ main[p] = "read"
  /\ there
  /\ script' = [script EXCEPT ![p] = disk]
  /\ MainGoes(p, "listen")
  /\ WatchGoes(p, "stat")
  /\ UNCHANGED <<fileVars, started, stamp, port>>

\* log.Fatalf: there is no script.
ReadFails(p) ==
  /\ main[p] = "read"
  /\ ~there
  /\ Die(p)
  /\ UNCHANGED <<fileVars, started, script, stamp>>

\* Container.Start: if the port is in use it says so and returns, and main waits
\* for a signal all the same.
Listen(p) ==
  /\ main[p] = "listen"
  /\ \/ /\ port = 0
        /\ port' = p
        /\ MainGoes(p, "serve")
     \/ /\ port # 0
        /\ MainGoes(p, "deaf")
        /\ UNCHANGED port
  /\ UNCHANGED <<fileVars, started, watch, script, stamp>>

\* The first request that needs a Lua state runs the script; one that does not run
\* ends the program.
RunScript(p) ==
  /\ main[p] = "serve"
  /\ script[p] \in BadScripts
  /\ Die(p)
  /\ UNCHANGED <<fileVars, started, script, stamp>>

\* The user interrupts the program: c.Stop closes the socket, and main returns.
Interrupt(p) ==
  /\ main[p] \in {"listen", "serve", "deaf"}
  /\ faults < MaxFaults
  /\ faults' = faults + 1
  /\ Die(p)
  /\ UNCHANGED <<disk, there, started, script, stamp>>

-----------------------------------------------------------------------------
(* checkConfChange, checkFileAndRestart, restartProgram *)

\* Mutant: the file is looked at for the first time in the loop.
FirstStat_Zero(p) ==
  /\ watch[p] = "stat"
  /\ WatchGoes(p, "check")
  /\ UNCHANGED <<fileVars, started, main, script, stamp, port>>

\* The time of the file when the goroutine begins; if it is away for the moment,
\* the goroutine ends.
FirstStat(p) ==
  /\ watch[p] = "stat"
  /\ \/ there /\ stamp' = [stamp EXCEPT ![p] = disk] /\ WatchGoes(p, "check")
     \/ ~there /\ WatchGoes(p, "over") /\ UNCHANGED stamp
  /\ UNCHANGED <<fileVars, started, main, script, port>>

\* Mutant: a process that does not serve does not follow edits.
CheckFile_Serving(p) ==
  /\ watch[p] = "check" /\ main[p] = "serve"
  /\ there /\ disk > stamp[p]
  /\ stamp' = [stamp EXCEPT ![p] = disk]
  /\ WatchGoes(p, "spawn")
  /\ UNCHANGED <<fileVars, started, main, script, port>>

\* Every two seconds: the file is newer.
CheckFile(p) ==
  /\ watch[p] = "check"
  /\ there /\ disk > stamp[p]
  /\ stamp' = [stamp EXCEPT ![p] = disk]
  /\ WatchGoes(p, "spawn")
  /\ UNCHANGED <<fileVars, started, main, script, port>>

\* Mutant: the goroutine goes on when it has started the other process.
Spawn_Stays(p) ==
  /\ watch[p] = "spawn"
  /\ started < MaxVersion
  /\ started' = started + 1
  /\ main' = [main EXCEPT ![started'] = "read"]
  /\ WatchGoes(p, "check")
  /\ UNCHANGED <<fileVars, script, stamp, port>>

\* restartProgram: the successor begins to run while this process listens still ...
Spawn(p) ==
  /\ watch[p] = "spawn"
  /\ started < MaxVersion
  /\ started' = started + 1
  /\ main' = [main EXCEPT ![started'] = "read"]
  /\ WatchGoes(p, "exit")
  /\ UNCHANGED <<fileVars, script, stamp, port>>

\* (or it cannot be started, and log.Fatal ends this one)
SpawnFails(p) ==
  /\ watch[p] = "spawn"
  /\ faults < MaxFaults
  /\ faults' = faults + 1
  /\ Die(p)
  /\ UNCHANGED <<disk, there, started, script, stamp>>

\* ... until os.Exit.
Exit(p) ==
  /\ watch[p] = "exit"
  /\ Die(p)
  /\ UNCHANGED <<fileVars, started, script, stamp>>

-----------------------------------------------------------------------------
(* The user edits the script, in place, or by way of replacing the file *)

Edit ==
  /\ there /\ disk < MaxVersion
  /\ disk' = disk + 1
  /\ UNCHANGED <<there, faults, started, main, watch, script, stamp, port>>

TakeAway ==
  /\ there /\ disk < MaxVersion
  /\ faults < MaxFaults
  /\ there' = FALSE /\ faults' = faults + 1
  /\ UNCHANGED <<disk, started, main, watch, script, stamp, port>>

PutBack ==
  /\ ~there
  /\ there' = TRUE /\ disk' = disk + 1
  /\ UNCHANGED <<faults, started, main, watch, script, stamp, port>>

MainStep(p) == ReadScript(p) \/ ReadFails(p) \/ Listen(p)
WatchStep(p) == FirstStat(p) \/ CheckFile(p) \/ Spawn(p) \/ Exit(p)

Next ==
  \/ \E p \in Processes :
       MainStep(p) \/ RunScript(p) \/ Interrupt(p) \/ WatchStep(p) \/ SpawnFails(p)
  \/ Edit \/ TakeAway \/ PutBack

Spec == Init /\ [][Next]_vars

\* Goroutines run, and an editor that has taken the file away puts it back.
FairSpec ==
  /\ Spec
  /\ \A p \in Processes : WF_vars(MainStep(p)) /\ WF_vars(WatchStep(p))
  /\ WF_vars(PutBack)

-----------------------------------------------------------------------------
(* Properties *)

\* Every variable has its type, and who serves has the port.
TypeOK ==
  /\ disk \in Versions /\ there \in BOOLEAN /\ faults \in 0..MaxFaults
  /\ started \in Processes
  /\ main \in [Processes -> {"none", "read", "listen", "serve", "deaf", "gone"}]
  /\ watch \in [Processes -> {"none", "stat", "check", "spawn", "exit", "over", "gone"}]
  /\ script \in [Processes -> 0..MaxVersion] /\ stamp \in [Processes -> 0..MaxVersion]
  /\ port \in 0..MaxVersion /\ \A p \in Processes : main[p] = "serve" <=> port = p

\* A restart follows an edit: the proxy never starts itself over and over, so
\* there are no more processes than the file has had versions, and none is started
\* for a script its predecessor has read already.
NoStorm ==
  /\ started <= disk
  /\ \A p \in Processes : p > 1 /\ script[p] # 0 => script[p] > script[p - 1]

\* Only the last process goes on: each of the others has ended or is about to,
\* whatever its main goroutine does, so that two never watch the file.
OneRemains == \A p \in Processes : p < started => watch[p] \in {"exit", "gone"}

\* A process that goes on loses the port to nobody but a predecessor that has not
\* exited yet; so it does not stay in use, and the next restart can have it.
DeafByPredecessor ==
  [][main[started] # "deaf" /\ main'[started] = "deaf"
       => port \in 1..(started - 1) /\ watch[port] = "exit"]_vars

Alive(p) == main[p] \in {"read", "listen", "serve", "deaf"}

\* What ends the reloading for good: the last process has died, or does not look
\* at the file any more, or it looked for the first time when the file was newer
\* than what it had read.
Overlooked(p) == watch[p] = "check" /\ script[p] < stamp[p]
Stuck == \/ ~Alive(started)
         \/ watch[started] = "over"
         \/ Overlooked(started)

\* Every edit is followed by a process that has read it, unless one of these has
\* happened; in particular the successor is started though others that are deaf
\* or on their way out are about.
EditsTakeEffect ==
  \A v \in Versions : disk >= v ~> script[started] >= v \/ Stuck

=============================================================================
