------------------------- MODULE LocalRuntimeProofs -------------------------
(***************************************************************************)
(* Proofs, for any number of pids and shells, of the safety properties of  *)
(* scripts/local-runtime.sh.                                               *)
(***************************************************************************)
EXTENDS LocalRuntimeProperties, TLAPS

\* The initial states are well typed.
LEMMA RuntimeTypeInit == Init => RuntimeTypeOK
  BY PidsAssumption
  DEF Init, RuntimeTypeOK, Shells, Phases, StarterAt, StopperAt, Runtime

\* What ends process p keeps the machine's variables well typed.
LEMMA ExitsType ==
  ASSUME RuntimeTypeOK, NEW p \in Pids, Exits(p)
  PROVE /\ proc' \in [Pids -> Runtime \cup {"free", "foreign"}]
        /\ parent' \in [Pids -> Pids \cup {NoPid}]
        /\ listener' \in Pids \cup {NoPid}
        /\ signalled' \subseteq Pids
        /\ ours' \subseteq Pids
  BY DEF RuntimeTypeOK, Exits

\* Begin keeps the history of who was alone well typed.
LEMMA BeginType ==
  ASSUME RuntimeTypeOK, NEW s \in Shells, Begin(s)
  PROVE alone' \in [Shells -> BOOLEAN]
<1>1. \A t \in Shells : (alone[t] /\ s \notin Starters) \in BOOLEAN
  OBVIOUS
<1>2. (\A u \in Starters \ {s} : ~StarterBusy(u)) \in BOOLEAN
  OBVIOUS
<1> QED
  BY <1>1, <1>2 DEF Begin

\* Starters keep every variable well typed.
LEMMA StarterType ==
  ASSUME RuntimeTypeOK, NEW s \in Starters,
         AlreadyRunning(s) \/ StartAnew(s) \/ StartStep(s)
  PROVE RuntimeTypeOK'
<1> USE DEF RuntimeTypeOK, machine, starterFrame, Goto, StarterAt
<1>s. s \in Shells /\ s \notin Stoppers
  BY ShellsAssumption DEF Shells
<1>1. CASE AlreadyRunning(s)
  BY <1>1, <1>s DEF AlreadyRunning
<1>2. CASE StartAnew(s)
  <2>1. alone' \in [Shells -> BOOLEAN]
    BY <1>2, <1>s, BeginType DEF StartAnew
  <2>2. /\ pc' = [pc EXCEPT ![s] = "removing"]
        /\ UNCHANGED <<machine, pid_file, pid, starterFrame>>
    BY <1>2 DEF StartAnew
  <2> QED
    BY <1>s, <2>1, <2>2
<1>3. CASE RemoveStaleFile(s)
  BY <1>3, <1>s DEF RemoveStaleFile
<1>4. CASE Launch(s)
  BY <1>4, <1>s DEF Launch, Runtime
<1>5. CASE LaunchFails(s)
  BY <1>5, <1>s DEF LaunchFails
<1>6. CASE WritePidFile(s)
  BY <1>6, <1>s DEF WritePidFile
<1>7. CASE LauncherKilled(s)
  BY <1>7, <1>s DEF LauncherKilled
<1>8. CASE ReadStarted(s)
  BY <1>8, <1>s DEF ReadStarted
<1>9. CASE FindListener(s)
  BY <1>9, <1>s DEF FindListener
<1>10. CASE RecordListener(s)
  BY <1>10, <1>s DEF RecordListener
<1>11. CASE FindNoListener(s)
  BY <1>11, <1>s DEF FindNoListener
<1>12. CASE ProbeStarted(s)
  <2>1. PICK to \in {"abandoning", "waiting"} : pc' = [pc EXCEPT ![s] = to]
    BY <1>12 DEF ProbeStarted
  <2>2. UNCHANGED <<machine, pid_file, pid, starterFrame, alone>>
    BY <1>12 DEF ProbeStarted
  <2> QED
    BY <1>s, <2>1, <2>2
<1>13. CASE TimeOut(s)
  BY <1>13, <1>s DEF TimeOut
<1>14. CASE Abandon(s)
  BY <1>14, <1>s DEF Abandon
<1> QED
  BY <1>1, <1>2, <1>3, <1>4, <1>5, <1>6, <1>7, <1>8, <1>9, <1>10, <1>11,
     <1>12, <1>13, <1>14 DEF StartStep

\* Stoppers keep every variable well typed.
LEMMA StopperType ==
  ASSUME RuntimeTypeOK, NEW s \in Stoppers, ReadPidFile(s) \/ StopStep(s)
  PROVE RuntimeTypeOK'
<1> USE DEF RuntimeTypeOK, machine, Goto, StopperAt
<1>s. s \in Shells
  BY DEF Shells
<1>1. CASE ReadPidFile(s)
  <2>1. alone' \in [Shells -> BOOLEAN]
    BY <1>1, <1>s, BeginType DEF ReadPidFile
  <2>2. PICK to \in {"terminating", "unfiling"} : pc' = [pc EXCEPT ![s] = to]
    BY <1>1 DEF ReadPidFile
  <2>3. /\ pid' = [pid EXCEPT ![s] = pid_file]
        /\ phase' = [phase EXCEPT ![s] = "pid_file"]
        /\ UNCHANGED <<machine, pid_file, queue>>
    BY <1>1 DEF ReadPidFile
  <2> QED
    BY <1>s, <2>1, <2>2, <2>3 DEF Phases
<1>2. CASE AlreadyGone(s)
  BY <1>2, <1>s DEF AlreadyGone, Return
<1>3. CASE Terminate(s)
  BY <1>3, <1>s DEF Terminate, Running
<1>4. CASE ForceKill(s)
  <2>1. pid[s] \in Pids
    BY <1>4, <1>s DEF ForceKill, Running
  <2>2. Exits(pid[s])
    BY <1>4 DEF ForceKill
  <2> QED
    BY <1>4, <1>s, <2>1, <2>2, ExitsType DEF ForceKill, Return
<1>5. CASE RemovePidFile(s)
  BY <1>5, <1>s DEF RemovePidFile, Following, Phases
<1>6. CASE List(s)
  <2>1. Listing(phase[s]) \subseteq Pids
    BY DEF Listing
  <2> QED
    BY <1>6, <1>s, <2>1 DEF List
<1>7. ASSUME NEW p \in Pids, StopListed(s, p)
      PROVE RuntimeTypeOK'
  BY <1>7, <1>s DEF StopListed, Take
<1>8. ASSUME NEW p \in Pids, LeaveListed(s, p)
      PROVE RuntimeTypeOK'
  BY <1>8, <1>s DEF LeaveListed, Take
<1>9. CASE EndLoop(s)
  BY <1>9, <1>s DEF EndLoop, Following, Phases
<1> QED
  BY <1>1, <1>2, <1>3, <1>4, <1>5, <1>6, <1>7, <1>8, <1>9 DEF StopStep

\* Processes keep every variable well typed.
LEMMA MachineType ==
  ASSUME RuntimeTypeOK, MachineStep
  PROVE RuntimeTypeOK'
<1> PICK p \in Pids :
      \/ WrapperServes(p) \/ WrapperExits(p) \/ ServerListens(p)
      \/ ServerExits(p) \/ ForeignStarts(p) \/ ForeignExits(p)
  BY DEF MachineStep
<1>1. CASE WrapperServes(p)
  BY <1>1 DEF WrapperServes, RuntimeTypeOK, shellVars, Runtime
<1>2. CASE Exits(p) /\ UNCHANGED shellVars
  BY <1>2, ExitsType DEF RuntimeTypeOK, shellVars
<1>3. CASE ServerListens(p)
  BY <1>3 DEF ServerListens, RuntimeTypeOK, shellVars
<1>4. CASE ForeignStarts(p)
  BY <1>4 DEF ForeignStarts, RuntimeTypeOK, shellVars
<1> QED
  BY <1>1, <1>2, <1>3, <1>4 DEF WrapperExits, ServerExits, ForeignExits

\* RuntimeTypeOK is an invariant of the local runtime.
THEOREM RuntimeTypeCorrect == Spec => []RuntimeTypeOK
<1>1. RuntimeTypeOK /\ [Next]_vars => RuntimeTypeOK'
  <2> SUFFICES ASSUME RuntimeTypeOK, [Next]_vars PROVE RuntimeTypeOK'
    OBVIOUS
  <2>1. CASE UNCHANGED vars
    BY <2>1 DEF vars, machine, shellVars, RuntimeTypeOK
  <2> QED
    BY <2>1, StarterType, StopperType, MachineType DEF Next
<1> QED
  BY <1>1, RuntimeTypeInit, PTL DEF Spec

\* Initially no pid is the runtime's and no shell knows one.
LEMMA OursInit == Init => PidsAreOurs
  BY DEF Init, PidsAreOurs, Runtime

\* Starters and stoppers only learn pids that were the runtime's.
LEMMA ShellsLearnOurs ==
  ASSUME RuntimeTypeOK, PidsAreOurs,
         \/ \E s \in Starters : AlreadyRunning(s) \/ StartAnew(s) \/ StartStep(s)
         \/ \E s \in Stoppers : ReadPidFile(s) \/ StopStep(s)
  PROVE PidsAreOurs'
<1> USE DEF RuntimeTypeOK, PidsAreOurs, machine, starterFrame
<1>1. CASE UNCHANGED <<machine, pid_file, pid>>
  BY <1>1
<1>2. ASSUME NEW s \in Starters, StartStep(s)
      PROVE PidsAreOurs'
  <2>s. s \in Shells
    BY DEF Shells
  <2>1. CASE Launch(s)
    BY <2>1, <2>s DEF Launch
  <2>2. CASE RemoveStaleFile(s) \/ Abandon(s)
    BY <2>2, <2>s DEF RemoveStaleFile, Abandon
  <2>3. CASE WritePidFile(s) \/ RecordListener(s)
    BY <2>3, <2>s DEF WritePidFile, RecordListener
  <2>4. CASE ReadStarted(s)
    BY <2>4, <2>s DEF ReadStarted
  <2>5. CASE FindListener(s)
    BY <2>5, <2>s DEF FindListener, ProjectListener, is_project_host_process
  <2> QED
    BY <1>2, <1>1, <2>1, <2>2, <2>3, <2>4, <2>5
    DEF StartStep, LaunchFails, LauncherKilled, FindNoListener, ProbeStarted,
        TimeOut
<1>3. ASSUME NEW s \in Stoppers, ReadPidFile(s) \/ StopStep(s)
      PROVE PidsAreOurs'
  <2>s. s \in Shells
    BY DEF Shells
  <2>1. CASE ReadPidFile(s)
    BY <2>1, <2>s DEF ReadPidFile
  <2>2. CASE Terminate(s)
    BY <2>2, <2>s DEF Terminate, Running
  <2>3. CASE ForceKill(s)
    BY <2>3, <2>s DEF ForceKill, Exits, Runtime
  <2>4. CASE RemovePidFile(s)
    BY <2>4, <2>s DEF RemovePidFile
  <2>5. ASSUME NEW p \in Pids, StopListed(s, p)
        PROVE PidsAreOurs'
    BY <2>5, <2>s DEF StopListed, Take, is_project_host_process
  <2>6. ASSUME NEW p \in Pids, LeaveListed(s, p)
        PROVE PidsAreOurs'
    BY <2>6, <1>1 DEF LeaveListed, Take
  <2> QED
    BY <1>3, <1>1, <2>1, <2>2, <2>3, <2>4, <2>5, <2>6
    DEF StopStep, AlreadyGone, List, EndLoop
<1> QED
  BY <1>1, <1>2, <1>3 DEF AlreadyRunning, StartAnew

\* Processes join and leave the runtime under recorded pids.
LEMMA MachineRecordsOurs ==
  ASSUME RuntimeTypeOK, PidsAreOurs, MachineStep
  PROVE PidsAreOurs'
<1> USE DEF RuntimeTypeOK, PidsAreOurs, shellVars
<1> PICK p \in Pids :
      \/ WrapperServes(p) \/ WrapperExits(p) \/ ServerListens(p)
      \/ ServerExits(p) \/ ForeignStarts(p) \/ ForeignExits(p)
  BY DEF MachineStep
<1>1. CASE WrapperServes(p)
  BY <1>1 DEF WrapperServes, Runtime
<1>2. CASE Exits(p) /\ UNCHANGED shellVars
  BY <1>2 DEF Exits, Runtime
<1>3. CASE ServerListens(p)
  BY <1>3 DEF ServerListens
<1>4. CASE ForeignStarts(p)
  BY <1>4 DEF ForeignStarts, Runtime
<1> QED
  BY <1>1, <1>2, <1>3, <1>4 DEF WrapperExits, ServerExits, ForeignExits

\* A signal is sent only to a pid that was the runtime's once: whoever listens
\* on the port without having been started by the project is left alone.
THEOREM StrangersAreLeftAlone == Spec => []OnlyRuntimePidsStopped
<1>1. RuntimeTypeOK /\ PidsAreOurs /\ [Next]_vars => PidsAreOurs'
  <2> SUFFICES ASSUME RuntimeTypeOK, PidsAreOurs, [Next]_vars PROVE PidsAreOurs'
    OBVIOUS
  <2>1. CASE UNCHANGED vars
    BY <2>1 DEF vars, machine, shellVars, PidsAreOurs
  <2> QED
    BY <2>1, ShellsLearnOurs, MachineRecordsOurs DEF Next
<1>2. PidsAreOurs => OnlyRuntimePidsStopped
  BY DEF PidsAreOurs, OnlyRuntimePidsStopped
<1> QED
  BY <1>1, <1>2, OursInit, RuntimeTypeCorrect, PTL DEF Spec

\* Nothing has been started when the first `make down` begins.
LEMMA SweepInit == Init => SweepIsComplete
  BY DEF Init, SweepIsComplete, WrappersAwaited, ServersAwaited, StarterBusy,
     Shells

\* A starter that becomes busy is one nobody is alone with.
LEMMA StarterKeepsSweep ==
  ASSUME RuntimeTypeOK, SweepIsComplete, NEW u \in Starters,
         AlreadyRunning(u) \/ StartAnew(u) \/ StartStep(u)
  PROVE SweepIsComplete'
<1> SUFFICES ASSUME NEW s \in Stoppers, alone'[s]
             PROVE /\ \A t \in Starters : ~StarterBusy(t)'
                   /\ WrappersAwaited(s)'
                   /\ ServersAwaited(s)'
  BY DEF SweepIsComplete
<1>s. s # u /\ s \in Shells /\ u \in Shells
  BY ShellsAssumption DEF Shells
<1>1. CASE StartAnew(u)
  <2>1. ~alone'[s]
    BY <1>1, <1>s DEF StartAnew, Begin
  <2> QED
    BY <2>1
<1>2. CASE AlreadyRunning(u)
  <2>1. /\ alone[s] /\ pc' = [pc EXCEPT ![u] = "ok"]
        /\ UNCHANGED <<proc, pid, phase, queue>>
    BY <1>2 DEF AlreadyRunning, machine, starterFrame
  <2>2. pc'[s] = pc[s]
    BY <2>1, <1>s DEF RuntimeTypeOK
  <2>3. \A t \in Starters : ~StarterBusy(t)'
    BY <2>1 DEF SweepIsComplete, StarterBusy, RuntimeTypeOK, Shells
  <2> QED
    BY <2>1, <2>2, <2>3
    DEF SweepIsComplete, WrappersAwaited, ServersAwaited, Awaits
<1>3. CASE StartStep(u)
  <2>1. StarterBusy(u)
    BY <1>3 DEF StartStep, StarterBusy, Goto, RemoveStaleFile, Launch,
       LaunchFails, WritePidFile, LauncherKilled, ReadStarted, FindListener,
       RecordListener, FindNoListener, ProbeStarted, TimeOut, Abandon
  <2>2. alone' = alone
    BY <1>3 DEF StartStep, RemoveStaleFile, Launch, LaunchFails, WritePidFile,
       LauncherKilled, ReadStarted, FindListener, RecordListener,
       FindNoListener, ProbeStarted, TimeOut, Abandon
  <2> QED
    BY <2>1, <2>2 DEF SweepIsComplete
<1> QED
  BY <1>1, <1>2, <1>3

\* Processes start servers only while the wrapper that starts one is awaited.
LEMMA MachineKeepsSweep ==
  ASSUME RuntimeTypeOK, SweepIsComplete, MachineStep
  PROVE SweepIsComplete'
<1> PICK p \in Pids :
      \/ WrapperServes(p) \/ WrapperExits(p) \/ ServerListens(p)
      \/ ServerExits(p) \/ ForeignStarts(p) \/ ForeignExits(p)
  BY DEF MachineStep
<1>1. UNCHANGED shellVars
  BY DEF WrapperServes, WrapperExits, ServerListens, ServerExits,
     ForeignStarts, ForeignExits
<1> SUFFICES ASSUME NEW s \in Stoppers, alone[s]
             PROVE WrappersAwaited(s)' /\ ServersAwaited(s)'
  BY <1>1 DEF SweepIsComplete, shellVars, StarterBusy
<1> USE DEF WrappersAwaited, ServersAwaited, Awaits, shellVars
<1>2. CASE WrapperServes(p)
  BY <1>1, <1>2 DEF WrapperServes, SweepIsComplete, RuntimeTypeOK
<1>3. CASE Exits(p)
  BY <1>1, <1>3 DEF Exits, SweepIsComplete, RuntimeTypeOK
<1>4. CASE ServerListens(p) \/ ForeignStarts(p)
  BY <1>1, <1>4
  DEF ServerListens, ForeignStarts, SweepIsComplete, RuntimeTypeOK
<1> QED
  BY <1>2, <1>3, <1>4 DEF WrapperExits, ServerExits, ForeignExits

\* A step of one stopper makes nobody busy and leaves the others' work alone.
LEMMA OtherStopperKeepsSweep ==
  ASSUME RuntimeTypeOK, SweepIsComplete,
         NEW u \in Stoppers, ReadPidFile(u) \/ StopStep(u),
         NEW s \in Stoppers, s # u, alone'[s]
  PROVE WrappersAwaited(s)' /\ ServersAwaited(s)'
<1>s. s \in Shells /\ u \in Shells
  BY DEF Shells
<1>1. alone[s]
  BY <1>s DEF ReadPidFile, StopStep, Begin, AlreadyGone, Terminate, ForceKill,
     RemovePidFile, List, StopListed, LeaveListed, Take, EndLoop
<1>2. pc'[s] = pc[s] /\ pid'[s] = pid[s]
  BY <1>s DEF RuntimeTypeOK, ReadPidFile, StopStep, Goto, AlreadyGone,
     Terminate, ForceKill, RemovePidFile, List, StopListed, LeaveListed, Take,
     EndLoop
<1>3. phase'[s] = phase[s] /\ queue'[s] = queue[s]
  BY <1>s DEF RuntimeTypeOK, ReadPidFile, StopStep, AlreadyGone,
     Terminate, ForceKill, RemovePidFile, List, StopListed, LeaveListed, Take,
     EndLoop
<1>4. \A p \in Pids : proc'[p] = proc[p] \/ proc'[p] = "free"
  BY DEF RuntimeTypeOK, ReadPidFile, StopStep, Goto, AlreadyGone, machine,
     Terminate, ForceKill, Exits, RemovePidFile, List, StopListed,
     LeaveListed, Take, EndLoop
<1> QED
  BY <1>1, <1>2, <1>3, <1>4
  DEF SweepIsComplete, WrappersAwaited, ServersAwaited, Awaits

\* Starters are as busy after a stopper's step as before it.
LEMMA StoppersMakeNobodyBusy ==
  ASSUME RuntimeTypeOK, NEW u \in Stoppers, ReadPidFile(u) \/ StopStep(u),
         \A t \in Starters : ~StarterBusy(t)
  PROVE \A t \in Starters : ~StarterBusy(t)'
<1>1. \A t \in Starters : t # u /\ t \in Shells
  BY ShellsAssumption DEF Shells
<1>2. \A t \in Shells \ {u} : pc'[t] = pc[t]
  BY DEF RuntimeTypeOK, ReadPidFile, StopStep, Goto, AlreadyGone, Terminate,
     ForceKill, RemovePidFile, List, StopListed, LeaveListed, Take, EndLoop
<1> QED
  BY <1>1, <1>2 DEF StarterBusy

\* What a stopper's own step does to the processes it still awaits.
LEMMA OwnStepKeepsSweep ==
  ASSUME RuntimeTypeOK, SweepIsComplete,
         NEW s \in Stoppers, StopStep(s), alone[s]
  PROVE WrappersAwaited(s)' /\ ServersAwaited(s)'
<1> USE DEF RuntimeTypeOK, Goto, machine
<1>s. s \in Shells
  BY DEF Shells
<1>w. WrappersAwaited(s) /\ ServersAwaited(s)
  BY DEF SweepIsComplete
<1> USE DEF WrappersAwaited, ServersAwaited, Awaits
<1>1. CASE AlreadyGone(s)
  <2>1. pc'[s] = Return(s) /\ UNCHANGED <<proc, phase, queue>>
    BY <1>1, <1>s DEF AlreadyGone
  <2>2. ASSUME NEW p \in Pids, p = pid[s]
        PROVE proc[p] = "free"
    BY <1>1, <2>2, PidsAssumption DEF AlreadyGone, Running
  <2>3. pc[s] \in {"terminating", "polling"}
    BY <1>1 DEF AlreadyGone
  <2> QED
    BY <1>w, <2>1, <2>2, <2>3 DEF Return
<1>2. CASE Terminate(s)
  BY <1>2, <1>s, <1>w DEF Terminate
<1>3. CASE ForceKill(s)
  <2>1. pc'[s] = Return(s) /\ UNCHANGED <<phase, queue>>
    BY <1>3, <1>s DEF ForceKill
  <2>2. pc[s] = "polling" /\ pid[s] \in Pids
    BY <1>3, <1>s DEF ForceKill, Running
  <2>3. proc' = [proc EXCEPT ![pid[s]] = "free"]
    BY <1>3 DEF ForceKill, Exits
  <2> QED
    BY <1>w, <2>1, <2>2, <2>3 DEF Return
<1>4. CASE RemovePidFile(s)
  <2>1. phase[s] = "pid_file"
    BY <1>4 DEF RemovePidFile
  <2>2. pc'[s] = "listing" /\ phase'[s] = "wrappers"
    BY <1>4, <1>s, <2>1 DEF RemovePidFile, Following
  <2> QED
    BY <2>2
<1>5. CASE List(s)
  <2>1. /\ pc[s] = "listing" /\ phase[s] # "pid_file"
        /\ queue'[s] = Listing(phase[s])
        /\ UNCHANGED <<proc, phase>>
    BY <1>5, <1>s DEF List
  <2>2. CASE phase[s] = "wrappers"
    BY <1>w, <2>1, <2>2 DEF Listing
  <2>3. CASE phase[s] = "servers"
    BY <1>w, <2>1, <2>3 DEF Listing
  <2> QED
    BY <1>w, <2>1, <2>2, <2>3
<1>6. ASSUME NEW p \in Pids, StopListed(s, p)
      PROVE WrappersAwaited(s)' /\ ServersAwaited(s)'
  <2>1. /\ pc[s] = "looping" /\ pc'[s] = "terminating"
        /\ queue'[s] = queue[s] \ {p} /\ pid'[s] = p
        /\ UNCHANGED <<proc, phase>>
    BY <1>6, <1>s DEF StopListed, Take
  <2> QED
    BY <1>w, <2>1
<1>7. ASSUME NEW p \in Pids, LeaveListed(s, p)
      PROVE WrappersAwaited(s)' /\ ServersAwaited(s)'
  <2>1. /\ pc[s] = "looping" /\ pc'[s] = "looping"
        /\ queue'[s] = queue[s] \ {p}
        /\ UNCHANGED <<proc, phase>>
    BY <1>7, <1>s DEF LeaveListed, Take
  <2>2. proc[p] \notin {"wrapper", "waiting", "server"}
    BY <1>7 DEF LeaveListed, is_project_host_process, Runtime
  <2> QED
    BY <1>w, <2>1, <2>2
<1>8. CASE EndLoop(s)
  <2>1. pc[s] = "looping" /\ queue[s] = {} /\ phase[s] # "pid_file"
    BY <1>8 DEF EndLoop
  <2>2. \A p \in Pids : /\ proc[p] \notin {"wrapper", "waiting"}
                        /\ proc[p] = "server" => phase[s] = "wrappers"
    BY <1>w, <2>1
  <2>3. proc' = proc /\ phase'[s] = Following[phase[s]]
    BY <1>8 DEF EndLoop
  <2>4. phase[s] = "wrappers" => phase'[s] = "servers" /\ pc'[s] = "listing"
    BY <1>8, <1>s, <2>3 DEF EndLoop, Following
  <2> QED
    BY <2>2, <2>3, <2>4
<1> QED
  BY <1>1, <1>2, <1>3, <1>4, <1>5, <1>6, <1>7, <1>8 DEF StopStep

\* A stopper starts again from the pid file with everything still to do.
LEMMA BeginningKeepsSweep ==
  ASSUME RuntimeTypeOK, SweepIsComplete, NEW s \in Stoppers, ReadPidFile(s),
         alone'[s]
  PROVE /\ \A t \in Starters : ~StarterBusy(t)
        /\ WrappersAwaited(s)'
        /\ ServersAwaited(s)'
<1>s. s \in Shells /\ s \notin Starters
  BY ShellsAssumption DEF Shells
<1>1. phase'[s] = "pid_file" /\ pc'[s] # "done"
  BY <1>s DEF ReadPidFile, RuntimeTypeOK
<1>2. \A t \in Starters \ {s} : ~StarterBusy(t)
  BY <1>s DEF ReadPidFile, Begin
<1> QED
  BY <1>s, <1>1, <1>2 DEF WrappersAwaited, ServersAwaited

\* `make down`, with no start at work, leaves no process of the runtime: the
\* memory-release path releases the memory.
THEOREM DownReleases == Spec => []DownReleasesRuntime
<1>1. ASSUME RuntimeTypeOK, SweepIsComplete, NEW u \in Stoppers,
             ReadPidFile(u) \/ StopStep(u)
      PROVE SweepIsComplete'
  <2>s. u \in Shells /\ u \notin Starters
    BY ShellsAssumption DEF Shells
  <2>b. (\A t \in Starters : ~StarterBusy(t)) =>
          (\A t \in Starters : ~StarterBusy(t)')
    BY <1>1, StoppersMakeNobodyBusy
  <2>1. ASSUME ReadPidFile(u), alone'[u]
        PROVE /\ \A t \in Starters : ~StarterBusy(t)'
              /\ WrappersAwaited(u)'
              /\ ServersAwaited(u)'
    BY <1>1, <2>1, <2>b, BeginningKeepsSweep
  <2>2. ASSUME StopStep(u), alone'[u]
        PROVE /\ \A t \in Starters : ~StarterBusy(t)'
              /\ WrappersAwaited(u)'
              /\ ServersAwaited(u)'
    <3>1. alone' = alone
      BY <2>2 DEF StopStep, AlreadyGone, Terminate, ForceKill, RemovePidFile,
         List, StopListed, LeaveListed, Take, EndLoop
    <3>2. alone[u]
      BY <2>2, <3>1
    <3>3. \A t \in Starters : ~StarterBusy(t)
      BY <1>1, <3>2 DEF SweepIsComplete
    <3>4. WrappersAwaited(u)' /\ ServersAwaited(u)'
      BY <1>1, <2>2, <3>2, OwnStepKeepsSweep
    <3> QED
      BY <3>3, <3>4, <2>b
  <2>3. ASSUME NEW s \in Stoppers, s # u, alone'[s]
        PROVE /\ \A t \in Starters : ~StarterBusy(t)'
              /\ WrappersAwaited(s)'
              /\ ServersAwaited(s)'
    <3>1. alone[s]
      BY <1>1, <2>3, <2>s DEF Shells, ReadPidFile, StopStep, Begin, AlreadyGone,
         Terminate, ForceKill, RemovePidFile, List, StopListed, LeaveListed,
         Take, EndLoop
    <3>2. \A t \in Starters : ~StarterBusy(t)
      BY <1>1, <3>1 DEF SweepIsComplete
    <3>3. WrappersAwaited(s)' /\ ServersAwaited(s)'
      BY <1>1, <2>3, OtherStopperKeepsSweep
    <3> QED
      BY <3>2, <3>3, <2>b
  <2>4. ASSUME NEW s \in Stoppers, alone'[s]
        PROVE /\ \A t \in Starters : ~StarterBusy(t)'
              /\ WrappersAwaited(s)'
              /\ ServersAwaited(s)'
    BY <1>1, <2>1, <2>2, <2>3, <2>4
  <2> QED
    BY <2>4 DEF SweepIsComplete
<1>2. RuntimeTypeOK /\ SweepIsComplete /\ [Next]_vars => SweepIsComplete'
  <2> SUFFICES ASSUME RuntimeTypeOK, SweepIsComplete, [Next]_vars
               PROVE SweepIsComplete'
    OBVIOUS
  <2>1. CASE UNCHANGED vars
    BY <2>1 DEF vars, machine, shellVars, SweepIsComplete, StarterBusy,
       WrappersAwaited, ServersAwaited, Awaits
  <2> QED
    BY <2>1, <1>1, StarterKeepsSweep, MachineKeepsSweep DEF Next
<1>3. RuntimeTypeOK /\ SweepIsComplete => DownReleasesRuntime
  BY DEF RuntimeTypeOK, SweepIsComplete, DownReleasesRuntime, WrappersAwaited,
     ServersAwaited, is_project_host_process, Runtime
<1> QED
  BY <1>2, <1>3, SweepInit, RuntimeTypeCorrect, PTL DEF Spec
=============================================================================
