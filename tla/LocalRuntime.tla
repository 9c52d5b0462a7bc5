---------------------------- MODULE LocalRuntime ----------------------------
(***************************************************************************)
(* scripts/local-runtime.sh: several shells start and stop the native      *)
(* model server of one machine through a pid file, process listings and    *)
(* the listener of one port, while processes die and their pids are reused.*)
(*                                                                         *)
(* A step of a shell is one command that looks at, or changes, the machine.*)
(* run-vllm-mlx-backend.sh is the wrapper; its last command, `uv tool run  *)
(* vllm-mlx serve`, and what that runs are one process, the server.  The   *)
(* other project processes down stops (mkdocs, the API) are left out.      *)
(***************************************************************************)
EXTENDS Naturals, FiniteSets

CONSTANTS Pids, NoPid, Starters, Stoppers

ASSUME PidsAssumption == NoPid \notin Pids
ASSUME ShellsAssumption == Starters \cap Stoppers = {}

Shells == Starters \cup Stoppers

VARIABLES
  proc,       \* proc[p]: what runs under pid p
  parent,     \* parent[p]: the wrapper that waits for server p
  listener,   \* the pid that listens on the service's port
  signalled,  \* pids a SIGTERM was sent to
  pid_file,   \* the pid in the file, NoPid when there is no file
  pc,         \* pc[s]: next command of shell s
  pid,        \* pid[s]: started_pid, listener_pid or the pid to stop
  phase,      \* phase[s]: what a stopper works through
  queue,      \* queue[s]: pids of the listing a stopper loops over
  ours,       \* pids that ever belonged to the runtime (history)
  alone       \* alone[s]: no starter has worked since s began (history)

machine == <<proc, parent, listener, signalled, ours>>
shellVars == <<pid_file, pc, pid, phase, queue, alone>>
vars == <<machine, shellVars>>

Runtime == {"wrapper", "waiting", "server"}
Running(p) == p # NoPid /\ proc[p] # "free"
is_project_host_process(p) == proc[p] \in Runtime

\* `make down` first stops the process the pid file names, then what three
\* listings return: pgrep for the wrapper's and for the server's command line,
\* and lsof for the port.
Phases == {"pid_file", "wrappers", "servers", "listeners"}
Following == [pid_file |-> "wrappers", wrappers |-> "servers",
              servers |-> "listeners", listeners |-> "pid_file"]

Listing(p) ==
  CASE p = "wrappers" -> {q \in Pids : proc[q] \in {"wrapper", "waiting"}}
    [] p = "servers" -> {q \in Pids : proc[q] = "server"}
    [] OTHER -> {listener} \ {NoPid}

StarterAt == {"idle", "removing", "launching", "launched", "reading", "waiting",
              "probing", "recording", "abandoning", "ok", "failed"}
StopperAt == {"idle", "terminating", "polling", "unfiling", "listing", "looping",
              "done"}

Init ==
  /\ proc \in [Pids -> {"free", "foreign"}]
  /\ parent = [p \in Pids |-> NoPid]
  /\ listener \in {p \in Pids : proc[p] = "foreign"} \cup {NoPid}
  /\ signalled = {}
  /\ pid_file = NoPid
  /\ pc = [s \in Shells |-> "idle"]
  /\ pid = [s \in Shells |-> NoPid]
  /\ phase = [s \in Stoppers |-> "pid_file"]
  /\ queue = [s \in Stoppers |-> {}]
  /\ ours = {}
  /\ alone = [s \in Shells |-> TRUE]

Goto(s, from, to) == pc[s] = from /\ pc' = [pc EXCEPT ![s] = to]
-----------------------------------------------------------------------------
(* start_service.                                                          *)

starterFrame == <<phase, queue>>

StarterBusy(s) == pc[s] \notin {"idle", "ok", "failed"}

\* A new run of the script; whoever works at the same time is not alone.
Begin(s) ==
  alone' = [t \in Shells |->
    IF t = s THEN \A u \in Starters \ {s} : ~StarterBusy(u)
    ELSE alone[t] /\ s \notin Starters]

\* The pid file names a process that runs, whatever it is.
AlreadyRunning(s) ==
  /\ pc[s] \in {"idle", "ok", "failed"}
  /\ Running(pid_file)
  /\ pc' = [pc EXCEPT ![s] = "ok"]
  /\ UNCHANGED <<machine, pid_file, pid, starterFrame, alone>>

StartAnew(s) ==
  /\ pc[s] \in {"idle", "ok", "failed"}
  /\ ~Running(pid_file)
  /\ pc' = [pc EXCEPT ![s] = "removing"]
  /\ Begin(s)
  /\ UNCHANGED <<machine, pid_file, pid, starterFrame>>

RemoveStaleFile(s) ==
  /\ Goto(s, "removing", "launching")
  /\ pid_file' = NoPid
  /\ UNCHANGED <<machine, pid, starterFrame, alone>>

\* start-detached.py: Popen ...
Launch(s) ==
  /\ Goto(s, "launching", "launched")
  /\ \E p \in Pids :
       /\ proc[p] = "free"
       /\ proc' = [proc EXCEPT ![p] = "wrapper"]
       /\ ours' = ours \cup {p}
       /\ pid' = [pid EXCEPT ![s] = p]
  /\ UNCHANGED <<parent, listener, signalled, pid_file, starterFrame, alone>>

\* It finds no pid: the launcher fails and `set -e` ends the shell.
LaunchFails(s) ==
  /\ \A p \in Pids : proc[p] # "free"
  /\ Goto(s, "launching", "failed")
  /\ UNCHANGED <<machine, pid_file, pid, starterFrame, alone>>

\* ... then pid_file.write_text.
WritePidFile(s) ==
  /\ Goto(s, "launched", "reading")
  /\ pid_file' = pid[s]
  /\ UNCHANGED <<machine, pid, starterFrame, alone>>

\* The launcher's own command line names run-vllm-mlx-backend.sh, so a stopper
\* that lists wrappers kills it; `set -e` then ends the shell.
LauncherKilled(s) ==
  /\ pc[s] \in {"launching", "launched"}
  /\ \E t \in Stoppers : pc[t] = "looping" /\ phase[t] = "wrappers"
  /\ pc' = [pc EXCEPT ![s] = "failed"]
  /\ UNCHANGED <<machine, pid_file, pid, starterFrame, alone>>

\* started_pid is what the file holds by now.
ReadStarted(s) ==
  /\ Goto(s, "reading", "waiting")
  /\ pid' = [pid EXCEPT ![s] = pid_file]
  /\ UNCHANGED <<machine, pid_file, starterFrame, alone>>

ProjectListener == listener # NoPid /\ is_project_host_process(listener)

FindListener(s) ==
  /\ ProjectListener
  /\ Goto(s, "waiting", "recording")
  /\ pid' = [pid EXCEPT ![s] = listener]
  /\ UNCHANGED <<machine, pid_file, starterFrame, alone>>

RecordListener(s) ==
  /\ Goto(s, "recording", "ok")
  /\ pid_file' = pid[s]
  /\ UNCHANGED <<machine, pid, starterFrame, alone>>

FindNoListener(s) ==
  /\ ~ProjectListener
  /\ Goto(s, "waiting", "probing")
  /\ UNCHANGED <<machine, pid_file, pid, starterFrame, alone>>

\* The started process is gone, or it runs and the shell sleeps.
ProbeStarted(s) ==
  /\ \/ ~Running(pid[s]) /\ Goto(s, "probing", "abandoning")
     \/ Running(pid[s]) /\ Goto(s, "probing", "waiting")
  /\ UNCHANGED <<machine, pid_file, pid, starterFrame, alone>>

\* Mutant: the deadline is never reached.
NeverTimeOut(s) == FALSE /\ UNCHANGED vars

TimeOut(s) ==
  /\ Goto(s, "waiting", "abandoning")
  /\ UNCHANGED <<machine, pid_file, pid, starterFrame, alone>>

\* `rm -f "$pid_file"; return 1`: what was started keeps running.
Abandon(s) ==
  /\ Goto(s, "abandoning", "failed")
  /\ pid_file' = NoPid
  /\ UNCHANGED <<machine, pid, starterFrame, alone>>
-----------------------------------------------------------------------------
(* `make down`: stop_pid_file, stop_known_project_processes and            *)
(* stop_port_listeners, all of which stop processes with terminate_pid.    *)

ReadPidFile(s) ==
  /\ pc[s] \in {"idle", "done"}
  /\ pc' = [pc EXCEPT ![s] = IF Running(pid_file) THEN "terminating"
                             ELSE "unfiling"]
  /\ pid' = [pid EXCEPT ![s] = pid_file]
  /\ phase' = [phase EXCEPT ![s] = "pid_file"]
  /\ Begin(s)
  /\ UNCHANGED <<machine, pid_file, queue>>

\* terminate_pid returns to stop_pid_file or to the loop over a listing.
Return(s) == IF phase[s] = "pid_file" THEN "unfiling" ELSE "looping"

AlreadyGone(s) ==
  /\ pc[s] \in {"terminating", "polling"}
  /\ ~Running(pid[s])
  /\ pc' = [pc EXCEPT ![s] = Return(s)]
  /\ UNCHANGED <<machine, pid_file, pid, phase, queue, alone>>

Terminate(s) ==
  /\ Running(pid[s])
  /\ Goto(s, "terminating", "polling")
  /\ signalled' = signalled \cup {pid[s]}
  /\ UNCHANGED <<proc, parent, listener, ours, pid_file, pid, phase, queue,
                 alone>>

\* Process p is no more; a server it waited for is an orphan.
Exits(p) ==
  /\ proc' = [proc EXCEPT ![p] = "free"]
  /\ parent' = [q \in Pids |-> IF q = p \/ parent[q] = p THEN NoPid
                               ELSE parent[q]]
  /\ listener' = IF listener = p THEN NoPid ELSE listener
  /\ signalled' = signalled \ {p}
  /\ UNCHANGED ours

\* Mutant: a process that ignores SIGTERM is waited for.
NeverForceKill(s) == FALSE /\ UNCHANGED vars

\* Five polls later: kill -9.
ForceKill(s) ==
  /\ Running(pid[s])
  /\ Goto(s, "polling", Return(s))
  /\ Exits(pid[s])
  /\ UNCHANGED <<pid_file, pid, phase, queue, alone>>

RemovePidFile(s) ==
  /\ Goto(s, "unfiling", "listing")
  /\ pid_file' = NoPid
  /\ phase' = [phase EXCEPT ![s] = Following[@]]
  /\ UNCHANGED <<machine, pid, queue, alone>>

\* Mutant: servers are listed before the wrappers that start them.
ListServersFirst(s) ==
  /\ Goto(s, "listing", "looping")
  /\ queue' = [queue EXCEPT ![s] =
       Listing(CASE phase[s] = "wrappers" -> "servers"
                 [] phase[s] = "servers" -> "wrappers"
                 [] OTHER -> "listeners")]
  /\ UNCHANGED <<machine, pid_file, pid, phase, alone>>

List(s) ==
  /\ Goto(s, "listing", "looping")
  /\ queue' = [queue EXCEPT ![s] = Listing(phase[s])]
  /\ UNCHANGED <<machine, pid_file, pid, phase, alone>>

Take(s, p, to) ==
  /\ p \in queue[s]
  /\ Goto(s, "looping", to)
  /\ queue' = [queue EXCEPT ![s] = @ \ {p}]
  /\ UNCHANGED <<machine, pid_file, phase, alone>>

\* Mutant: every listed process is stopped.
StopListedUnchecked(s, p) ==
  /\ Take(s, p, "terminating")
  /\ pid' = [pid EXCEPT ![s] = p]

\* The command line of a listed pid is looked up again before it is stopped.
StopListed(s, p) ==
  /\ is_project_host_process(p)
  /\ Take(s, p, "terminating")
  /\ pid' = [pid EXCEPT ![s] = p]

LeaveListed(s, p) ==
  /\ ~is_project_host_process(p)
  /\ Take(s, p, "looping")
  /\ UNCHANGED pid

EndLoop(s) ==
  /\ queue[s] = {}
  /\ Goto(s, "looping", IF phase[s] = "listeners" THEN "done" ELSE "listing")
  /\ phase' = [phase EXCEPT ![s] = Following[@]]
  /\ UNCHANGED <<machine, pid_file, pid, queue, alone>>
-----------------------------------------------------------------------------
(* Processes.                                                              *)

\* run-vllm-mlx-backend.sh passed the download gate and runs the server.
WrapperServes(p) ==
  /\ proc[p] = "wrapper"
  /\ \E q \in Pids :
       /\ proc[q] = "free"
       /\ proc' = [proc EXCEPT ![p] = "waiting", ![q] = "server"]
       /\ parent' = [parent EXCEPT ![q] = p]
       /\ ours' = ours \cup {q}
  /\ UNCHANGED <<listener, signalled, shellVars>>

\* It ends when the gate refuses, when a signal kills it, or with its server.
WrapperExits(p) ==
  /\ \/ proc[p] = "wrapper"
     \/ proc[p] = "waiting" /\ p \in signalled
     \/ proc[p] = "waiting" /\ \A q \in Pids : parent[q] # p
  /\ Exits(p)
  /\ UNCHANGED shellVars

ServerListens(p) ==
  /\ proc[p] = "server"
  /\ listener = NoPid
  /\ listener' = p
  /\ UNCHANGED <<proc, parent, signalled, ours, shellVars>>

\* It crashes, finds the port taken, or obeys a signal.
ServerExits(p) == proc[p] = "server" /\ Exits(p) /\ UNCHANGED shellVars

\* Processes of the rest of the machine take free pids, and perhaps the port.
ForeignStarts(p) ==
  /\ proc[p] = "free"
  /\ proc' = [proc EXCEPT ![p] = "foreign"]
  /\ listener' \in {listener} \cup (IF listener = NoPid THEN {p} ELSE {})
  /\ UNCHANGED <<parent, signalled, ours, shellVars>>

ForeignExits(p) == proc[p] = "foreign" /\ Exits(p) /\ UNCHANGED shellVars
-----------------------------------------------------------------------------
StartStep(s) ==
  \/ RemoveStaleFile(s)
  \/ Launch(s)
  \/ LaunchFails(s)
  \/ WritePidFile(s)
  \/ LauncherKilled(s)
  \/ ReadStarted(s)
  \/ FindListener(s)
  \/ RecordListener(s)
  \/ FindNoListener(s)
  \/ ProbeStarted(s)
  \/ TimeOut(s)
  \/ Abandon(s)

StopStep(s) ==
  \/ AlreadyGone(s)
  \/ Terminate(s)
  \/ ForceKill(s)
  \/ RemovePidFile(s)
  \/ List(s)
  \/ \E p \in Pids : StopListed(s, p) \/ LeaveListed(s, p)
  \/ EndLoop(s)

MachineStep ==
  \E p \in Pids :
    \/ WrapperServes(p)
    \/ WrapperExits(p)
    \/ ServerListens(p)
    \/ ServerExits(p)
    \/ ForeignStarts(p)
    \/ ForeignExits(p)

Next ==
  \/ \E s \in Starters : AlreadyRunning(s) \/ StartAnew(s) \/ StartStep(s)
  \/ \E s \in Stoppers : ReadPidFile(s) \/ StopStep(s)
  \/ MachineStep

Spec == Init /\ [][Next]_vars

\* A shell that runs is scheduled; the machine owes nothing, so a process may
\* ignore SIGTERM for ever, but a start reaches its deadline.
Fairness ==
  /\ \A s \in Starters : WF_vars(StartStep(s)) /\ SF_vars(TimeOut(s))
  /\ \A s \in Stoppers : WF_vars(StopStep(s))

FairSpec == Spec /\ Fairness
=============================================================================
