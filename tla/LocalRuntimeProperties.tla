----------------------- MODULE LocalRuntimeProperties -----------------------
(***************************************************************************)
(* What `make up` and `make down` promise about the host processes.        *)
(***************************************************************************)
EXTENDS LocalRuntime

\* Type correctness of the machine and of the shells' local variables; a
\* stopper loops over listings exactly while it is past the pid file.
RuntimeTypeOK ==
  /\ proc \in [Pids -> Runtime \cup {"free", "foreign"}]
  /\ parent \in [Pids -> Pids \cup {NoPid}]
  /\ listener \in Pids \cup {NoPid}
  /\ signalled \subseteq Pids
  /\ pid_file \in Pids \cup {NoPid}
  /\ pc \in [Shells -> StarterAt \cup StopperAt]
  /\ pid \in [Shells -> Pids \cup {NoPid}]
  /\ phase \in [Stoppers -> Phases]
  /\ queue \in [Stoppers -> SUBSET Pids]
  /\ ours \subseteq Pids
  /\ alone \in [Shells -> BOOLEAN]
  /\ \A s \in Stoppers :
       /\ pc[s] \in {"idle", "unfiling", "done"} => phase[s] = "pid_file"
       /\ pc[s] \in {"listing", "looping"} => phase[s] # "pid_file"

\* `make down` is the memory-release path: when it is done, and no start worked
\* at the same time, no process of the runtime is left, however early or late
\* in its own start-up each was, and whatever the pid file said.
DownReleasesRuntime ==
  \A s \in Stoppers :
    pc[s] = "done" /\ alone[s] => \A p \in Pids : ~is_project_host_process(p)

\* A process outside the runtime is stopped only under a pid that the runtime
\* once had: a stranger on the port is left alone.
OnlyRuntimePidsStopped == signalled \subseteq ours

\* Why the former holds: the pid file, and every pid a shell has read from it
\* or from a listing, was the runtime's once.
PidsAreOurs ==
  /\ \A p \in Pids : proc[p] \in Runtime => p \in ours
  /\ pid_file \in ours \cup {NoPid}
  /\ \A s \in Shells : pid[s] \in ours \cup {NoPid}
  /\ signalled \subseteq ours

Awaits(s, p) ==
  \/ p \in queue[s]
  \/ pc[s] \in {"terminating", "polling"} /\ pid[s] = p

\* A stopper still has to stop every wrapper, and every server ...
WrappersAwaited(s) ==
  \A p \in Pids : proc[p] \in {"wrapper", "waiting"} =>
    \/ phase[s] = "pid_file" /\ pc[s] # "done"
    \/ phase[s] = "wrappers" /\ (pc[s] = "listing" \/ Awaits(s, p))

\* ... that runs.
ServersAwaited(s) ==
  \A p \in Pids : proc[p] = "server" =>
    \/ phase[s] = "pid_file" /\ pc[s] # "done"
    \/ phase[s] = "wrappers"
    \/ phase[s] = "servers" /\ (pc[s] = "listing" \/ Awaits(s, p))

\* Why a lone `make down` releases the runtime: wrappers are listed before
\* servers, so what is not yet listed, or not yet stopped, cannot start more.
SweepIsComplete ==
  \A s \in Stoppers : alone[s] =>
    /\ \A t \in Starters : ~StarterBusy(t)
    /\ WrappersAwaited(s)
    /\ ServersAwaited(s)

\* `make down` stops processes of this project only.
OnlyRuntimeStopped == \A p \in signalled : proc[p] # "foreign"

\* A start that has begun ends, also when the server never listens.
StartsEnd == \A s \in Starters : StarterBusy(s) ~> ~StarterBusy(s)

\* A `make down` that has begun ends, also when a process ignores SIGTERM.
DownsEnd == \A s \in Stoppers : pc[s] \notin {"idle", "done"} ~> pc[s] = "done"
=============================================================================
