---------------------------- MODULE AgentDaemon ----------------------------
(***************************************************************************)
(* The commands start, stop and restart of the agent, its pidfile, and the *)
(* process that supervises it (src/daemon.py).  Every command is a process *)
(* of its own, so commands, supervisors and agents interleave.             *)
(*                                                                         *)
(* start daemonizes: with autorestart the process that is left supervises  *)
(* an agent, forks another when it dies, and on SIGTERM passes the signal  *)
(* on and ends.  Without autorestart the agent runs alone.  Pids are not   *)
(* used again; a dead agent exists, as a zombie, until it is waited for.   *)
(***************************************************************************)
EXTENDS Integers

CONSTANTS
  MaxCommands,    \* bound: commands given
  MaxDeaths,      \* bound: agents that die without being asked to
  MaxForkFailures \* bound: forks that fail

ASSUME AgentDaemonAssumption ==
  MaxCommands \in Nat \ {0} /\ MaxDeaths \in Nat /\ MaxForkFailures \in Nat

Commands == 1..MaxCommands   \* in the order they are given
Supervisors == Commands   \* a command daemonizes at most once
Pids == 1..(MaxCommands + MaxDeaths)
NoPid == 0

VARIABLES
  autorestart, \* the option of datadog.conf
  pidfile,     \* the pid in the pidfile
  op, pc, pid, \* a command, the step it is at and the pid it read
  stage,       \* the step a supervisor is at
  needStop,    \* its need_stop
  child,       \* the pid it forked last
  agent,       \* the state of an agent
  parent,      \* its supervisor
  term,        \* the agents that were sent SIGTERM
  deaths, forkFailures,
  signalled,   \* the supervisors that were sent SIGTERM
  abandoned    \* of these, those that had forked and not yet kept the pid

cmdVars == <<op, pc, pid>>
supVars == <<stage, needStop, child>>
agentVars == <<agent, parent, term, deaths>>
history == <<signalled, abandoned>>
vars == <<autorestart, pidfile, cmdVars, supVars, agentVars, forkFailures, history>>

Live(p) == p # NoPid /\ agent[p] \in {"boot", "written", "run"}
\* A zombie is there for as long as its supervisor is.
Zombie(p) == p # NoPid /\ agent[p] = "dead" /\ autorestart /\ stage[parent[p]] # "exited"
Exists(p) == Live(p) \/ Zombie(p)

Init ==
  /\ autorestart \in BOOLEAN
  /\ pidfile = NoPid
  /\ op = [c \in Commands |-> "none"] /\ pc = [c \in Commands |-> "none"]
  /\ pid = [c \in Commands |-> NoPid]
  /\ stage = [s \in Supervisors |-> "none"] /\ needStop = [s \in Supervisors |-> FALSE]
  /\ child = [s \in Supervisors |-> NoPid]
  /\ agent = [p \in Pids |-> "none"] /\ parent = [p \in Pids |-> 1]
  /\ term = {} /\ deaths = 0 /\ forkFailures = 0
  /\ signalled = {} /\ abandoned = {}

-----------------------------------------------------------------------------
(* The commands *)

Goto(c, l) == pc' = [pc EXCEPT ![c] = l]

Command(c, o) ==
  /\ pc[c] = "none" /\ \A d \in Commands : d < c => pc[d] # "none"
  /\ op' = [op EXCEPT ![c] = o]
  /\ Goto(c, IF o = "start" THEN "start" ELSE "stop")
  /\ UNCHANGED <<autorestart, pidfile, pid, supVars, agentVars, forkFailures, history>>

\* is_my_process: a zombie is one without psutil, and is not with it.
Refused(p) == Live(p)
MayBeRefused(p) == Exists(p)

\* Daemon.start reads the pidfile and gives up, or goes on and daemonizes.
ReadToStart(c) ==
  /\ pc[c] = "start"
  /\ \/ MayBeRefused(pidfile) /\ Goto(c, "done")
     \/ ~Refused(pidfile) /\ Goto(c, "daemonize")
  /\ UNCHANGED <<autorestart, pidfile, op, pid, supVars, agentVars, forkFailures, history>>

\* The next process is p.  There is one for each command and each death.
Boot(s, p) ==
  /\ agent[p] = "none" /\ \A q \in Pids : agent[q] = "none" => p <= q
  /\ agent' = [agent EXCEPT ![p] = "boot"]
  /\ parent' = [parent EXCEPT ![p] = s]

\* The double fork.  The command's own process ends.
Daemonize(c) ==
  /\ pc[c] = "daemonize"
  /\ Goto(c, "done")
  /\ IF autorestart
     THEN /\ stage' = [stage EXCEPT ![c] = "fork"]
          /\ UNCHANGED <<needStop, child, agentVars>>
     ELSE (\E p \in Pids : Boot(c, p)) /\ UNCHANGED <<supVars, term, deaths>>
  /\ UNCHANGED <<autorestart, pidfile, op, pid, forkFailures, history>>

ForkFails(c) ==
  /\ pc[c] = "daemonize" /\ forkFailures < MaxForkFailures
  /\ Goto(c, "done") /\ forkFailures' = forkFailures + 1
  /\ UNCHANGED <<autorestart, pidfile, op, pid, supVars, agentVars, history>>

ReadToStop(c) ==
  /\ pc[c] = "stop"
  /\ pid' = [pid EXCEPT ![c] = pidfile]
  /\ Goto(c, "remove")
  /\ UNCHANGED <<autorestart, pidfile, op, supVars, agentVars, forkFailures, history>>

RemovePidfile(c) ==
  /\ pc[c] = "remove"
  /\ pidfile' = NoPid
  /\ Goto(c, "kill")
  /\ UNCHANGED <<autorestart, op, pid, supVars, agentVars, forkFailures, history>>

\* AgentSupervisor._handle_sigterm.  With child_pid set the signal is passed on; the kill
\* of an agent that was waited for raises and ends the supervisor, as does a SIGTERM when
\* child_pid is not set.
\* Mutant: the supervisor passes the signal on, and forks again.
HandleSigtermForgets(s) ==
  /\ signalled' = signalled \cup {s}
  /\ IF stage[s] = "waiting"
     THEN /\ term' = term \cup {child[s]}
          /\ UNCHANGED <<stage, needStop, abandoned>>
     ELSE /\ stage' = [stage EXCEPT ![s] = "exited"]
          /\ abandoned' = IF stage[s] = "forked" THEN abandoned \cup {s} ELSE abandoned
          /\ UNCHANGED <<needStop, term>>

\* Mutant: the signal is not passed on.
HandleSigtermLeaves(s) ==
  /\ signalled' = signalled \cup {s}
  /\ IF stage[s] = "waiting"
     THEN needStop' = [needStop EXCEPT ![s] = TRUE] /\ UNCHANGED <<stage, abandoned, term>>
     ELSE /\ stage' = [stage EXCEPT ![s] = "exited"]
          /\ abandoned' = IF stage[s] = "forked" THEN abandoned \cup {s} ELSE abandoned
          /\ UNCHANGED <<needStop, term>>

HandleSigterm(s) ==
  /\ signalled' = signalled \cup {s}
  /\ IF stage[s] = "waiting"
     THEN /\ term' = term \cup {child[s]}
          /\ needStop' = [needStop EXCEPT ![s] = TRUE]
          /\ UNCHANGED <<stage, abandoned>>
     ELSE /\ stage' = [stage EXCEPT ![s] = "exited"]
          /\ abandoned' = IF stage[s] = "forked" THEN abandoned \cup {s} ELSE abandoned
          /\ UNCHANGED <<needStop, term>>

\* restart() is stop() and start() in one process.
AfterStop(c) == IF op[c] = "restart" THEN "start" ELSE "done"

\* os.kill of the leader of the agent's process group, its supervisor; of the agent itself
\* when there is none.  A restart starts after that, whether the agent has ended or not.
Kill(c) ==
  /\ pc[c] = "kill" /\ Exists(pid[c])
  /\ Goto(c, AfterStop(c))
  /\ IF autorestart /\ stage[parent[pid[c]]] # "exited"
     THEN HandleSigterm(parent[pid[c]])
     ELSE term' = term \cup {pid[c]} /\ UNCHANGED <<stage, needStop, history>>
  /\ UNCHANGED <<autorestart, pidfile, op, pid, child, agent, parent, deaths, forkFailures>>

\* Nothing to kill.  Without a pid the pidfile is removed once more.
NotRunning(c) ==
  /\ pc[c] = "kill" /\ ~Exists(pid[c])
  /\ Goto(c, AfterStop(c))
  /\ pidfile' = IF pid[c] = NoPid THEN NoPid ELSE pidfile
  /\ UNCHANGED <<autorestart, op, pid, supVars, agentVars, forkFailures, history>>

-----------------------------------------------------------------------------
(* AgentSupervisor.start *)

\* delattr of child_pid, then os.fork.
Fork(s) ==
  /\ stage[s] = "fork"
  /\ stage' = [stage EXCEPT ![s] = "forked"]
  /\ \E p \in Pids : Boot(s, p) /\ child' = [child EXCEPT ![s] = p]
  /\ UNCHANGED <<autorestart, pidfile, cmdVars, needStop, term, deaths, forkFailures, history>>

ForkAgainFails(s) ==
  /\ stage[s] = "fork" /\ forkFailures < MaxForkFailures
  /\ stage' = [stage EXCEPT ![s] = "exited"]
  /\ forkFailures' = forkFailures + 1
  /\ UNCHANGED <<autorestart, pidfile, cmdVars, needStop, child, agentVars, history>>

KeepChildPid(s) ==
  /\ stage[s] = "forked"
  /\ stage' = [stage EXCEPT ![s] = "waiting"]
  /\ UNCHANGED <<autorestart, pidfile, cmdVars, needStop, child, agentVars, forkFailures, history>>

\* waitpid with WNOHANG, once a second.
Waitpid(s) == agent[child[s]] = "dead"

\* The loop ends with need_stop, without waiting for the agent.
Wait(s) ==
  /\ stage[s] = "waiting"
  /\ \/ needStop[s] /\ stage' = [stage EXCEPT ![s] = "exited"]
     \/ ~needStop[s] /\ Waitpid(s) /\ stage' = [stage EXCEPT ![s] = "reaped"]
  /\ agent' = IF ~needStop[s] /\ agent[child[s]] = "dead"
              THEN [agent EXCEPT ![child[s]] = "gone"] ELSE agent
  /\ UNCHANGED <<autorestart, pidfile, cmdVars, needStop, child, parent, term, deaths,
                 forkFailures, history>>

\* Mutant: the supervisor forks again only after RESTART_EXIT_STATUS.
AgainOnExit(s) ==
  /\ stage[s] = "reaped" /\ pidfile # child[s]
  /\ stage' = [stage EXCEPT ![s] = "fork"]
  /\ UNCHANGED <<autorestart, pidfile, cmdVars, needStop, child, agentVars, forkFailures, history>>

\* The exit status of the agent is not looked at.
Again(s) ==
  /\ stage[s] = "reaped"
  /\ stage' = [stage EXCEPT ![s] = "fork"]
  /\ UNCHANGED <<autorestart, pidfile, cmdVars, needStop, child, agentVars, forkFailures, history>>

-----------------------------------------------------------------------------
(* The agent *)

AgentIs(p, state) == agent' = [agent EXCEPT ![p] = state]

WritePidfile(p) ==
  /\ agent[p] = "boot"
  /\ pidfile' = p
  /\ AgentIs(p, "written")
  /\ UNCHANGED <<autorestart, cmdVars, supVars, parent, term, deaths, forkFailures, history>>

\* Agent.run sets the handlers and the watchdog.
RunAgent(p) ==
  /\ agent[p] = "written"
  /\ AgentIs(p, "run")
  /\ UNCHANGED <<autorestart, pidfile, cmdVars, supVars, parent, term, deaths, forkFailures,
                 history>>

\* SIGTERM ends the agent.  Once the pidfile was written the exit removes it, whoever's pid is
\* in it.  Before Agent.run the handler is that of the supervisor, which exits the same way,
\* or the default one.
Terminate(p) ==
  /\ p \in term /\ Live(p)
  /\ AgentIs(p, "dead")
  /\ pidfile' = IF agent[p] = "run" \/ (agent[p] = "written" /\ autorestart) THEN NoPid ELSE pidfile
  /\ UNCHANGED <<autorestart, cmdVars, supVars, parent, term, deaths, forkFailures, history>>

\* sys.exit(RESTART_EXIT_STATUS) after restart_interval or SIGUSR1, or an exception: atexit
\* removes the pidfile.
Exit(p) ==
  /\ agent[p] = "run" /\ deaths < MaxDeaths
  /\ AgentIs(p, "dead")
  /\ pidfile' = NoPid
  /\ deaths' = deaths + 1
  /\ UNCHANGED <<autorestart, cmdVars, supVars, parent, term, forkFailures, history>>

\* Watchdog.self_destruct: SIGKILL, and the pidfile stays.
SelfDestruct(p) ==
  /\ agent[p] = "run" /\ deaths < MaxDeaths
  /\ AgentIs(p, "dead")
  /\ deaths' = deaths + 1
  /\ UNCHANGED <<autorestart, pidfile, cmdVars, supVars, parent, term, forkFailures, history>>

-----------------------------------------------------------------------------
CommandStep(c) ==
  \/ ReadToStart(c) \/ Daemonize(c) \/ ReadToStop(c) \/ RemovePidfile(c)
  \/ Kill(c) \/ NotRunning(c)
SupervisorStep(s) == Fork(s) \/ KeepChildPid(s) \/ Wait(s) \/ Again(s)
AgentStep(p) == WritePidfile(p) \/ RunAgent(p) \/ Terminate(p)

Next ==
  \/ \E c \in Commands :
       \/ \E o \in {"start", "stop", "restart"} : Command(c, o)
       \/ CommandStep(c) \/ ForkFails(c)
  \/ \E s \in Supervisors : SupervisorStep(s) \/ ForkAgainFails(s)
  \/ \E p \in Pids : AgentStep(p) \/ Exit(p) \/ SelfDestruct(p)

Spec == Init /\ [][Next]_vars

\* Processes run, and an agent that was sent SIGTERM ends.  Nobody has to give a command,
\* and nothing has to fail.
FairSpec ==
  /\ Spec
  /\ \A c \in Commands : WF_vars(CommandStep(c))
  /\ \A s \in Supervisors : WF_vars(SupervisorStep(s))
  /\ \A p \in Pids : WF_vars(WritePidfile(p) \/ RunAgent(p)) /\ WF_vars(Terminate(p))

-----------------------------------------------------------------------------
(* Properties *)

TypeOK ==
  /\ autorestart \in BOOLEAN /\ pidfile \in Pids \cup {NoPid}
  /\ op \in [Commands -> {"none", "start", "stop", "restart"}]
  /\ pc \in [Commands -> {"none", "start", "daemonize", "stop", "remove", "kill", "done"}]
  /\ pid \in [Commands -> Pids \cup {NoPid}]
  /\ stage \in [Supervisors -> {"none", "fork", "forked", "waiting", "reaped", "exited"}]
  /\ needStop \in [Supervisors -> BOOLEAN] /\ child \in [Supervisors -> Pids \cup {NoPid}]
  /\ agent \in [Pids -> {"none", "boot", "written", "run", "dead", "gone"}]
  /\ parent \in [Pids -> Supervisors] /\ term \subseteq Pids
  /\ deaths \in 0..MaxDeaths /\ forkFailures \in 0..MaxForkFailures
  /\ signalled \subseteq Supervisors /\ abandoned \subseteq signalled

\* With autorestart every agent that runs is the only one of a supervisor that waits for it,
\* or it was sent SIGTERM, or SIGTERM found its supervisor between the fork and the
\* assignment of child_pid, where the supervisor takes itself for the child and exits.
Supervised ==
  autorestart => \A p \in Pids : Live(p) =>
    \/ child[parent[p]] = p /\ stage[parent[p]] \in {"forked", "waiting"}
    \/ p \in term
    \/ parent[p] \in abandoned

\* A stop that reaches a supervisor ends its agent for good, even if that agent dies, exits to
\* restart or is being forked at the same time; except between the fork and the assignment.
StopHeeded ==
  \A s \in Supervisors :
    s \in signalled /\ s \notin abandoned ~>
      [](stage[s] = "exited" /\ \A p \in Pids : parent[p] = s /\ agent[p] # "none" => ~Live(p))

\* An agent that dies, of its watchdog or to restart, runs again, unless its supervisor is told
\* to stop or cannot fork.
Revived ==
  \A s \in Supervisors :
    stage[s] = "waiting" /\ agent[child[s]] = "dead" ~>
      stage[s] = "exited" \/ (stage[s] = "waiting" /\ agent[child[s]] = "run")
=============================================================================
