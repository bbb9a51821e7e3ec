--------------------------- MODULE AgentDaemonProofs ---------------------------
(***************************************************************************)
(* What holds of the daemon's processes for any number of commands, deaths *)
(* and failing forks.                                                      *)
(***************************************************************************)
EXTENDS AgentDaemon, TLAPS

(* The processes are numbered by positive numbers, and NoPid is none of them. *)
LEMMA PidTypes ==
  /\ MaxCommands \in Nat /\ MaxDeaths \in Nat /\ MaxForkFailures \in Nat
  /\ 1 \in Supervisors /\ Supervisors = Commands /\ NoPid \notin Pids
BY AgentDaemonAssumption DEF Supervisors, Commands, Pids, NoPid

(* SIGTERM keeps the types of the supervisor it is sent to. *)
LEMMA HandleSigtermType ==
  ASSUME TypeOK, NEW s \in Supervisors, stage[s] # "exited", HandleSigterm(s),
         stage[s] = "waiting" => child[s] \in Pids
  PROVE  /\ stage' \in [Supervisors -> {"none", "fork", "forked", "waiting", "reaped", "exited"}]
         /\ needStop' \in [Supervisors -> BOOLEAN] /\ term' \subseteq Pids
         /\ signalled' \subseteq Supervisors /\ abandoned' \subseteq signalled'
<1>1. CASE stage[s] = "waiting"
  <2>1. needStop' = [needStop EXCEPT ![s] = TRUE]
    BY <1>1 DEF HandleSigterm
  <2>2. needStop' \in [Supervisors -> BOOLEAN]
    BY <2>1, Zenon DEF TypeOK
  <2> QED BY <1>1, <2>2 DEF HandleSigterm, TypeOK
<1>2. CASE stage[s] # "waiting"
  BY <1>2 DEF HandleSigterm, TypeOK
<1> QED BY <1>1, <1>2

-----------------------------------------------------------------------------
(* The inductive invariant. *)

\* A command that has not daemonized has no supervisor, and an agent has one.
CommandInv ==
  /\ \A c \in Commands : stage[c] # "none" => pc[c] = "done"
  /\ autorestart => \A p \in Pids : agent[p] # "none" => stage[parent[p]] # "none"

\* A supervisor that waits knows its agent; it is told to stop only while it waits, and
\* has then passed the signal on.
StopInv ==
  \A s \in Supervisors :
    /\ stage[s] \in {"forked", "waiting", "reaped"} => child[s] \in Pids
    /\ needStop[s] => stage[s] \in {"waiting", "exited"} /\ child[s] \in term

Inv == TypeOK /\ CommandInv /\ StopInv /\ Supervised

(* Every step keeps the types. *)
LEMMA TypeNext == TypeOK /\ StopInv /\ [Next]_vars => TypeOK'
<1> SUFFICES ASSUME TypeOK, StopInv, [Next]_vars PROVE TypeOK'
  OBVIOUS
<1> USE PidTypes
<1>1. ASSUME NEW c \in Commands, NEW o \in {"start", "stop", "restart"}, Command(c, o)
      PROVE  TypeOK'
  BY <1>1 DEF Command, Goto, TypeOK, supVars, agentVars, history
<1>2. ASSUME NEW c \in Commands, ReadToStart(c) \/ ReadToStop(c) \/ RemovePidfile(c)
      PROVE  TypeOK'
  BY <1>2 DEF ReadToStart, ReadToStop, RemovePidfile, Goto, TypeOK, supVars, agentVars, history
<1>3. ASSUME NEW c \in Commands, Daemonize(c) PROVE TypeOK'
  <2>1. CASE autorestart
    BY <1>3, <2>1 DEF Daemonize, Goto, TypeOK, agentVars, history
  <2>2. CASE ~autorestart
    BY <1>3, <2>2 DEF Daemonize, Boot, Goto, TypeOK, supVars, history
  <2> QED BY <2>1, <2>2
<1>4. ASSUME NEW c \in Commands, ForkFails(c) PROVE TypeOK'
  BY <1>4 DEF ForkFails, Goto, TypeOK, supVars, agentVars, history
<1>5. ASSUME NEW c \in Commands, Kill(c) PROVE TypeOK'
  <2>1. pid[c] \in Pids /\ parent[pid[c]] \in Supervisors
    BY <1>5 DEF Kill, Exists, Live, Zombie, TypeOK
  <2>2. AfterStop(c) \in {"start", "done"}
    BY DEF AfterStop
  <2>3. pc' \in [Commands -> {"none", "start", "daemonize", "stop", "remove", "kill", "done"}]
    BY <1>5, <2>2 DEF Kill, Goto, TypeOK
  <2>4. CASE autorestart /\ stage[parent[pid[c]]] # "exited"
    <3>1. HandleSigterm(parent[pid[c]])
      BY <1>5, <2>4 DEF Kill
    <3>2. /\ stage' \in [Supervisors -> {"none", "fork", "forked", "waiting", "reaped", "exited"}]
          /\ needStop' \in [Supervisors -> BOOLEAN] /\ term' \subseteq Pids
          /\ signalled' \subseteq Supervisors /\ abandoned' \subseteq signalled'
      BY <2>1, <2>4, <3>1, HandleSigtermType DEF StopInv
    <3> QED BY <1>5, <2>3, <3>2 DEF Kill, TypeOK
  <2>5. CASE ~(autorestart /\ stage[parent[pid[c]]] # "exited")
    BY <1>5, <2>1, <2>3, <2>5 DEF Kill, TypeOK, history
  <2> QED BY <2>4, <2>5
<1>6. ASSUME NEW c \in Commands, NotRunning(c) PROVE TypeOK'
  <2>1. AfterStop(c) \in {"start", "done"}
    BY DEF AfterStop
  <2> QED BY <1>6, <2>1 DEF NotRunning, Goto, TypeOK, supVars, agentVars, history
<1>7. ASSUME NEW s \in Supervisors, Fork(s) PROVE TypeOK'
  BY <1>7 DEF Fork, Boot, TypeOK, cmdVars, history
<1>8. ASSUME NEW s \in Supervisors, ForkAgainFails(s) \/ KeepChildPid(s) \/ Again(s)
      PROVE  TypeOK'
  BY <1>8 DEF ForkAgainFails, KeepChildPid, Again, TypeOK, cmdVars, agentVars, history
<1>9. ASSUME NEW s \in Supervisors, Wait(s) PROVE TypeOK'
  <2>1. stage' \in [Supervisors -> {"none", "fork", "forked", "waiting", "reaped", "exited"}]
    BY <1>9 DEF Wait, TypeOK
  <2>2. agent' \in [Pids -> {"none", "boot", "written", "run", "dead", "gone"}]
    BY <1>9 DEF Wait, TypeOK
  <2>3. UNCHANGED <<autorestart, pidfile, cmdVars, needStop, child, parent, term, deaths,
                    forkFailures, history>>
    BY <1>9 DEF Wait
  <2> QED
    BY <2>1, <2>2, <2>3 DEF TypeOK, cmdVars, history
<1>10. ASSUME NEW p \in Pids,
              WritePidfile(p) \/ RunAgent(p) \/ Terminate(p) \/ Exit(p) \/ SelfDestruct(p)
       PROVE  TypeOK'
  BY <1>10 DEF WritePidfile, RunAgent, Terminate, Exit, SelfDestruct, AgentIs, TypeOK,
               cmdVars, supVars, history
<1>11. CASE UNCHANGED vars
  BY <1>11 DEF vars, TypeOK, cmdVars, supVars, agentVars, history
<1> QED
  BY <1>1, <1>2, <1>3, <1>4, <1>5, <1>6, <1>7, <1>8, <1>9, <1>10, <1>11
  DEF Next, CommandStep, SupervisorStep, AgentStep

(* A command daemonizes once, at its end; agents are forked by supervisors. *)
LEMMA CommandNext == TypeOK /\ CommandInv /\ [Next]_vars => CommandInv'
<1> SUFFICES ASSUME TypeOK, CommandInv, [Next]_vars PROVE CommandInv'
  OBVIOUS
<1> USE PidTypes
<1>1. ASSUME \A d \in Commands : stage[d] # "none" => pc'[d] = "done" /\ stage'[d] # "none",
             \A d \in Commands : stage'[d] # "none" => stage[d] # "none" \/ pc'[d] = "done",
             UNCHANGED <<autorestart, parent>>,
             \A p \in Pids : agent'[p] # "none" => agent[p] # "none" \/ ~autorestart
      PROVE  CommandInv'
  BY <1>1 DEF CommandInv, TypeOK
<1>2. ASSUME NEW c \in Commands, NEW o \in {"start", "stop", "restart"}, Command(c, o)
      PROVE  CommandInv'
  BY <1>1, <1>2 DEF Command, Goto, supVars, agentVars, CommandInv, TypeOK
<1>3. ASSUME NEW c \in Commands, ReadToStart(c) \/ ReadToStop(c) \/ RemovePidfile(c)
                                 \/ ForkFails(c) \/ NotRunning(c)
      PROVE  CommandInv'
  BY <1>1, <1>3 DEF ReadToStart, ReadToStop, RemovePidfile, ForkFails, NotRunning, Goto,
                    supVars, agentVars, CommandInv, TypeOK
<1>4. ASSUME NEW c \in Commands, Daemonize(c) PROVE CommandInv'
  <2>1. CASE autorestart
    BY <1>1, <1>4, <2>1 DEF Daemonize, Goto, agentVars, CommandInv, TypeOK
  <2>2. CASE ~autorestart
    BY <1>4, <2>2 DEF Daemonize, Goto, supVars, CommandInv, TypeOK
  <2> QED BY <2>1, <2>2
<1>5. ASSUME NEW c \in Commands, Kill(c) PROVE CommandInv'
  <2>1. pid[c] \in Pids /\ parent[pid[c]] \in Supervisors /\ agent[pid[c]] # "none"
    BY <1>5 DEF Kill, Exists, Live, Zombie, TypeOK
  <2>2. /\ \A d \in Commands : stage[d] # "none" => stage'[d] # "none"
        /\ \A d \in Commands : stage'[d] # "none" => stage[d] # "none"
    BY <1>5, <2>1 DEF Kill, HandleSigterm, CommandInv, TypeOK
  <2>3. UNCHANGED <<autorestart, parent, agent>>
    BY <1>5 DEF Kill
  <2>4. \A d \in Commands : stage[d] # "none" => pc'[d] = "done"
    BY <1>5 DEF Kill, Goto, CommandInv, TypeOK
  <2> QED BY <1>1, <2>2, <2>3, <2>4
<1>6. ASSUME NEW s \in Supervisors, Fork(s) PROVE CommandInv'
  <2>1. PICK p \in Pids : Boot(s, p)
    BY <1>6 DEF Fork
  <2>2. \A q \in Pids : q # p => agent'[q] = agent[q] /\ parent'[q] = parent[q]
    BY <2>1 DEF Boot, TypeOK
  <2>3. parent'[p] = s /\ stage'[s] = "forked" /\ stage[s] = "fork"
    BY <1>6, <2>1 DEF Boot, Fork, TypeOK
  <2> QED BY <1>6, <2>2, <2>3 DEF Fork, cmdVars, CommandInv, TypeOK
<1>7. ASSUME NEW s \in Supervisors,
             ForkAgainFails(s) \/ KeepChildPid(s) \/ Wait(s) \/ Again(s)
      PROVE  CommandInv'
  <2>1. /\ \A d \in Commands : stage[d] # "none" => stage'[d] # "none"
        /\ \A d \in Commands : stage'[d] # "none" => stage[d] # "none"
    BY <1>7 DEF ForkAgainFails, KeepChildPid, Wait, Again, TypeOK
  <2>2. /\ UNCHANGED <<autorestart, parent, pc>>
        /\ \A p \in Pids : agent'[p] # "none" => agent[p] # "none"
    BY <1>7 DEF ForkAgainFails, KeepChildPid, Wait, Waitpid, Again, cmdVars, agentVars, TypeOK
  <2> QED BY <1>1, <2>1, <2>2 DEF CommandInv
<1>8. ASSUME NEW p \in Pids,
             WritePidfile(p) \/ RunAgent(p) \/ Terminate(p) \/ Exit(p) \/ SelfDestruct(p)
      PROVE  CommandInv'
  <2>1. UNCHANGED <<autorestart, parent, pc, stage>>
    BY <1>8 DEF WritePidfile, RunAgent, Terminate, Exit, SelfDestruct, cmdVars, supVars
  <2>2. \A q \in Pids : agent'[q] # "none" => agent[q] # "none"
    BY <1>8 DEF WritePidfile, RunAgent, Terminate, Exit, SelfDestruct, AgentIs, Live, TypeOK
  <2> QED BY <1>1, <2>1, <2>2 DEF CommandInv
<1>9. CASE UNCHANGED vars
  BY <1>9 DEF vars, cmdVars, supVars, agentVars, CommandInv
<1> QED
  BY <1>2, <1>3, <1>4, <1>5, <1>6, <1>7, <1>8, <1>9
  DEF Next, CommandStep, SupervisorStep, AgentStep

(* need_stop is set only by a SIGTERM that is passed on to the agent. *)
LEMMA StopNext == TypeOK /\ CommandInv /\ StopInv /\ [Next]_vars => StopInv'
<1> SUFFICES ASSUME TypeOK, CommandInv, StopInv, [Next]_vars PROVE StopInv'
  OBVIOUS
<1> USE PidTypes
<1>1. CASE UNCHANGED supVars /\ term \subseteq term'
  BY <1>1 DEF supVars, StopInv
<1>2. ASSUME NEW c \in Commands, NEW o \in {"start", "stop", "restart"}, Command(c, o)
      PROVE  StopInv'
  BY <1>1, <1>2 DEF Command, agentVars
<1>3. ASSUME NEW c \in Commands, ReadToStart(c) \/ ReadToStop(c) \/ RemovePidfile(c)
                                 \/ ForkFails(c) \/ NotRunning(c)
      PROVE  StopInv'
  BY <1>1, <1>3 DEF ReadToStart, ReadToStop, RemovePidfile, ForkFails, NotRunning, agentVars
<1>4. ASSUME NEW c \in Commands, Daemonize(c) PROVE StopInv'
  <2>1. CASE autorestart
    <3>1. stage[c] = "none"
      BY <1>4 DEF Daemonize, CommandInv
    <3> QED BY <1>4, <2>1, <3>1 DEF Daemonize, agentVars, StopInv, TypeOK
  <2>2. CASE ~autorestart
    BY <1>1, <1>4, <2>2 DEF Daemonize
  <2> QED BY <2>1, <2>2
<1>5. ASSUME NEW c \in Commands, Kill(c) PROVE StopInv'
  <2> DEFINE s == parent[pid[c]]
  <2>1. CASE autorestart /\ stage[s] # "exited"
    <3>1. s \in Supervisors /\ HandleSigterm(s) /\ child' = child
      BY <1>5, <2>1 DEF Kill, Exists, Live, Zombie, TypeOK
    <3> HIDE DEF s
    <3>2. CASE stage[s] = "waiting"
      BY <3>1, <3>2 DEF HandleSigterm, StopInv, TypeOK
    <3>3. CASE stage[s] # "waiting"
      BY <3>1, <3>3 DEF HandleSigterm, StopInv, TypeOK
    <3> QED BY <3>2, <3>3
  <2>2. CASE ~(autorestart /\ stage[s] # "exited")
    BY <1>1, <1>5, <2>2 DEF Kill, supVars
  <2> QED BY <2>1, <2>2
<1>6. ASSUME NEW s \in Supervisors,
             Fork(s) \/ ForkAgainFails(s) \/ KeepChildPid(s) \/ Wait(s) \/ Again(s)
      PROVE  StopInv'
  BY <1>6 DEF Fork, ForkAgainFails, KeepChildPid, Wait, Again, agentVars, StopInv, TypeOK
<1>7. ASSUME NEW p \in Pids,
             WritePidfile(p) \/ RunAgent(p) \/ Terminate(p) \/ Exit(p) \/ SelfDestruct(p)
      PROVE  StopInv'
  BY <1>1, <1>7 DEF WritePidfile, RunAgent, Terminate, Exit, SelfDestruct
<1>8. CASE UNCHANGED vars
  BY <1>1, <1>8 DEF vars, agentVars
<1> QED
  BY <1>2, <1>3, <1>4, <1>5, <1>6, <1>7, <1>8 DEF Next, CommandStep, SupervisorStep, AgentStep

(* No step leaves an agent running that nobody waits for, but the one described in
   Supervised. *)
LEMMA SupervisedNext == Inv /\ [Next]_vars => Supervised'
<1> SUFFICES ASSUME Inv, [Next]_vars, autorestart', NEW p \in Pids, Live(p)'
             PROVE  \/ child'[parent'[p]] = p /\ stage'[parent'[p]] \in {"forked", "waiting"}
                    \/ p \in term'
                    \/ parent'[p] \in abandoned'
  BY DEF Supervised
<1> DEFINE Goal == \/ child'[parent'[p]] = p /\ stage'[parent'[p]] \in {"forked", "waiting"}
                   \/ p \in term'
                   \/ parent'[p] \in abandoned'
<1> USE PidTypes DEF Inv
<1>0. autorestart
  BY DEF Next, CommandStep, SupervisorStep, AgentStep, Command, ReadToStart, ReadToStop,
         RemovePidfile, ForkFails, NotRunning, Daemonize, Kill, Fork, ForkAgainFails,
         KeepChildPid, Wait, Again, WritePidfile, RunAgent, Terminate, Exit, SelfDestruct, vars
<1>1. CASE /\ Live(p) /\ UNCHANGED <<parent, child>>
           /\ term \subseteq term' /\ abandoned \subseteq abandoned'
           /\ \/ stage'[parent[p]] = stage[parent[p]]
              \/ stage[parent[p]] \in {"none", "fork", "reaped", "exited"}
              \/ stage'[parent[p]] \in {"forked", "waiting"}
  BY <1>0, <1>1 DEF Supervised
<1>2. ASSUME NEW c \in Commands, NEW o \in {"start", "stop", "restart"}, Command(c, o)
      PROVE  Goal
  BY <1>1, <1>2 DEF Command, supVars, agentVars, history, Live
<1>3. ASSUME NEW c \in Commands, ReadToStart(c) \/ ReadToStop(c) \/ RemovePidfile(c)
                                 \/ ForkFails(c) \/ NotRunning(c)
      PROVE  Goal
  BY <1>1, <1>3 DEF ReadToStart, ReadToStop, RemovePidfile, ForkFails, NotRunning, supVars,
                    agentVars, history, Live
<1>4. ASSUME NEW c \in Commands, Daemonize(c) PROVE Goal
  <2>1. stage[c] = "none" /\ parent[p] \in Supervisors
    BY <1>4 DEF Daemonize, CommandInv, TypeOK
  <2> QED BY <1>0, <1>1, <1>4, <2>1 DEF Daemonize, agentVars, history, Live, TypeOK
<1>5. ASSUME NEW c \in Commands, Kill(c) PROVE Goal
  <2> DEFINE s == parent[pid[c]]
  <2>0. Live(p) /\ UNCHANGED <<parent, child, agent>> /\ parent[p] \in Supervisors
    BY <1>5 DEF Kill, Live, TypeOK
  <2>1. CASE stage[s] # "exited"
    <3>1. s \in Supervisors /\ HandleSigterm(s)
      BY <1>0, <1>5, <2>1 DEF Kill, Exists, Live, Zombie, TypeOK
    <3> HIDE DEF s
    <3>2. CASE stage[s] = "waiting"
      BY <1>1, <2>0, <3>1, <3>2 DEF HandleSigterm
    <3>3. CASE stage[s] = "forked"
      <4>1. /\ abandoned' = abandoned \cup {s} /\ term' = term
            /\ stage' = [stage EXCEPT ![s] = "exited"]
        BY <3>1, <3>3 DEF HandleSigterm
      <4>2. CASE parent[p] = s
        BY <2>0, <4>1, <4>2
      <4>3. CASE parent[p] # s
        BY <1>1, <2>0, <3>1, <4>1, <4>3 DEF TypeOK
      <4> QED BY <4>2, <4>3
    <3>4. CASE stage[s] \notin {"waiting", "forked"}
      BY <1>1, <2>0, <2>1, <3>1, <3>4 DEF HandleSigterm, TypeOK, s
    <3> QED BY <3>2, <3>3, <3>4
  <2>2. CASE stage[s] = "exited"
    BY <1>1, <1>5, <2>0, <2>2 DEF Kill, history
  <2> QED BY <2>1, <2>2
<1>6. ASSUME NEW s \in Supervisors, Fork(s) PROVE Goal
  <2>1. PICK q \in Pids : Boot(s, q) /\ child' = [child EXCEPT ![s] = q]
    BY <1>6 DEF Fork
  <2>2. CASE p = q
    BY <1>6, <2>1, <2>2 DEF Fork, Boot, TypeOK
  <2>3. CASE p # q
    <3>1. Live(p) /\ parent'[p] = parent[p] /\ parent[p] \in Supervisors
      BY <2>1, <2>3 DEF Boot, Live, TypeOK
    <3>2. stage[s] = "fork" /\ UNCHANGED <<term, abandoned>>
      BY <1>6 DEF Fork, history
    <3>3. parent[p] # s => child'[parent[p]] = child[parent[p]] /\ stage'[parent[p]] = stage[parent[p]]
      BY <1>6, <2>1, <3>1 DEF Fork, TypeOK
    <3> QED BY <1>0, <3>1, <3>2, <3>3 DEF Supervised
  <2> QED BY <2>2, <2>3
<1>7. ASSUME NEW s \in Supervisors, ForkAgainFails(s) \/ KeepChildPid(s) \/ Again(s)
      PROVE  Goal
  <2>1. Live(p) /\ UNCHANGED <<parent, child, term, abandoned>> /\ parent[p] \in Supervisors
    BY <1>7 DEF ForkAgainFails, KeepChildPid, Again, agentVars, history, Live, TypeOK
  <2>2. \/ stage'[parent[p]] = stage[parent[p]]
        \/ stage[parent[p]] \in {"none", "fork", "reaped", "exited"}
        \/ stage'[parent[p]] \in {"forked", "waiting"}
    BY <1>7, <2>1 DEF ForkAgainFails, KeepChildPid, Again, TypeOK
  <2> QED BY <1>1, <2>1, <2>2
<1>8. ASSUME NEW s \in Supervisors, Wait(s) PROVE Goal
  <2>1. /\ Live(p) /\ UNCHANGED <<parent, child, term, abandoned>> /\ parent[p] \in Supervisors
        /\ child[s] \in Pids
    BY <1>8 DEF Wait, history, Live, TypeOK, StopInv
  <2>2. CASE parent[p] # s
    BY <1>1, <1>8, <2>1, <2>2 DEF Wait, TypeOK
  <2>3. CASE parent[p] = s /\ needStop[s]
    <3>1. child[s] \in term
      BY <2>3 DEF StopInv
    <3> QED BY <1>0, <2>1, <2>3, <3>1 DEF Supervised
  <2>4. CASE parent[p] = s /\ ~needStop[s]
    <3>1. ~Live(child[s])
      BY <1>8, <2>4 DEF Wait, Waitpid, Live
    <3> QED BY <1>0, <2>1, <2>4, <3>1 DEF Supervised
  <2> QED BY <2>2, <2>3, <2>4
<1>9. ASSUME NEW q \in Pids,
             WritePidfile(q) \/ RunAgent(q) \/ Terminate(q) \/ Exit(q) \/ SelfDestruct(q)
      PROVE  Goal
  <2>1. Live(p)
    BY <1>9 DEF WritePidfile, RunAgent, Terminate, Exit, SelfDestruct, AgentIs, Live, TypeOK
  <2> QED BY <1>1, <1>9, <2>1 DEF WritePidfile, RunAgent, Terminate, Exit, SelfDestruct,
                                  supVars, history
<1>10. CASE UNCHANGED vars
  BY <1>1, <1>10 DEF vars, supVars, agentVars, history, Live
<1> QED
  BY <1>2, <1>3, <1>4, <1>5, <1>6, <1>7, <1>8, <1>9, <1>10
  DEF Next, CommandStep, SupervisorStep, AgentStep

(* No process runs at first. *)
LEMMA InvInit == Init => Inv
<1> SUFFICES ASSUME Init PROVE Inv
  OBVIOUS
<1> USE PidTypes
<1>1. needStop \in [Supervisors -> BOOLEAN]
  BY Zenon DEF Init
<1>2. TypeOK
  BY <1>1 DEF Init, TypeOK
<1>3. CommandInv /\ StopInv /\ Supervised
  BY DEF Init, CommandInv, StopInv, Supervised, Live
<1> QED BY <1>2, <1>3 DEF Inv

(* The types of the commands, supervisors and agents, that a command daemonizes at most
   once, that need_stop goes with a signal to the agent, and that agents are supervised. *)
THEOREM InvariantHolds == Spec => []Inv
<1>1. Inv /\ [Next]_vars => Inv'
  BY TypeNext, CommandNext, StopNext, SupervisedNext DEF Inv
<1> QED BY InvInit, <1>1, PTL DEF Spec

(* The state of the pidfile, the commands, the supervisors and the agents keeps its types,
   and the pids of Daemon.start and of AgentSupervisor are pids of agents. *)
THEOREM TypeCorrect == Spec => []TypeOK
<1>1. Inv => TypeOK
  BY DEF Inv
<1> QED BY <1>1, InvariantHolds, PTL

(* With autorestart no agent runs that its supervisor does not wait for and that was not
   told to stop, but for a SIGTERM between the fork and the assignment of child_pid. *)
THEOREM AgentsSupervised == Spec => []Supervised
<1>1. Inv => Supervised
  BY DEF Inv
<1> QED BY <1>1, InvariantHolds, PTL
=============================================================================
