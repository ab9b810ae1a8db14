---------------------------- MODULE MCSupervisor ----------------------------
(***************************************************************************)
(* Instances for TLC of three small programs that share nothing: the       *)
(* supervisor of the development container (Supervisor), the pid file of   *)
(* `okteto up' (PidFile) and the forwarder of the SSH agent (AgentForward).*)
(* A behaviour is one of one of them; the others stay as they are.         *)
(***************************************************************************)
EXTENDS Supervisor, PidFile, AgentForward

VARIABLE part   \* the program that runs

allVars == <<part, vars, pidVars, agentVars>>

ProgramsInit == part \in {"supervisor", "pid", "agent"} /\ Init /\ PidInit /\ AgentInit

ProgramsNext ==
  \/ part = "supervisor" /\ Next /\ UNCHANGED <<part, pidVars, agentVars>>
  \/ part = "pid" /\ PidNext /\ UNCHANGED <<part, vars, agentVars>>
  \/ part = "agent" /\ AgentNext /\ UNCHANGED <<part, vars, pidVars>>

\* The supervisor's goroutines are scheduled, and a process that was sent SIGTERM
\* ends.  A command that is told of another leaves.  The goroutines of the forwarder
\* take their steps, a dial ends and the acknowledgment comes or times out; nothing
\* obliges the client, the agent or the command to do anything.
ProgramsSpec ==
  /\ ProgramsInit /\ [][ProgramsNext]_allVars
  /\ WF_vars(part = "supervisor" /\ (RunRound \/ RunRoundDone \/ RunReturns \/ StopReturns))
  /\ \A p \in Processes :
       /\ WF_vars(part = "supervisor" /\ CheckState(p))
       /\ WF_vars(part = "supervisor" /\ MonitorProcess(p))
       /\ WF_vars(part = "supervisor" /\ StopProcess(p))
       /\ WF_vars(part = "supervisor" /\ stopping[p] = "wait" /\ ProcessEnds(p))
  /\ \A p \in Procs : WF_pidVars(part = "pid" /\ PidProgress(p))
  /\ WF_agentVars(part = "agent" /\ Loop) /\ WF_agentVars(part = "agent" /\ CloseListener)
  /\ \A c \in Conns :
       /\ WF_agentVars(part = "agent" /\ HandlerSteps(c))
       /\ WF_agentVars(part = "agent" /\ WatcherCloses(c))
       /\ WF_agentVars(part = "agent" /\ CopySteps(c, "up"))
       /\ WF_agentVars(part = "agent" /\ CopySteps(c, "down"))

\* Each program goes on: the supervisor restarts or stops what ends, a command that
\* watches the pid file is told of another, and a connection to the agent is answered
\* and closed (see the four properties in the three modules).
ProgramsGoOn == ProcessesAreKept /\ TakeoverIsSeen /\ EitherSideEndsTheHandler /\ AnswerIsDelivered
=============================================================================
