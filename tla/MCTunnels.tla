------------------------------ MODULE MCTunnels -----------------------------
(***************************************************************************)
(* Instances for TLC of what an activation connects: the synchronization   *)
(* of files (SyncDriver), the SSH tunnels (SshTunnels) and the choice of   *)
(* the ports (ForwardSetup).  A behaviour is one of one of the models; the *)
(* others stay in their initial states.                                    *)
(***************************************************************************)
EXTENDS SyncDriver, ForwardSetup, TLC

VARIABLES
  part,   \* the model that runs
  ctxDone, sshLost, loop, watcher, connected, closed, late, handle, copies, quit

Ssh == INSTANCE SshTunnels

\* Port 1 is forwarded by labels and global, 2 is forwarded and reversed, 3 is reversed,
\* 4 and 5 are global.
MCForwards == (1 :> TRUE) @@ (2 :> FALSE)

sshVars == <<ctxDone, sshLost, loop, watcher, connected, closed, late, handle, copies, quit>>
allVars == <<part, vars, sshVars, setupVars>>

\* What the activation finds in the variables of the package: nothing, or the cache that
\* a complete wait left and any counter.  (Nothing, in the behaviours of the others.)
FirstActivation ==
  /\ \A s \in Sides : cachedStatus[s] = "unset"
  /\ healthRetries = 0

LaterActivation == \A s \in Sides : cachedStatus[s] = "idle"

TunnelsInit ==
  /\ part \in {"sync", "ssh", "setup"}
  /\ Init /\ Ssh!Init /\ SetupInit
  /\ part # "setup" => busy = {}
  /\ FirstActivation \/ (part = "sync" /\ LaterActivation)
  /\ part # "sync" => ~asked["remote"] /\ \A f \in Folders : scan["remote"][f]

TunnelsNext ==
  \/ part = "sync" /\ Next /\ UNCHANGED <<part, sshVars, setupVars>>
  \/ part = "ssh" /\ Ssh!Next /\ UNCHANGED <<part, vars, setupVars>>
  \/ part = "setup" /\ SetupNext /\ UNCHANGED <<part, vars, sshVars>>

\* The fairness of the models.
TunnelsSpec ==
  /\ TunnelsInit /\ [][TunnelsNext]_allVars
  /\ WF_vars(part = "sync" /\ Sync) /\ WF_vars(part = "sync" /\ Monitor)
  /\ WF_vars(part = "sync" /\ MonitorStatus("local"))
  /\ WF_vars(part = "sync" /\ MonitorStatus("remote"))
  /\ \A t \in {"forward", "reverse"} :
       WF_sshVars(part = "ssh" /\ Ssh!Tunnel(t)) /\ WF_sshVars(part = "ssh" /\ Ssh!Watcher(t))
  /\ \A i \in 1..2 :
       /\ WF_sshVars(part = "ssh" /\ Ssh!SendQuit(i))
       /\ WF_sshVars(part = "ssh" /\ handle = "ended" /\ Ssh!CopyEnds(i))
  /\ WF_sshVars(part = "ssh" /\ Ssh!Dial) /\ WF_sshVars(part = "ssh" /\ Ssh!HandleEnds)

\* SshTunnels: a tunnel ends with its context, and a connection leaves no goroutine
\* behind (see TunnelEnds and CopiesEnd there).
TunnelsEnd == [](Ssh!TypeOK) /\ Ssh!TunnelEnds /\ Ssh!CopiesEnd
=============================================================================
