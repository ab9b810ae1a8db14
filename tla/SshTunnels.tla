----------------------------- MODULE SshTunnels -----------------------------
(***************************************************************************)
(* The SSH tunnels of one activation (pkg/ssh/forward.go and reverse.go):  *)
(* the accept loop of a forward and of a reverse forward, the goroutine of *)
(* each that closes the listener when the context ends, and a connection   *)
(* through a tunnel with the two goroutines that copy its bytes.           *)
(***************************************************************************)
EXTENDS Naturals

VARIABLES
  ctxDone,   \* the context of the activation is cancelled
  sshLost,   \* the SSH connection is gone: listeners of the remote side fail
  loop,      \* loop[t]: the accept loop of tunnel t
  watcher,   \* watcher[t]: the goroutine that waits for the context
  connected, \* the field c of forward, behind its mutex
  closed,    \* the listener is closed
  late,      \* setConnected ran after the watcher's setDisconnected
  handle,    \* the goroutine of a connection
  copies,    \* copies[i]: its two transfer goroutines
  quit       \* the messages in the channel quit, of capacity 1

vars == <<ctxDone, sshLost, loop, watcher, connected, closed, late, handle, copies, quit>>
connVars == <<handle, copies, quit>>

Tunnels == {"forward", "reverse"}
Copies == 1..2

Init ==
  /\ ctxDone = FALSE /\ sshLost = FALSE
  /\ loop = [t \in Tunnels |-> "start"]
  /\ watcher = [t \in Tunnels |-> "none"]
  /\ connected = [t \in Tunnels |-> FALSE]
  /\ closed = [t \in Tunnels |-> FALSE]
  /\ late = [t \in Tunnels |-> FALSE]
  /\ handle = "none" /\ copies = [i \in Copies |-> "none"] /\ quit = 0

GotoLoop(t, pc) == loop' = [loop EXCEPT ![t] = pc]

\* start: listen (locally, or through the SSH client), and the watcher.
Listen(t) ==
  /\ loop[t] = "start"
  /\ \/ GotoLoop(t, "set connected") /\ watcher' = [watcher EXCEPT ![t] = "waiting"]
     \/ GotoLoop(t, "ended") /\ UNCHANGED watcher
  /\ UNCHANGED <<ctxDone, sshLost, connected, closed, late, connVars>>

\* A forward sets the flag once before its loop, a reverse in every turn.
setConnected(t) ==
  /\ loop[t] = "set connected"
  /\ connected' = [connected EXCEPT ![t] = TRUE]
  /\ late' = [late EXCEPT ![t] = @ \/ watcher[t] \in {"close", "ended"}]
  /\ GotoLoop(t, "accept")
  /\ UNCHANGED <<ctxDone, sshLost, watcher, closed, connVars>>

NextTurn(t) == IF t = "forward" THEN "accept" ELSE "set connected"

\* Accept returns a connection, and handle runs in a goroutine of its own (the
\* model follows one connection).
Accept(t) ==
  /\ loop[t] = "accept" /\ ~closed[t] /\ ~(t = "reverse" /\ sshLost)
  /\ handle = "none" /\ handle' = "dial"
  /\ GotoLoop(t, NextTurn(t))
  /\ UNCHANGED <<ctxDone, sshLost, watcher, connected, closed, late, copies, quit>>

\* Accept fails on a closed listener, or on one whose SSH connection is lost.
AcceptFails(t) ==
  /\ loop[t] = "accept"
  /\ closed[t] \/ (t = "reverse" /\ sshLost)
  /\ GotoLoop(t, IF connected[t] THEN "tick" ELSE "ended")
  /\ UNCHANGED <<ctxDone, sshLost, watcher, connected, closed, late, connVars>>

TickContinue(t) ==
  /\ loop[t] = "tick"
  /\ GotoLoop(t, NextTurn(t))
  /\ UNCHANGED <<ctxDone, sshLost, watcher, connected, closed, late, connVars>>

\* Variant: the flag stays.
setDisconnectedKeeps(t) ==
  /\ watcher[t] = "waiting" /\ ctxDone
  /\ watcher' = [watcher EXCEPT ![t] = "close"]
  /\ UNCHANGED <<ctxDone, sshLost, loop, connected, closed, late, connVars>>

\* The watcher: setDisconnected, then the listener is closed.
setDisconnected(t) ==
  /\ watcher[t] = "waiting" /\ ctxDone
  /\ connected' = [connected EXCEPT ![t] = FALSE]
  /\ watcher' = [watcher EXCEPT ![t] = "close"]
  /\ UNCHANGED <<ctxDone, sshLost, loop, closed, late, connVars>>

CloseListener(t) ==
  /\ watcher[t] = "close"
  /\ closed' = [closed EXCEPT ![t] = TRUE]
  /\ watcher' = [watcher EXCEPT ![t] = "ended"]
  /\ UNCHANGED <<ctxDone, sshLost, loop, connected, late, connVars>>

\* A connection: the other end is dialled, two goroutines copy, and the first
\* that ends makes handle close both ends.
Dial ==
  /\ handle = "dial"
  /\ \/ handle' = "wait" /\ copies' = [i \in Copies |-> "copying"]
     \/ handle' = "ended" /\ UNCHANGED copies
  /\ UNCHANGED <<ctxDone, sshLost, loop, watcher, connected, closed, late, quit>>

\* io.Copy ends because an end closes, or fails.
CopyEnds(i) ==
  /\ copies[i] = "copying"
  /\ copies' = [copies EXCEPT ![i] = "send"]
  /\ UNCHANGED <<ctxDone, sshLost, loop, watcher, connected, closed, late, handle, quit>>

SendQuit(i) ==
  /\ copies[i] = "send" /\ quit < 1
  /\ copies' = [copies EXCEPT ![i] = "ended"] /\ quit' = quit + 1
  /\ UNCHANGED <<ctxDone, sshLost, loop, watcher, connected, closed, late, handle>>

\* <-quit, and the deferred Close calls.
HandleEnds ==
  /\ handle = "wait" /\ quit > 0
  /\ quit' = quit - 1 /\ handle' = "ended"
  /\ UNCHANGED <<ctxDone, sshLost, loop, watcher, connected, closed, late, copies>>

CancelContext ==
  /\ ~ctxDone /\ ctxDone' = TRUE
  /\ UNCHANGED <<sshLost, loop, watcher, connected, closed, late, connVars>>

\* pool.stop or a broken network.
LoseSsh ==
  /\ ~sshLost /\ sshLost' = TRUE
  /\ UNCHANGED <<ctxDone, loop, watcher, connected, closed, late, connVars>>

Tunnel(t) ==
  \/ Listen(t) \/ setConnected(t) \/ Accept(t) \/ AcceptFails(t) \/ TickContinue(t)
Watcher(t) == setDisconnected(t) \/ CloseListener(t)
Copy(i) == CopyEnds(i) \/ SendQuit(i)

Stutter == UNCHANGED vars

Next ==
  \/ \E t \in Tunnels : Tunnel(t) \/ Watcher(t)
  \/ \E i \in Copies : Copy(i)
  \/ Dial \/ HandleEnds \/ CancelContext \/ LoseSsh \/ Stutter

Spec == Init /\ [][Next]_vars

-----------------------------------------------------------------------------
\* Every goroutine is scheduled.  A copy ends when handle has closed its ends;
\* before that it may go on for ever.
Fairness ==
  /\ \A t \in Tunnels : WF_vars(Tunnel(t)) /\ WF_vars(Watcher(t))
  /\ \A i \in Copies : WF_vars(SendQuit(i)) /\ WF_vars(handle = "ended" /\ CopyEnds(i))
  /\ WF_vars(Dial) /\ WF_vars(HandleEnds)

FairSpec == Spec /\ Fairness

TypeOK ==
  /\ ctxDone \in BOOLEAN /\ sshLost \in BOOLEAN
  /\ loop \in [Tunnels -> {"start", "set connected", "accept", "tick", "ended"}]
  /\ watcher \in [Tunnels -> {"none", "waiting", "close", "ended"}]
  /\ connected \in [Tunnels -> BOOLEAN] /\ closed \in [Tunnels -> BOOLEAN]
  /\ late \in [Tunnels -> BOOLEAN]
  /\ handle \in {"none", "dial", "wait", "ended"}
  /\ copies \in [Copies -> {"none", "copying", "send", "ended"}] /\ quit \in 0..1

\* A tunnel whose context ends stops accepting, unless its accept loop set the
\* flag again after the watcher had cleared it (forward.go:70, reverse.go:73).
TunnelEnds == \A t \in Tunnels : ctxDone ~> (loop[t] = "ended" \/ late[t])

\* Both goroutines of a connection end once its handler ended (forward.go:107):
\* the channel has room for the second.
CopiesEnd == (handle = "ended") ~> (\A i \in Copies : copies[i] \in {"none", "ended"})
=============================================================================
