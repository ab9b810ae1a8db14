----------------------------- MODULE K8sForward -----------------------------
(***************************************************************************)
(* The port-forward manager of a development container (pkg/k8s/forward)   *)
(* under the SSH forward manager's connection loop (pkg/ssh/manager.go).   *)
(*                                                                         *)
(* A Start builds a forward to the pod, leaves it to a goroutine, starts a *)
(* goroutine per forwarded service and waits until the forward is ready.   *)
(* In remote mode the SSH manager then connects through it; when it cannot *)
(* it stops the forward and starts again.  The goroutine of an earlier     *)
(* Start reaches the manager through p.activeDev, by then perhaps nil or   *)
(* that of a later Start.  Two goroutines may be in Stop at a time: that   *)
(* of the connection loop and of the activation's shutdown, and the main   *)
(* one that was interrupted.                                               *)
(***************************************************************************)
EXTENDS Naturals

CONSTANTS MaxStarts,      \* bound: starts of the connection loop
          Interruptible   \* the main goroutine may shut down meanwhile (CTRL+C)

ASSUME BoundAssumption == MaxStarts \in Nat \ {0} /\ Interruptible \in BOOLEAN

Starts == 1 .. MaxStarts

Stoppers == {"loop", "main"}

None == 0

VARIABLES
  loop,       \* where ForwardManager.Start and the calls it makes are
  n,          \* starts made
  stopped,    \* p.stopped
  activeDev,  \* p.activeDev: the start it belongs to, or None
  on,         \* the start whose readyChan Start waits on
  readyChan,      \* ready[a]: readyChan is open, closed, or closed and set to nil
  stopChan,   \* stopChan[a] is closed
  err,        \* err[a]: active.err is set
  forward,        \* fwd[a]: where the goroutine around ForwardPorts is
  svc,        \* where forwardService is (one service; none in remote mode)
  stopAt,     \* stopAt[s]: where the Stop of that goroutine is
  stopOf,     \* stopOf[s]: the p.activeDev that it has read
  made,       \* starts made when the main goroutine read p.activeDev (a history
              \* variable)
  remote      \* Dev.RemoteModeEnabled(): SSH through the forward

stopVars == <<stopAt, stopOf, made>>

k8sVars == <<loop, n, stopped, activeDev, on, readyChan, stopChan, err, forward, svc, remote, stopVars>>

LoopStates == {"start", "build", "read", "nil", "wait", "check", "pool", "stop",
               "up", "failed", "quit", "end", "panic"}
StopStates == {"no", "read", "close", "clear", "over"}
FwdStates == {"none", "dial", "listen", "failed", "lost", "close", "set", "done"}
SvcStates == {"none", "test", "build", "listen", "done"}

K8sInit ==
  /\ loop = "start" /\ n = 0 /\ stopped = FALSE
  /\ activeDev = None /\ on = None
  /\ readyChan = [a \in Starts |-> "open"]
  /\ stopChan = [a \in Starts |-> FALSE]
  /\ err = [a \in Starts |-> FALSE]
  /\ forward = [a \in Starts |-> "none"]
  /\ svc = "none"
  /\ stopAt = [s \in Stoppers |-> "no"] /\ stopOf = [s \in Stoppers |-> None]
  /\ made = 0 /\ remote \in BOOLEAN

K8sTypeOK ==
  /\ loop \in LoopStates /\ n \in 0 .. MaxStarts /\ stopped \in BOOLEAN
  /\ activeDev \in {None, n} /\ on \in 0 .. MaxStarts
  /\ readyChan \in [Starts -> {"open", "closed", "nil"}]
  /\ stopChan \in [Starts -> BOOLEAN] /\ err \in [Starts -> BOOLEAN]
  /\ forward \in [Starts -> FwdStates] /\ svc \in SvcStates
  /\ stopAt \in [Stoppers -> StopStates] /\ stopOf \in [Stoppers -> 0 .. MaxStarts]
  /\ made \in 0 .. n /\ remote \in BOOLEAN

Alive == loop # "panic"

\* up.interruptReceived: the main goroutine is in up.shutdown, or was.
Interrupted == stopAt["main"] # "no"

-----------------------------------------------------------------------------
(* PortForwardManager.Start, called by the connection loop *)

StartReset ==
  /\ loop = "start"
  /\ stopped' = FALSE
  /\ loop' = "build"
  /\ UNCHANGED <<n, activeDev, on, readyChan, stopChan, err, forward, svc, remote, stopVars>>

\* A forward that cannot be built (no dialer) ends the loop with an error.
BuildFails ==
  /\ loop = "build"
  /\ loop' = "failed"
  /\ UNCHANGED <<n, stopped, activeDev, on, readyChan, stopChan, err, forward, svc, remote, stopVars>>

StartLaunch ==
  /\ loop = "build" /\ n < MaxStarts
  /\ n' = n + 1
  /\ activeDev' = n + 1
  /\ forward' = [forward EXCEPT ![n + 1] = "dial"]
  /\ svc' = IF remote THEN svc ELSE "test"
  /\ loop' = "read"
  /\ UNCHANGED <<stopped, on, readyChan, stopChan, err, remote, stopVars>>

\* <-p.activeDev.readyChan: the fields are read first, and may be nil.
StartRead ==
  /\ loop = "read"
  /\ \/ activeDev = None /\ loop' = "panic" /\ UNCHANGED on
     \/ activeDev # None /\ readyChan[activeDev] = "nil" /\ loop' = "nil" /\ UNCHANGED on
     \/ activeDev # None /\ readyChan[activeDev] # "nil" /\ loop' = "wait" /\ on' = activeDev
  /\ UNCHANGED <<n, stopped, activeDev, readyChan, stopChan, err, forward, svc, remote, stopVars>>

StartReady ==
  /\ loop = "wait" /\ readyChan[on] # "open"
  /\ loop' = "check"
  /\ UNCHANGED <<n, stopped, activeDev, on, readyChan, stopChan, err, forward, svc, remote, stopVars>>

StartResult ==
  /\ loop = "check"
  /\ loop' = CASE activeDev # None /\ err[activeDev] -> "failed"
               [] OTHER -> IF remote THEN "pool" ELSE "up"
  /\ UNCHANGED <<n, stopped, activeDev, on, readyChan, stopChan, err, forward, svc, remote, stopVars>>

\* startPool connects through the forward, which therefore listens.
PoolConnects ==
  /\ loop = "pool" /\ activeDev # None /\ forward[activeDev] = "listen"
  /\ loop' = "up"
  /\ UNCHANGED <<n, stopped, activeDev, on, readyChan, stopChan, err, forward, svc, remote, stopVars>>

\* startPool fails: another round, unless the time and the retries are used up.
PoolFails ==
  /\ loop = "pool"
  /\ \/ loop' = "failed" /\ UNCHANGED stopAt
     \/ loop' = "stop" /\ stopAt' = [stopAt EXCEPT !["loop"] = "read"]
  /\ UNCHANGED <<n, stopped, activeDev, on, readyChan, stopChan, err, forward, svc, stopOf, made, remote>>

-----------------------------------------------------------------------------
(* PortForwardManager.Stop, by either of its callers.  Nothing is ever added *)
(* to p.activeServices.                                                      *)

\* p.stopped = true, p.activeDev is read, and active.stop does nothing without a start
\* or when its stopChan was set to nil.
StopReads(s) ==
  /\ Alive /\ stopAt[s] = "read"
  /\ stopped' = TRUE
  /\ made' = IF s = "main" THEN n ELSE made
  /\ IF activeDev # None /\ ~stopChan[activeDev]
       THEN /\ stopOf' = [stopOf EXCEPT ![s] = activeDev]
            /\ stopAt' = [stopAt EXCEPT ![s] = "close"]
       ELSE /\ stopAt' = [stopAt EXCEPT ![s] = "clear"]
            /\ UNCHANGED stopOf
  /\ UNCHANGED <<loop, n, activeDev, on, readyChan, stopChan, err, forward, svc, remote>>

\* Variant: the channel is forgotten and not closed.
StopForgets(s) ==
  /\ Alive /\ stopAt[s] = "close"
  /\ stopAt' = [stopAt EXCEPT ![s] = "clear"]
  /\ UNCHANGED <<loop, n, stopped, activeDev, on, readyChan, stopChan, err, forward, svc, stopOf, made, remote>>

\* Closing it panics when the other one has closed it since the check.
StopCloses(s) ==
  /\ Alive /\ stopAt[s] = "close"
  /\ IF stopChan[stopOf[s]]
       THEN loop' = "panic" /\ UNCHANGED stopChan
       ELSE stopChan' = [stopChan EXCEPT ![stopOf[s]] = TRUE] /\ UNCHANGED loop
  /\ stopAt' = [stopAt EXCEPT ![s] = "clear"]
  /\ UNCHANGED <<n, stopped, activeDev, on, readyChan, err, forward, svc, stopOf, made, remote>>

\* p.activeDev = nil, whatever Start has put there since it was read, and Stop
\* returns.  The connection loop goes on, or its context was cancelled; after the
\* shutdown of the activation nothing follows.
StopClears(s) ==
  /\ Alive /\ stopAt[s] = "clear"
  /\ activeDev' = None
  /\ stopOf' = [stopOf EXCEPT ![s] = None]
  /\ stopAt' = [stopAt EXCEPT ![s] = IF s = "main" THEN "over" ELSE "no"]
  /\ loop' \in CASE s = "main" -> {loop}
                 [] s = "loop" /\ loop = "stop" -> {"start", "end"}
                 [] OTHER -> {"end"}
  /\ UNCHANGED <<n, stopped, on, readyChan, stopChan, err, forward, svc, made, remote>>

\* ForwardManager.Stop by the shutdown of the activation, after success or failure;
\* there is none once the main goroutine was interrupted.
ManagerStop ==
  /\ loop \in {"up", "failed"}
  /\ IF Interrupted
       THEN loop' = "end" /\ UNCHANGED stopAt
       ELSE loop' = "quit" /\ stopAt' = [stopAt EXCEPT !["loop"] = "read"]
  /\ UNCHANGED <<n, stopped, activeDev, on, readyChan, stopChan, err, forward, svc, stopOf, made, remote>>

\* ForwardManager.Stop by the main goroutine, anywhere in the connection loop.
Interrupt ==
  /\ Interruptible /\ Alive /\ ~Interrupted
  /\ stopAt' = [stopAt EXCEPT !["main"] = "read"]
  /\ UNCHANGED <<loop, n, stopped, activeDev, on, readyChan, stopChan, err, forward, svc, stopOf, made, remote>>

-----------------------------------------------------------------------------
(* The goroutine around ForwardPorts *)

\* client-go connects, listens and closes the ready channel; it panics if the
\* goroutine of an earlier start has closed it.
PortsReady(a) ==
  /\ Alive /\ forward[a] = "dial"
  /\ forward' = [forward EXCEPT ![a] = "listen"]
  /\ IF readyChan[a] = "open"
       THEN readyChan' = [readyChan EXCEPT ![a] = "closed"] /\ UNCHANGED loop
       ELSE loop' = "panic" /\ UNCHANGED readyChan
  /\ UNCHANGED <<n, stopped, activeDev, on, stopChan, err, svc, remote, stopVars>>

PortsFail(a) ==
  /\ Alive /\ forward[a] = "dial"
  /\ forward' = [forward EXCEPT ![a] = "failed"]
  /\ UNCHANGED <<loop, n, stopped, activeDev, on, readyChan, stopChan, err, svc, remote, stopVars>>

PortsLost(a) ==
  /\ Alive /\ forward[a] = "listen"
  /\ forward' = [forward EXCEPT ![a] = "lost"]
  /\ UNCHANGED <<loop, n, stopped, activeDev, on, readyChan, stopChan, err, svc, remote, stopVars>>

PortsStop(a) ==
  /\ Alive /\ forward[a] = "listen" /\ stopChan[a]
  /\ forward' = [forward EXCEPT ![a] = "done"]
  /\ UNCHANGED <<loop, n, stopped, activeDev, on, readyChan, stopChan, err, svc, remote, stopVars>>

\* Variant: the goroutine waits until there is an active forward again.
ErrorWaitsForActive(a) ==
  /\ Alive /\ forward[a] \in {"failed", "lost"} /\ activeDev # None
  /\ forward' = [forward EXCEPT ![a] = IF @ = "failed" THEN "close" ELSE "set"]
  /\ UNCHANGED <<loop, n, stopped, activeDev, on, readyChan, stopChan, err, svc, remote, stopVars>>

\* if p.activeDev != nil: a lost connection does not close the ready channel.
ErrorSeen(a) ==
  /\ Alive /\ forward[a] \in {"failed", "lost"}
  /\ forward' = [forward EXCEPT ![a] =
       CASE activeDev = None -> "done"
         [] activeDev # None /\ @ = "failed" -> "close"
         [] activeDev # None /\ @ = "lost" -> "set"]
  /\ UNCHANGED <<loop, n, stopped, activeDev, on, readyChan, stopChan, err, svc, remote, stopVars>>

\* closeReady of whatever p.activeDev is now; closing a closed channel panics.
CloseReady(a) ==
  /\ Alive /\ forward[a] = "close"
  /\ IF activeDev # None /\ readyChan[activeDev] = "closed"
       THEN loop' = "panic" /\ UNCHANGED readyChan
       ELSE /\ readyChan' = [b \in Starts |-> IF b = activeDev THEN "nil" ELSE readyChan[b]]
            /\ UNCHANGED loop
  /\ forward' = [forward EXCEPT ![a] = "set"]
  /\ UNCHANGED <<n, stopped, activeDev, on, stopChan, err, svc, remote, stopVars>>

\* p.activeDev.err = err panics when p.activeDev is nil by now.
SetErr(a) ==
  /\ Alive /\ forward[a] = "set"
  /\ IF activeDev = None
       THEN loop' = "panic" /\ UNCHANGED err
       ELSE err' = [err EXCEPT ![activeDev] = TRUE] /\ UNCHANGED loop
  /\ forward' = [forward EXCEPT ![a] = "done"]
  /\ UNCHANGED <<n, stopped, activeDev, on, readyChan, stopChan, svc, remote, stopVars>>

-----------------------------------------------------------------------------
(* forwardService *)

ServiceTest==
  /\ Alive /\ svc = "test"
  /\ svc' = IF stopped THEN "done" ELSE "build"
  /\ UNCHANGED <<loop, n, stopped, activeDev, on, readyChan, stopChan, err, forward, remote, stopVars>>

\* The service or its pod is not there: wait for the tick.
ServiceBuildFails==
  /\ Alive /\ svc = "build"
  /\ svc' = "test"
  /\ UNCHANGED <<loop, n, stopped, activeDev, on, readyChan, stopChan, err, forward, remote, stopVars>>

ServiceListens==
  /\ Alive /\ svc = "build"
  /\ svc' = "listen"
  /\ UNCHANGED <<loop, n, stopped, activeDev, on, readyChan, stopChan, err, forward, remote, stopVars>>

\* The connection to the service's pod is lost; the stop channel is not closed
\* by anyone else.
ServiceLost==
  /\ Alive /\ svc = "listen"
  /\ svc' = "test"
  /\ UNCHANGED <<loop, n, stopped, activeDev, on, readyChan, stopChan, err, forward, remote, stopVars>>

-----------------------------------------------------------------------------
LoopStep ==
  \/ StartReset \/ BuildFails \/ StartLaunch \/ StartRead \/ StartReady \/ StartResult
  \/ PoolConnects \/ PoolFails \/ ManagerStop

StopForward(s) == StopReads(s) \/ StopCloses(s) \/ StopClears(s)

Ports(a) == PortsReady(a) \/ PortsFail(a) \/ PortsStop(a)

ErrorPath(a) == ErrorSeen(a) \/ CloseReady(a) \/ SetErr(a)

Service == ServiceTest \/ ServiceBuildFails \/ ServiceListens

K8sNext ==
  \/ LoopStep \/ Interrupt \/ Service \/ ServiceLost
  \/ \E s \in Stoppers : StopForward(s)
  \/ \E a \in Starts : Ports(a) \/ PortsLost(a) \/ ErrorPath(a)

K8sSpec == K8sInit /\ [][K8sNext]_k8sVars

\* The loop and the goroutines are scheduled; client-go connects or fails, and
\* obeys the stop channel.  A connection need not be lost, nor a session end.
K8sFairSpec ==
  /\ K8sSpec
  /\ WF_k8sVars(LoopStep /\ loop # "up")
  /\ WF_k8sVars(Service)
  /\ \A s \in Stoppers : WF_k8sVars(StopForward(s))
  /\ \A a \in Starts : WF_k8sVars(Ports(a)) /\ WF_k8sVars(ErrorPath(a))

-----------------------------------------------------------------------------
(* Properties *)

\* The forward of a start that was given up, or whose session ended, was told to
\* stop, unless an interrupt stops the manager at the same time; and the Stop of the
\* interrupt has told every forward that was there when it read p.activeDev, whatever
\* the connection loop stops and starts meanwhile.  One that is started during it, or
\* after it, may be left (forward/manager.go:141 and 170-182, ssh/manager.go:166-168
\* and 188-199).
ForwardsAreStopped ==
  /\ ~Interrupted => \A a \in Starts : forward[a] # "none" /\ (a < n \/ loop = "end") => stopChan[a]
  /\ stopAt["main"] = "over" => \A a \in 1 .. made : forward[a] # "none" => stopChan[a]

\* What it rests on until the main goroutine reads p.activeDev: every forward is the
\* active one or was told to stop, and the Stop of the loop is about the active one.
BeforeInterrupt ==
  /\ \A a \in Starts : forward[a] # "none" => stopChan[a] \/ a = activeDev
  /\ stopAt["loop"] = "close" => stopOf["loop"] = activeDev
  /\ stopAt["loop"] = "clear" /\ activeDev # None => stopChan[activeDev]
  /\ loop \in {"start", "build"} => activeDev = None
  /\ loop = "end" /\ ~Interrupted => activeDev = None

\* And afterwards: the forwards there were have been told, or are about to be.
SinceInterrupt ==
  \A a \in 1 .. made :
    forward[a] # "none" => stopChan[a] \/ (a = stopOf["main"] /\ stopAt["main"] = "close")

K8sSupport ==
  /\ \A a \in Starts : forward[a] # "none" => a <= n
  /\ Alive => (stopAt["loop"] # "no" <=> loop \in {"stop", "quit"})
  /\ \A s \in Stoppers : stopAt[s] = "close" => stopOf[s] # None
  /\ IF stopAt["main"] \in {"no", "read"} THEN BeforeInterrupt ELSE SinceInterrupt

K8sIInv == K8sTypeOK /\ K8sSupport

\* A forward that was told to stop ends, whatever its connection did meanwhile.
StoppedForwardEnds ==
  \A a \in Starts : stopChan[a] ~> (forward[a] = "done" \/ loop = "panic")
=============================================================================
