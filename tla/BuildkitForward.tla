-------------------------- MODULE BuildkitForward --------------------------
(***************************************************************************)
(* The port-forward connector to the BuildKit pod and the build runner     *)
(* that drives it (pkg/build/buildkit/connector/portforward.go and         *)
(* pkg/build/buildkit/runner.go).                                          *)
(*                                                                         *)
(* One goroutine, the runner, calls Start, WaitUntilIsReady,               *)
(* GetBuildkitClient and Stop.  Every attempt to forward starts another    *)
(* goroutine that runs ForwardPorts and, when it fails, the error handler: *)
(* handlers of old attempts may run while a newer attempt is in use.       *)
(* Attempts are numbered; attempt a owns the channels stopChan, readyChan  *)
(* and errChan made when it was established, and cur is the attempt whose  *)
(* channels the connector's fields hold.                                   *)
(***************************************************************************)
EXTENDS Naturals

CONSTANTS MaxForwards,  \* bound: forward attempts made in one behaviour
          MaxAttempts,  \* maxAttemptsBuildkitTransientErrors
          MaxBuilds     \* bound: builds run one after another

ASSUME BoundsAssumption ==
  /\ MaxForwards \in Nat \ {0}
  /\ MaxAttempts \in Nat \ {0}
  /\ MaxBuilds \in Nat \ {0}

VARIABLES
  phase,       \* where Runner.Run is
  st,          \* where Start is, "out" when it is not being executed
  attempts,    \* Run's local counter
  builds,      \* builds begun so far
  result,      \* what the last Run returned
  ctxDone,     \* the context of the command is cancelled
  cur,         \* the attempt whose channels pf holds; 0 before the first
  podName,     \* pf.podName # ""
  isActive,    \* pf.isActive
  client,      \* pf.buildkitClient # nil
  stopClosed,  \* stopClosed[a]: stopChan of attempt a is closed
  ready,       \* ready[a]: readyChan of attempt a is closed
  errChan,     \* errChan[a]: the buffered error of attempt a, a set
  fwd,         \* fwd[a]: where the goroutine of attempt a is
  fail         \* fail[a]: the error ForwardPorts returned in attempt a

runner == <<phase, attempts, builds, result>>
conn   == <<cur, podName, isActive, client, stopClosed>>
chans  == <<ready, errChan>>
gors   == <<fwd, fail>>
vars   == <<runner, st, ctxDone, conn, chans, gors>>

Forwards == 1 .. MaxForwards

\* The calls of Start inside Run: directly (lines 123 and 181) and from
\* WaitUntilIsReady when the connector is not active (130 and 187).
StartPhases == {"start1", "ready1", "start", "ready"}

Phases == StartPhases \cup {"up1", "prepare", "up", "client", "solve",
                            "push", "deferStop", "done"}

\* Where Run continues after a successful Start.
AfterStart == [start1 |-> "ready1", ready1 |-> "up1",
               start  |-> "ready",  ready  |-> "up"]

Errors == {"none", "inUse", "lost"}

TypeOK ==
  /\ phase \in Phases
  /\ st \in {"out", "assign", "establish", "select"}
  /\ attempts \in 0 .. MaxAttempts /\ builds \in 1 .. MaxBuilds
  /\ result \in {"none", "ok", "err"}
  /\ ctxDone \in BOOLEAN
  /\ cur \in 0 .. MaxForwards
  /\ podName \in BOOLEAN /\ isActive \in BOOLEAN /\ client \in BOOLEAN
  /\ stopClosed \in [Forwards -> BOOLEAN]
  /\ ready \in [Forwards -> BOOLEAN]
  /\ errChan \in [Forwards -> SUBSET Forwards]
  /\ fwd \in [Forwards -> {"none", "dialing", "forwarding", "send",
                           "clearPod", "stop", "done"}]
  /\ fail \in [Forwards -> Errors]

\* NewPortForwarder: the pod may already be assigned by the compatibility
\* check, no attempt has been made.
Init ==
  /\ phase = "start1" /\ st = "out" /\ attempts = 0 /\ builds = 1
  /\ result = "none" /\ ctxDone = FALSE
  /\ cur = 0 /\ podName \in BOOLEAN /\ isActive = FALSE /\ client = FALSE
  /\ stopClosed = [a \in Forwards |-> FALSE]
  /\ ready = [a \in Forwards |-> FALSE]
  /\ errChan = [a \in Forwards |-> {}]
  /\ fwd = [a \in Forwards |-> "none"]
  /\ fail = [a \in Forwards |-> "none"]

-----------------------------------------------------------------------------
(* pf.mu is held by the runner from the entry of Start to its return; every *)
(* other critical section does not block and is one step.                   *)

Unlocked == st = "out"

\* Run returns an error.  The first Start is called before the deferred Stop
\* is registered.
ReturnErr ==
  IF phase = "start1"
    THEN phase' = "done" /\ result' = "err"
    ELSE phase' = "deferStop" /\ result' = "err"

\* Start fails: it releases the lock and Run returns.
StartFails == st' = "out" /\ ReturnErr /\ UNCHANGED <<attempts, builds>>

\* Start succeeds: it releases the lock and Run goes on.
StartReturns ==
  st' = "out" /\ phase' = AfterStart[phase] /\ UNCHANGED <<attempts, builds, result>>

StartEnter ==
  /\ phase \in StartPhases /\ st = "out"
  /\ \/ isActive /\ StartReturns
     \/ /\ ~isActive
        /\ st' = IF podName THEN "establish" ELSE "assign"
        /\ UNCHANGED runner
  /\ UNCHANGED <<ctxDone, conn, chans, gors>>

\* The queue is polled until a pod is returned (a poll without a pod leaves
\* the state as it is), the call fails, or the wait times out or is cancelled.
AssignBuildkitPod ==
  /\ st = "assign"
  /\ \/ podName' = TRUE /\ st' = "establish" /\ UNCHANGED runner
     \/ StartFails /\ UNCHANGED podName
  /\ UNCHANGED <<ctxDone, cur, isActive, client, stopClosed, chans, gors>>

\* New channels are made, then the goroutine of the attempt is started; when
\* the dialer or the forwarder cannot be created no goroutine is started.
EstablishPortForward ==
  /\ st = "establish" /\ cur < MaxForwards
  /\ cur' = cur + 1
  /\ \/ fwd' = [fwd EXCEPT ![cur + 1] = "dialing"] /\ st' = "select" /\ UNCHANGED runner
     \/ fwd' = [fwd EXCEPT ![cur + 1] = "done"] /\ StartFails
  /\ UNCHANGED <<ctxDone, podName, isActive, client, stopClosed, chans, fail>>

\* The three cases of the select in waitUntilPortForwardIsReady; when several
\* are ready, the choice is free.
SelectReady ==
  /\ st = "select" /\ ready[cur]
  /\ isActive' = TRUE
  /\ StartReturns
  /\ UNCHANGED <<ctxDone, cur, podName, client, stopClosed, chans, gors>>

SelectError ==
  /\ st = "select" /\ errChan[cur] # {}
  /\ errChan' = [errChan EXCEPT ![cur] = {}]
  /\ StartFails
  /\ UNCHANGED <<ctxDone, conn, ready, gors>>

\* Variant: the cancelled wait leaves its forwarder running.
SelectCancelledLeaks ==
  /\ st = "select" /\ ctxDone
  /\ StartFails
  /\ UNCHANGED <<ctxDone, conn, chans, gors>>

SelectCancelled ==
  /\ st = "select" /\ ctxDone
  /\ stopClosed' = [stopClosed EXCEPT ![cur] = TRUE]
  /\ StartFails
  /\ UNCHANGED <<ctxDone, cur, podName, isActive, client, chans, gors>>

\* The body of Stop, executed with the lock free.
Stop ==
  /\ Unlocked
  /\ stopClosed' = IF isActive THEN [stopClosed EXCEPT ![cur] = TRUE] ELSE stopClosed
  /\ isActive' = FALSE
  /\ client' = (client /\ ~isActive)
  /\ UNCHANGED <<cur, podName>>

-----------------------------------------------------------------------------
(* Runner.Run *)

\* WaitUntilIsUp asks for the client and for Info until both answer.  The
\* answer needs a forward that is being served.
Reachable == cur > 0 /\ fwd[cur] = "forwarding"

WaitUntilIsUp ==
  /\ phase \in {"up1", "up"} /\ Unlocked
  /\ \/ client' = TRUE /\ UNCHANGED runner
     \/ /\ client /\ Reachable
        /\ phase' = IF phase = "up1" THEN "prepare" ELSE "client"
        /\ UNCHANGED <<client, attempts, builds, result>>
     \/ ReturnErr /\ UNCHANGED <<client, attempts, builds>>
  /\ UNCHANGED <<st, ctxDone, cur, podName, isActive, stopClosed, chans, gors>>

\* Secrets and solve options are prepared; then the attempt loop is entered.
Prepare ==
  /\ phase = "prepare"
  /\ \/ phase' = "start" /\ attempts' = 1 /\ UNCHANGED <<builds, result>>
     \/ ReturnErr /\ UNCHANGED <<attempts, builds>>
  /\ UNCHANGED <<st, ctxDone, conn, chans, gors>>

\* `continue', or the error when the attempts are used up.
Retry ==
  IF attempts >= MaxAttempts
    THEN ReturnErr /\ UNCHANGED <<attempts, builds>>
    ELSE phase' = "start" /\ attempts' = attempts + 1 /\ UNCHANGED <<builds, result>>

GetBuildkitClient ==
  /\ phase = "client" /\ Unlocked
  /\ \/ client' = TRUE /\ phase' = "solve" /\ UNCHANGED <<attempts, builds, result>>
     \/ ~client /\ Retry /\ UNCHANGED client
  /\ UNCHANGED <<st, ctxDone, cur, podName, isActive, stopClosed, chans, gors>>

SolveSucceeds ==
  /\ phase = "solve" /\ Reachable
  /\ phase' = "push"
  /\ UNCHANGED <<attempts, builds, result, st, ctxDone, conn, chans, gors>>

SolveRetryable ==
  /\ phase = "solve"
  /\ Stop
  /\ Retry
  /\ UNCHANGED <<st, ctxDone, chans, gors>>

SolveFails ==
  /\ phase = "solve"
  /\ ReturnErr
  /\ UNCHANGED <<attempts, builds, st, ctxDone, conn, chans, gors>>

CheckIfImageIsPushed ==
  /\ phase = "push"
  /\ \/ phase' = "deferStop" /\ result' = "ok" /\ UNCHANGED <<attempts, builds>>
     \/ Retry
  /\ UNCHANGED <<st, ctxDone, conn, chans, gors>>

\* Variant: Run returns without stopping the connector.
NoDeferredStop ==
  /\ phase = "deferStop"
  /\ phase' = "done"
  /\ UNCHANGED <<attempts, builds, result, st, ctxDone, conn, chans, gors>>

DeferredStop ==
  /\ phase = "deferStop"
  /\ Stop
  /\ phase' = "done"
  /\ UNCHANGED <<attempts, builds, result, st, ctxDone, chans, gors>>

\* The next image of the same command is built with the same connector.
NextBuild ==
  /\ phase = "done" /\ result = "ok" /\ builds < MaxBuilds
  /\ phase' = "start1" /\ builds' = builds + 1 /\ attempts' = 0 /\ result' = "none"
  /\ UNCHANGED <<st, ctxDone, conn, chans, gors>>

Cancel ==
  /\ ~ctxDone
  /\ ctxDone' = TRUE
  /\ UNCHANGED <<runner, st, conn, chans, gors>>

-----------------------------------------------------------------------------
(* The goroutine of attempt a: ForwardPorts of client-go (external), then   *)
(* handlePortForwardError.                                                  *)

\* The local port is listened on, then readyChan is closed.
ForwardListens(a) ==
  /\ fwd[a] = "dialing"
  /\ \A b \in Forwards : fwd[b] # "forwarding"
  /\ fwd' = [fwd EXCEPT ![a] = "forwarding"]
  /\ ready' = [ready EXCEPT ![a] = TRUE]
  /\ UNCHANGED <<runner, st, ctxDone, conn, errChan, fail>>

\* Dialing fails, the port is taken (by another process, or by an earlier
\* forward that has not noticed its stopChan yet), or an established
\* connection is lost.
ForwardFails(a) ==
  /\ \/ fwd[a] = "dialing" /\ fail' \in {[fail EXCEPT ![a] = e] : e \in {"inUse", "lost"}}
     \/ fwd[a] = "forwarding" /\ fail' = [fail EXCEPT ![a] = "lost"]
  /\ fwd' = [fwd EXCEPT ![a] = "send"]
  /\ UNCHANGED <<runner, st, ctxDone, conn, chans>>

\* ForwardPorts returns nil once it sees stopChan closed.
ForwardStopped(a) ==
  /\ fwd[a] = "forwarding" /\ stopClosed[a]
  /\ fwd' = [fwd EXCEPT ![a] = "done"]
  /\ UNCHANGED <<runner, st, ctxDone, conn, chans, fail>>

\* Variant: the handler reads pf.errChan when it runs.
HandlerSendsToCurrent(a) ==
  /\ fwd[a] = "send" /\ errChan[cur] = {}
  /\ errChan' = [errChan EXCEPT ![cur] = {a}]
  /\ fwd' = [fwd EXCEPT ![a] = IF fail[a] = "inUse" THEN "done" ELSE "clearPod"]
  /\ UNCHANGED <<runner, st, ctxDone, conn, ready, fail>>

\* Variant: the handler takes the lock before it reports the error.
HandlerLocksFirst(a) ==
  /\ fwd[a] = "send" /\ errChan[a] = {} /\ Unlocked
  /\ errChan' = [errChan EXCEPT ![a] = {a}]
  /\ fwd' = [fwd EXCEPT ![a] = IF fail[a] = "inUse" THEN "done" ELSE "clearPod"]
  /\ UNCHANGED <<runner, st, ctxDone, conn, ready, fail>>

\* The error is put into the attempt's own channel, of capacity 1, before
\* the lock is asked for.
HandlerSends(a) ==
  /\ fwd[a] = "send" /\ errChan[a] = {}
  /\ errChan' = [errChan EXCEPT ![a] = {a}]
  /\ fwd' = [fwd EXCEPT ![a] = IF fail[a] = "inUse" THEN "done" ELSE "clearPod"]
  /\ UNCHANGED <<runner, st, ctxDone, conn, ready, fail>>

HandlerClearsPod(a) ==
  /\ fwd[a] = "clearPod" /\ Unlocked
  /\ podName' = FALSE
  /\ fwd' = [fwd EXCEPT ![a] = "stop"]
  /\ UNCHANGED <<runner, st, ctxDone, cur, isActive, client, stopClosed, chans, fail>>

HandlerStops(a) ==
  /\ fwd[a] = "stop"
  /\ Stop
  /\ fwd' = [fwd EXCEPT ![a] = "done"]
  /\ UNCHANGED <<runner, st, ctxDone, chans, fail>>

-----------------------------------------------------------------------------
RunnerStep ==
  \/ StartEnter \/ AssignBuildkitPod \/ EstablishPortForward
  \/ SelectReady \/ SelectError \/ SelectCancelled
  \/ WaitUntilIsUp \/ Prepare \/ GetBuildkitClient
  \/ SolveSucceeds \/ SolveRetryable \/ SolveFails
  \/ CheckIfImageIsPushed \/ DeferredStop \/ NextBuild

Handler(a) == HandlerSends(a) \/ HandlerClearsPod(a) \/ HandlerStops(a)

ForwardPorts(a) == ForwardListens(a) \/ ForwardFails(a) \/ ForwardStopped(a)

Next ==
  \/ RunnerStep
  \/ Cancel
  \/ \E a \in Forwards : Handler(a) \/ ForwardPorts(a)

Spec == Init /\ [][Next]_vars

\* Goroutines are scheduled; dialing ends one way or another (the transport
\* has timeouts) and a stopChan that was closed is noticed; the calls of the
\* runner return (the queue wait and the readiness wait are bounded by
\* timeouts).  Nothing obliges an established forward to fail.
Fairness ==
  /\ WF_vars(RunnerStep)
  /\ \A a \in Forwards :
       /\ WF_vars(Handler(a))
       /\ WF_vars(fwd[a] = "dialing" /\ ForwardPorts(a))
       /\ WF_vars(ForwardStopped(a))

FairSpec == Spec /\ Fairness

-----------------------------------------------------------------------------
(* Properties *)

Running(a) == fwd[a] \in {"dialing", "forwarding"}

\* An error reaches only the channel of the attempt that failed, and finds it
\* empty: the send of a handler never blocks and no Start is woken by the
\* failure of an earlier attempt (portforward.go:317, 332 and 343).
ErrorsStayWithTheirAttempt ==
  \A a \in Forwards : errChan[a] \subseteq {a} /\ (fwd[a] = "send" => errChan[a] = {})

\* While the connector says it is active, the forward it hands out has been
\* ready and has not been told to stop, whoever called Stop before
\* (portforward.go:171, 358 and 403).
ActiveForwardIsOpen ==
  isActive => cur > 0 /\ ready[cur] /\ ~stopClosed[cur]

\* A forward that still runs and was not told to stop is the one the connector
\* waits for or uses: no path through Start, its failures and its cancellation
\* loses a listener on the local port (portforward.go:284, 361 and 372).
NoOrphanForward ==
  \A a \in Forwards :
    Running(a) /\ ~stopClosed[a] => a = cur /\ (isActive \/ st = "select")

\* The cancelled wait closes stopChan without looking (portforward.go:372); no
\* Stop of another goroutine has closed it before, so it does not panic.
CancelNeverClosesTwice == st = "select" => ~stopClosed[cur]

\* The connector and its forwards agree at every moment: they have their types, an
\* active connector has an open forward, no forward is orphaned and no stop channel
\* is closed twice (portforward.go:284-372).
ForwardsAreSound == TypeOK /\ ActiveForwardIsOpen /\ NoOrphanForward /\ CancelNeverClosesTwice

\* When Run has returned, every forward was told to stop or is over
\* (runner.go:123-127).
RunLeavesNothingOpen ==
  phase = "done" => \A a \in Forwards : Running(a) => stopClosed[a]

\* The bound of the instance, and nothing in the code, stops the runner.
BoundReached == st = "establish" /\ cur = MaxForwards

\* Every build ends: Start, which blocks with the lock held, is always woken by
\* the forward, by its failure handler or by the context, and the retries are
\* bounded (portforward.go:329-331, runner.go:175-232).
RunTerminates == phase # "done" ~> (phase = "done" \/ BoundReached)
=============================================================================
