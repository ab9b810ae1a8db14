-------------------------- MODULE Forwards_proofs --------------------------
(***************************************************************************)
(* Proofs about the two managers of forwards to a pod: what TLC checks for *)
(* small bounds holds for any number of forwards, attempts and builds.     *)
(*                                                                         *)
(* BuildkitForward: Start runs with the connector inactive, and an error   *)
(* is buffered only by an attempt whose handler is past its send           *)
(* (Support).                                                              *)
(* K8sForward: no forward to the pod is left without a stop signal before  *)
(* an interrupt, nor one that an interrupt meets, for any number of        *)
(* starts.  That a superseded forward was stopped is not inductive by      *)
(* itself: until an interrupt, a forward that was not told to stop is the  *)
(* active one, and a start is only made when none is active; and the Stop  *)
(* of an interrupt closes the channel of the only one that is left.        *)
(***************************************************************************)
EXTENDS BuildkitForward, K8sForward, TLAPS

-----------------------------------------------------------------------------
(* The connector of buildkit                                                 *)

\* What the safety invariants need to be inductive: Start runs with the
\* connector inactive and in a phase that calls it; the channels of attempts
\* that were not made yet are fresh; an error is buffered only by an attempt
\* whose handler is past its send.
Support ==
  /\ st # "out" => phase \in StartPhases /\ ~isActive
  /\ st = "select" => cur > 0
  /\ phase = "done" => ~isActive
  /\ \A a \in Forwards : a > cur => fwd[a] = "none" /\ ~stopClosed[a] /\ ~ready[a]
  /\ \A a \in Forwards : errChan[a] \subseteq {a}
  /\ \A a \in Forwards : errChan[a] # {} => fwd[a] \in {"clearPod", "stop", "done"}

IInv ==
  /\ TypeOK
  /\ Support
  /\ ActiveForwardIsOpen
  /\ NoOrphanForward
  /\ CancelNeverClosesTwice

\* The initial state of a new connector satisfies the invariant.
LEMMA InitIInv == Init => IInv
<1> SUFFICES ASSUME Init PROVE IInv
  OBVIOUS
<1> USE BoundsAssumption DEF BoundsAssumption, Init, Forwards
<1>1. TypeOK
  <2>1. attempts \in 0 .. MaxAttempts /\ builds \in 1 .. MaxBuilds /\ cur \in 0 .. MaxForwards
    OBVIOUS
  <2>2. errChan \in [Forwards -> SUBSET Forwards]
    OBVIOUS
  <2>3. stopClosed \in [Forwards -> BOOLEAN] /\ ready \in [Forwards -> BOOLEAN]
    OBVIOUS
  <2>4. phase \in Phases /\ fail \in [Forwards -> Errors]
    BY DEF Phases, StartPhases, Errors
  <2> QED BY <2>1, <2>2, <2>3, <2>4 DEF TypeOK
<1>2. Support
  BY DEF Support
<1>3. ActiveForwardIsOpen /\ NoOrphanForward /\ CancelNeverClosesTwice
  BY DEF ActiveForwardIsOpen, NoOrphanForward, CancelNeverClosesTwice, Running
<1> QED BY <1>1, <1>2, <1>3 DEF IInv

\* Stop, whoever calls it, keeps the connector's half of the invariant.
LEMMA StopFacts ==
  ASSUME IInv, Stop
  PROVE  /\ st = "out"
         /\ isActive' = FALSE /\ isActive' \in BOOLEAN /\ cur' = cur
         /\ podName' \in BOOLEAN /\ client' \in BOOLEAN
         /\ stopClosed' \in [Forwards -> BOOLEAN]
         /\ \A a \in Forwards : stopClosed[a] => stopClosed'[a]
         /\ \A a \in Forwards : a > cur => ~stopClosed'[a]
         /\ isActive => stopClosed'[cur]
<1>1. st = "out" /\ cur' = cur
  BY DEF Stop, Unlocked
<1>2. isActive' = FALSE /\ isActive' \in BOOLEAN
  BY DEF Stop
<1>3. podName' \in BOOLEAN /\ client' \in BOOLEAN
  BY DEF IInv, TypeOK, Stop
<1>4. /\ stopClosed' \in [Forwards -> BOOLEAN]
      /\ \A a \in Forwards : stopClosed[a] => stopClosed'[a]
      /\ \A a \in Forwards : a > cur => ~stopClosed'[a]
      /\ isActive => stopClosed'[cur]
  BY DEF IInv, TypeOK, Support, ActiveForwardIsOpen, Stop, Forwards
<1> QED BY <1>1, <1>2, <1>3, <1>4

\* Every step of the runner that runs Start keeps the invariant.
LEMMA StartIInv ==
  ASSUME IInv,
         StartEnter \/ AssignBuildkitPod \/ EstablishPortForward \/ SelectReady
           \/ SelectError \/ SelectCancelled
  PROVE  IInv'
<1> USE BoundsAssumption DEF BoundsAssumption, StartPhases, Phases, AfterStart, Forwards, Errors, Running
<1>1. CASE StartEnter
  BY <1>1 DEF IInv, TypeOK, Support, ActiveForwardIsOpen, NoOrphanForward,
     CancelNeverClosesTwice, StartEnter, StartReturns, runner, conn, chans, gors
<1>2. CASE AssignBuildkitPod
  BY <1>2 DEF IInv, TypeOK, Support, ActiveForwardIsOpen, NoOrphanForward,
     CancelNeverClosesTwice, AssignBuildkitPod, StartFails, ReturnErr, runner, chans, gors
<1>3. CASE EstablishPortForward
  <2>1. TypeOK'
    BY <1>3 DEF IInv, TypeOK, Support, EstablishPortForward, StartFails,
       ReturnErr, runner, chans
  <2>2. Support'
    BY <1>3 DEF IInv, TypeOK, Support, ActiveForwardIsOpen, EstablishPortForward, StartFails,
       ReturnErr, runner, chans
  <2>3. ActiveForwardIsOpen' /\ CancelNeverClosesTwice'
    BY <1>3 DEF IInv, TypeOK, Support, ActiveForwardIsOpen,
       CancelNeverClosesTwice, EstablishPortForward, StartFails,
       ReturnErr, runner, chans
  <2>4. NoOrphanForward'
    BY <1>3 DEF IInv, TypeOK, Support, NoOrphanForward, EstablishPortForward, StartFails,
       ReturnErr, runner, chans
  <2> QED BY <2>1, <2>2, <2>3, <2>4 DEF IInv
<1>4. CASE SelectReady
  BY <1>4 DEF IInv, TypeOK, Support, ActiveForwardIsOpen, NoOrphanForward,
     CancelNeverClosesTwice, SelectReady, StartReturns, chans, gors
<1>5. CASE SelectError
  <2>1. TypeOK'
    BY <1>5 DEF IInv, TypeOK, Support, SelectError, StartFails,
       ReturnErr, conn, gors
  <2>2. Support'
    BY <1>5 DEF IInv, TypeOK, Support, ActiveForwardIsOpen, SelectError, StartFails,
       ReturnErr, conn, gors
  <2>3. ActiveForwardIsOpen' /\ CancelNeverClosesTwice'
    BY <1>5 DEF IInv, TypeOK, Support, ActiveForwardIsOpen,
       CancelNeverClosesTwice, SelectError, StartFails,
       ReturnErr, conn, gors
  <2>4. NoOrphanForward'
    BY <1>5 DEF IInv, TypeOK, Support, NoOrphanForward, SelectError, StartFails,
       ReturnErr, conn, gors
  <2> QED BY <2>1, <2>2, <2>3, <2>4 DEF IInv
<1>6. CASE SelectCancelled
  BY <1>6 DEF IInv, TypeOK, Support, ActiveForwardIsOpen, NoOrphanForward,
     CancelNeverClosesTwice, SelectCancelled, StartFails, ReturnErr, chans, gors
<1> QED BY <1>1, <1>2, <1>3, <1>4, <1>5, <1>6

\* Every other step of Run keeps the invariant.
LEMMA RunIInv ==
  ASSUME IInv,
         WaitUntilIsUp \/ Prepare \/ GetBuildkitClient \/ SolveSucceeds \/ SolveRetryable
           \/ SolveFails \/ CheckIfImageIsPushed \/ DeferredStop \/ NextBuild
  PROVE  IInv'
<1> USE BoundsAssumption DEF BoundsAssumption, StartPhases, Phases, Forwards, Errors, Running
<1>1. CASE WaitUntilIsUp
  <2>1. TypeOK'
    BY ZenonT(60), <1>1 DEF IInv, TypeOK, Support, WaitUntilIsUp, ReturnErr, Unlocked,
       runner, chans, gors
  <2>2. Support'
    BY <1>1 DEF IInv, TypeOK, Support, ActiveForwardIsOpen, WaitUntilIsUp, ReturnErr, Unlocked,
       runner, chans, gors
  <2>3. ActiveForwardIsOpen' /\ CancelNeverClosesTwice'
    BY <1>1 DEF IInv, TypeOK, Support, ActiveForwardIsOpen,
       CancelNeverClosesTwice, WaitUntilIsUp, ReturnErr, Unlocked,
       runner, chans, gors
  <2>4. NoOrphanForward'
    BY <1>1 DEF IInv, TypeOK, Support, NoOrphanForward, WaitUntilIsUp, ReturnErr, Unlocked,
       runner, chans, gors
  <2> QED BY <2>1, <2>2, <2>3, <2>4 DEF IInv
<1>2. CASE Prepare
  BY <1>2 DEF IInv, TypeOK, Support, ActiveForwardIsOpen, NoOrphanForward,
     CancelNeverClosesTwice, Prepare, ReturnErr, conn, chans, gors
<1>3. CASE GetBuildkitClient
  <2>0. client' \in BOOLEAN /\ UNCHANGED <<podName, isActive>>
    BY <1>3 DEF IInv, TypeOK, GetBuildkitClient
  <2>1. TypeOK'
    BY <1>3, <2>0 DEF IInv, TypeOK, GetBuildkitClient, Retry, ReturnErr, chans, gors
  <2>2. Support'
    BY <1>3 DEF IInv, TypeOK, Support, ActiveForwardIsOpen, GetBuildkitClient, Retry, ReturnErr,
       Unlocked, chans, gors
  <2>3. ActiveForwardIsOpen' /\ CancelNeverClosesTwice'
    BY <1>3 DEF IInv, TypeOK, Support, ActiveForwardIsOpen,
       CancelNeverClosesTwice, GetBuildkitClient, Retry, ReturnErr,
       Unlocked, chans, gors
  <2>4. NoOrphanForward'
    BY <1>3 DEF IInv, TypeOK, Support, NoOrphanForward, GetBuildkitClient, Retry, ReturnErr,
       Unlocked, chans, gors
  <2> QED BY <2>1, <2>2, <2>3, <2>4 DEF IInv
<1>4. CASE SolveSucceeds
  BY <1>4 DEF IInv, TypeOK, Support, ActiveForwardIsOpen, NoOrphanForward,
     CancelNeverClosesTwice, SolveSucceeds, conn, chans, gors
<1>5. CASE SolveRetryable
  <2>0. Stop
    BY <1>5 DEF SolveRetryable
  <2>1. TypeOK'
    <3>1. phase' \in Phases /\ attempts' \in 0 .. MaxAttempts
          /\ result' \in {"none", "ok", "err"} /\ builds' = builds
      BY <1>5 DEF IInv, TypeOK, SolveRetryable, Retry, ReturnErr
    <3>2. UNCHANGED <<st, ctxDone, ready, errChan, fwd, fail>>
      BY <1>5 DEF SolveRetryable, chans, gors
    <3> QED BY <2>0, <3>1, <3>2, StopFacts DEF IInv, TypeOK
  <2>2. Support'
    BY ZenonT(60), <1>5, <2>0, StopFacts DEF IInv, TypeOK, Support, ActiveForwardIsOpen, SolveRetryable, Retry, ReturnErr,
       chans, gors
  <2>3. ActiveForwardIsOpen' /\ CancelNeverClosesTwice'
    BY <1>5, <2>0, StopFacts DEF IInv, TypeOK, Support, ActiveForwardIsOpen,
       CancelNeverClosesTwice, SolveRetryable, Retry, ReturnErr,
       chans, gors
  <2>4. NoOrphanForward'
    BY <1>5, <2>0, StopFacts DEF IInv, TypeOK, Support, NoOrphanForward, SolveRetryable, Retry, ReturnErr,
       chans, gors
  <2> QED BY <2>1, <2>2, <2>3, <2>4 DEF IInv
<1>6. CASE SolveFails
  BY <1>6 DEF IInv, TypeOK, Support, ActiveForwardIsOpen, NoOrphanForward,
     CancelNeverClosesTwice, SolveFails, ReturnErr, conn, chans, gors
<1>7. CASE CheckIfImageIsPushed
  BY <1>7 DEF IInv, TypeOK, Support, ActiveForwardIsOpen, NoOrphanForward,
     CancelNeverClosesTwice, CheckIfImageIsPushed, Retry, ReturnErr, conn, chans, gors
<1>8. CASE DeferredStop
  <2>0. Stop
    BY <1>8 DEF DeferredStop
  <2>1. TypeOK'
    <3>1. phase' \in Phases /\ UNCHANGED <<attempts, builds, result>>
      BY <1>8 DEF DeferredStop
    <3>2. UNCHANGED <<st, ctxDone, ready, errChan, fwd, fail>>
      BY <1>8 DEF DeferredStop, chans, gors
    <3> QED BY <2>0, <3>1, <3>2, StopFacts DEF IInv, TypeOK
  <2>2. Support'
    <3>1. phase' = "done" /\ UNCHANGED <<st, ready, errChan, fwd>>
      BY <1>8 DEF DeferredStop, chans, gors
    <3>2. st = "out" /\ ~isActive' /\ cur' = cur
          /\ \A a \in Forwards : a > cur => ~stopClosed'[a]
      BY <2>0, StopFacts
    <3> QED BY <3>1, <3>2 DEF IInv, Support
  <2>3. ActiveForwardIsOpen' /\ CancelNeverClosesTwice'
    BY <1>8, <2>0, StopFacts DEF IInv, TypeOK, Support, ActiveForwardIsOpen,
       CancelNeverClosesTwice, DeferredStop, chans, gors
  <2>4. NoOrphanForward'
    BY ZenonT(60), <1>8, <2>0, StopFacts DEF IInv, TypeOK, Support, NoOrphanForward, DeferredStop, chans, gors
  <2> QED BY <2>1, <2>2, <2>3, <2>4 DEF IInv
<1>9. CASE NextBuild
  BY <1>9 DEF IInv, TypeOK, Support, ActiveForwardIsOpen, NoOrphanForward,
     CancelNeverClosesTwice, NextBuild, conn, chans, gors
<1> QED BY <1>1, <1>2, <1>3, <1>4, <1>5, <1>6, <1>7, <1>8, <1>9

\* Every step of a forward goroutine, of any attempt, keeps the invariant.
LEMMA ForwardIInv ==
  ASSUME IInv, NEW a \in Forwards, Handler(a) \/ ForwardPorts(a)
  PROVE  IInv'
<1> USE DEF StartPhases, Phases, Forwards, Errors, Running
<1>1. CASE ForwardListens(a)
  BY <1>1 DEF IInv, TypeOK, Support, ActiveForwardIsOpen, NoOrphanForward,
     CancelNeverClosesTwice, ForwardListens, runner, conn
<1>2. CASE ForwardFails(a)
  BY <1>2 DEF IInv, TypeOK, Support, ActiveForwardIsOpen, NoOrphanForward,
     CancelNeverClosesTwice, ForwardFails, runner, conn, chans
<1>3. CASE ForwardStopped(a)
  BY <1>3 DEF IInv, TypeOK, Support, ActiveForwardIsOpen, NoOrphanForward,
     CancelNeverClosesTwice, ForwardStopped, runner, conn, chans
<1>4. CASE HandlerSends(a)
  BY <1>4 DEF IInv, TypeOK, Support, ActiveForwardIsOpen, NoOrphanForward,
     CancelNeverClosesTwice, HandlerSends, runner, conn
<1>5. CASE HandlerClearsPod(a)
  <2>1. TypeOK'
    BY <1>5 DEF IInv, TypeOK, Support, HandlerClearsPod, Unlocked,
       runner, chans
  <2>2. Support'
    BY <1>5 DEF IInv, TypeOK, Support, ActiveForwardIsOpen, HandlerClearsPod, Unlocked,
       runner, chans
  <2>3. ActiveForwardIsOpen' /\ CancelNeverClosesTwice'
    BY <1>5 DEF IInv, TypeOK, Support, ActiveForwardIsOpen,
       CancelNeverClosesTwice, HandlerClearsPod, Unlocked,
       runner, chans
  <2>4. NoOrphanForward'
    BY <1>5 DEF IInv, TypeOK, Support, NoOrphanForward, HandlerClearsPod, Unlocked,
       runner, chans
  <2> QED BY <2>1, <2>2, <2>3, <2>4 DEF IInv
<1>6. CASE HandlerStops(a)
  <2>0. Stop
    BY <1>6 DEF HandlerStops
  <2>1. TypeOK'
    BY <1>6, <2>0, StopFacts DEF IInv, TypeOK, Support, HandlerStops, runner, chans
  <2>2. Support'
    BY ZenonT(60), <1>6, <2>0, StopFacts DEF IInv, TypeOK, Support, ActiveForwardIsOpen, HandlerStops, runner, chans
  <2>3. ActiveForwardIsOpen' /\ CancelNeverClosesTwice'
    BY <1>6, <2>0, StopFacts DEF IInv, TypeOK, Support, ActiveForwardIsOpen,
       CancelNeverClosesTwice, HandlerStops, runner, chans
  <2>4. NoOrphanForward'
    BY <1>6, <2>0, StopFacts DEF IInv, TypeOK, Support, NoOrphanForward, HandlerStops, runner, chans
  <2> QED BY <2>1, <2>2, <2>3, <2>4 DEF IInv
<1> QED BY <1>1, <1>2, <1>3, <1>4, <1>5, <1>6 DEF Handler, ForwardPorts

\* The strengthened invariant holds in every reachable state, for any bounds.
THEOREM Invariance == Spec => []IInv
<1>1. IInv /\ [Next]_vars => IInv'
  <2> SUFFICES ASSUME IInv, [Next]_vars PROVE IInv'
    OBVIOUS
  <2>1. CASE RunnerStep
    BY <2>1, StartIInv, RunIInv DEF RunnerStep
  <2>2. CASE Cancel
    BY <2>2 DEF Cancel, IInv, TypeOK, Support, ActiveForwardIsOpen, NoOrphanForward,
       CancelNeverClosesTwice, Running, runner, conn, chans, gors
  <2>3. CASE \E a \in Forwards : Handler(a) \/ ForwardPorts(a)
    BY <2>3, ForwardIInv
  <2>4. CASE UNCHANGED vars
    BY <2>4 DEF vars, IInv, TypeOK, Support, ActiveForwardIsOpen, NoOrphanForward,
       CancelNeverClosesTwice, Running, runner, conn, chans, gors
  <2> QED BY <2>1, <2>2, <2>3, <2>4 DEF Next
<1> QED BY InitIInv, <1>1, PTL DEF Spec

\* The state is always well typed; in particular Run makes at most MaxAttempts
\* attempts.
THEOREM TypeCorrect == Spec => []TypeOK
  BY Invariance, PTL DEF IInv

\* No failure of a forward reaches the channel of another attempt, and no send
\* of a handler blocks.
THEOREM ErrorsAreBound == Spec => []ErrorsStayWithTheirAttempt
<1>1. IInv => ErrorsStayWithTheirAttempt
  BY DEF IInv, Support, ErrorsStayWithTheirAttempt
<1> QED BY <1>1, Invariance, PTL

\* An active connector holds an open forward.
THEOREM ActiveIsOpen == Spec => []ActiveForwardIsOpen
  BY Invariance, PTL DEF IInv

\* No forward is lost while it runs.
THEOREM NothingOrphaned == Spec => []NoOrphanForward
  BY Invariance, PTL DEF IInv

\* close(pf.stopChan) in the cancelled wait never closes a closed channel.
THEOREM CloseOnce == Spec => []CancelNeverClosesTwice
  BY Invariance, PTL DEF IInv

\* When Run has returned every forward was told to stop or is over.
THEOREM RunIsClean == Spec => []RunLeavesNothingOpen
<1>1. IInv => RunLeavesNothingOpen
  BY DEF IInv, Support, NoOrphanForward, RunLeavesNothingOpen, StartPhases
<1> QED BY <1>1, Invariance, PTL

\* The four together, which the run checks: an active connector holds an open
\* forward, none is orphaned and none is closed twice (portforward.go:130-400).
THEOREM ForwardsStaySound == Spec => []ForwardsAreSound
<1>1. TypeOK /\ ActiveForwardIsOpen /\ NoOrphanForward /\ CancelNeverClosesTwice => ForwardsAreSound
  BY DEF ForwardsAreSound
<1> QED
  BY <1>1, TypeCorrect, ActiveIsOpen, NothingOrphaned, CloseOnce, PTL

-----------------------------------------------------------------------------
(* The forwards to the development container                                 *)

\* The new manager satisfies the invariant.
LEMMA InitEstablishes == K8sInit => K8sIInv
<1> SUFFICES ASSUME K8sInit PROVE K8sIInv
  OBVIOUS
<1> USE BoundAssumption DEF BoundAssumption, K8sInit, Starts, Stoppers, None
<1>1. stopChan \in [Starts -> BOOLEAN] /\ err \in [Starts -> BOOLEAN]
      /\ stopped \in BOOLEAN /\ remote \in BOOLEAN
  OBVIOUS
<1>2. K8sTypeOK
  BY <1>1 DEF K8sTypeOK, LoopStates, FwdStates, SvcStates, StopStates
<1>3. K8sSupport
  BY DEF K8sSupport, BeforeInterrupt, SinceInterrupt
<1> QED
  BY <1>2, <1>3 DEF K8sIInv

\* Every step of the loop and of the goroutines preserves it.
LEMMA StepPreserves == K8sIInv /\ [K8sNext]_k8sVars => K8sIInv'
<1> SUFFICES ASSUME K8sIInv, [K8sNext]_k8sVars PROVE K8sIInv'
  OBVIOUS
<1>t. K8sTypeOK
  BY DEF K8sIInv
<1>s. K8sSupport
  BY DEF K8sIInv
<1> USE BoundAssumption DEF BoundAssumption, Starts, Stoppers, None, LoopStates, FwdStates, SvcStates, StopStates
<1>1. CASE StartReset
  <2>1. K8sTypeOK'
    BY <1>t, <1>1 DEF K8sTypeOK, StartReset, stopVars, Alive
  <2>2. K8sSupport'
    BY <1>t, <1>s, <1>1 DEF K8sTypeOK, K8sSupport, BeforeInterrupt, SinceInterrupt, Interrupted, StartReset, stopVars, Alive
  <2> QED
    BY <2>1, <2>2 DEF K8sIInv
<1>2. CASE BuildFails
  <2>1. K8sTypeOK'
    BY <1>t, <1>2 DEF K8sTypeOK, BuildFails, stopVars, Alive
  <2>2. K8sSupport'
    BY <1>t, <1>s, <1>2 DEF K8sTypeOK, K8sSupport, BeforeInterrupt, SinceInterrupt, Interrupted, BuildFails, stopVars, Alive
  <2> QED
    BY <2>1, <2>2 DEF K8sIInv
<1>3. CASE StartLaunch
  <2>1. K8sTypeOK'
    BY <1>t, <1>3 DEF K8sTypeOK, StartLaunch, stopVars, Alive
  <2>2. K8sSupport'
    BY <1>t, <1>s, <1>3 DEF K8sTypeOK, K8sSupport, BeforeInterrupt, SinceInterrupt, Interrupted, StartLaunch, stopVars, Alive
  <2> QED
    BY <2>1, <2>2 DEF K8sIInv
<1>4. CASE StartRead
  <2>1. K8sTypeOK'
    BY <1>t, <1>4 DEF K8sTypeOK, StartRead, stopVars, Alive
  <2>2. K8sSupport'
    BY <1>t, <1>s, <1>4 DEF K8sTypeOK, K8sSupport, BeforeInterrupt, SinceInterrupt, Interrupted, StartRead, stopVars, Alive
  <2> QED
    BY <2>1, <2>2 DEF K8sIInv
<1>5. CASE StartReady
  <2>1. K8sTypeOK'
    BY <1>t, <1>5 DEF K8sTypeOK, StartReady, stopVars, Alive
  <2>2. K8sSupport'
    BY <1>t, <1>s, <1>5 DEF K8sTypeOK, K8sSupport, BeforeInterrupt, SinceInterrupt, Interrupted, StartReady, stopVars, Alive
  <2> QED
    BY <2>1, <2>2 DEF K8sIInv
<1>6. CASE StartResult
  <2>1. K8sTypeOK'
    BY <1>t, <1>6 DEF K8sTypeOK, StartResult, stopVars, Alive
  <2>2. K8sSupport'
    BY <1>t, <1>s, <1>6 DEF K8sTypeOK, K8sSupport, BeforeInterrupt, SinceInterrupt, Interrupted, StartResult, stopVars, Alive
  <2> QED
    BY <2>1, <2>2 DEF K8sIInv
<1>7. CASE PoolConnects
  <2>1. K8sTypeOK'
    BY <1>t, <1>7 DEF K8sTypeOK, PoolConnects, stopVars, Alive
  <2>2. K8sSupport'
    BY <1>t, <1>s, <1>7 DEF K8sTypeOK, K8sSupport, BeforeInterrupt, SinceInterrupt, Interrupted, PoolConnects, stopVars, Alive
  <2> QED
    BY <2>1, <2>2 DEF K8sIInv
<1>8. CASE PoolFails
  <2>1. K8sTypeOK'
    BY <1>t, <1>8 DEF K8sTypeOK, PoolFails, stopVars, Alive
  <2>2. K8sSupport'
    BY <1>t, <1>s, <1>8 DEF K8sTypeOK, K8sSupport, BeforeInterrupt, SinceInterrupt, Interrupted, PoolFails, stopVars, Alive
  <2> QED
    BY <2>1, <2>2 DEF K8sIInv
<1>9. CASE ManagerStop
  <2>1. K8sTypeOK'
    BY <1>t, <1>9 DEF K8sTypeOK, ManagerStop, stopVars, Alive, Interrupted
  <2>2. K8sSupport'
    BY <1>t, <1>s, <1>9 DEF K8sTypeOK, K8sSupport, BeforeInterrupt, SinceInterrupt, Interrupted, ManagerStop, stopVars, Alive
  <2> QED
    BY <2>1, <2>2 DEF K8sIInv
<1>10. CASE Interrupt
  <2>1. K8sTypeOK'
    BY <1>t, <1>10 DEF K8sTypeOK, Interrupt, stopVars, Alive
  <2>2. K8sSupport'
    BY <1>t, <1>s, <1>10 DEF K8sTypeOK, K8sSupport, BeforeInterrupt, SinceInterrupt, Interrupted, Interrupt, stopVars, Alive
  <2> QED
    BY <2>1, <2>2 DEF K8sIInv
<1>11. CASE ServiceTest
  <2>1. K8sTypeOK'
    BY <1>t, <1>11 DEF K8sTypeOK, ServiceTest, stopVars, Alive
  <2>2. K8sSupport'
    BY <1>t, <1>s, <1>11 DEF K8sTypeOK, K8sSupport, BeforeInterrupt, SinceInterrupt, Interrupted, ServiceTest, stopVars, Alive
  <2> QED
    BY <2>1, <2>2 DEF K8sIInv
<1>12. CASE ServiceBuildFails
  <2>1. K8sTypeOK'
    BY <1>t, <1>12 DEF K8sTypeOK, ServiceBuildFails, stopVars, Alive
  <2>2. K8sSupport'
    BY <1>t, <1>s, <1>12 DEF K8sTypeOK, K8sSupport, BeforeInterrupt, SinceInterrupt, Interrupted, ServiceBuildFails, stopVars, Alive
  <2> QED
    BY <2>1, <2>2 DEF K8sIInv
<1>13. CASE ServiceListens
  <2>1. K8sTypeOK'
    BY <1>t, <1>13 DEF K8sTypeOK, ServiceListens, stopVars, Alive
  <2>2. K8sSupport'
    BY <1>t, <1>s, <1>13 DEF K8sTypeOK, K8sSupport, BeforeInterrupt, SinceInterrupt, Interrupted, ServiceListens, stopVars, Alive
  <2> QED
    BY <2>1, <2>2 DEF K8sIInv
<1>14. CASE ServiceLost
  <2>1. K8sTypeOK'
    BY <1>t, <1>14 DEF K8sTypeOK, ServiceLost, stopVars, Alive
  <2>2. K8sSupport'
    BY <1>t, <1>s, <1>14 DEF K8sTypeOK, K8sSupport, BeforeInterrupt, SinceInterrupt, Interrupted, ServiceLost, stopVars, Alive
  <2> QED
    BY <2>1, <2>2 DEF K8sIInv
<1>15. ASSUME NEW s \in Stoppers, StopReads(s) PROVE K8sIInv'
  <2>1. K8sTypeOK'
    BY <1>t, <1>15 DEF K8sTypeOK, StopReads, stopVars, Alive
  <2>2. K8sSupport'
    BY <1>t, <1>s, <1>15 DEF K8sTypeOK, K8sSupport, BeforeInterrupt, SinceInterrupt, Interrupted, StopReads, stopVars, Alive
  <2> QED
    BY <2>1, <2>2 DEF K8sIInv
<1>16. ASSUME NEW s \in Stoppers, StopCloses(s) PROVE K8sIInv'
  <2>1. K8sTypeOK'
    BY <1>t, <1>16 DEF K8sTypeOK, StopCloses, stopVars, Alive
  <2>2. K8sSupport'
    <3>1. /\ stopOf[s] \in 1 .. MaxStarts /\ stopAt' = [stopAt EXCEPT ![s] = "clear"]
          /\ stopChan'[stopOf[s]] /\ \A a \in Starts : stopChan[a] => stopChan'[a]
          /\ UNCHANGED <<n, activeDev, forward, stopOf, made>>
          /\ loop' # "panic" => loop' = loop
      BY <1>t, <1>s, <1>16 DEF K8sTypeOK, K8sSupport, StopCloses
    <3>2. CASE s = "loop"
      BY <1>t, <1>s, <1>16, <3>1, <3>2 DEF K8sTypeOK, K8sSupport, BeforeInterrupt, SinceInterrupt, Interrupted, Alive, StopCloses
    <3>3. CASE s = "main"
      BY <1>t, <1>s, <1>16, <3>1, <3>3 DEF K8sTypeOK, K8sSupport, SinceInterrupt, Interrupted, Alive, StopCloses
    <3> QED
      BY <3>2, <3>3
  <2> QED
    BY <2>1, <2>2 DEF K8sIInv
<1>17. ASSUME NEW s \in Stoppers, StopClears(s) PROVE K8sIInv'
  <2>1. K8sTypeOK'
    BY <1>t, <1>17 DEF K8sTypeOK, StopClears, stopVars, Alive
  <2>2. K8sSupport'
    BY <1>t, <1>s, <1>17 DEF K8sTypeOK, K8sSupport, BeforeInterrupt, SinceInterrupt, Interrupted, StopClears, stopVars, Alive
  <2> QED
    BY <2>1, <2>2 DEF K8sIInv
<1>18. ASSUME NEW b \in Starts, PortsReady(b) PROVE K8sIInv'
  <2>1. K8sTypeOK'
    BY <1>t, <1>18 DEF K8sTypeOK, PortsReady, stopVars, Alive
  <2>2. K8sSupport'
    BY <1>t, <1>s, <1>18 DEF K8sTypeOK, K8sSupport, BeforeInterrupt, SinceInterrupt, Interrupted, PortsReady, stopVars, Alive
  <2> QED
    BY <2>1, <2>2 DEF K8sIInv
<1>19. ASSUME NEW b \in Starts, PortsFail(b) PROVE K8sIInv'
  <2>1. K8sTypeOK'
    BY <1>t, <1>19 DEF K8sTypeOK, PortsFail, stopVars, Alive
  <2>2. K8sSupport'
    BY <1>t, <1>s, <1>19 DEF K8sTypeOK, K8sSupport, BeforeInterrupt, SinceInterrupt, Interrupted, PortsFail, stopVars, Alive
  <2> QED
    BY <2>1, <2>2 DEF K8sIInv
<1>20. ASSUME NEW b \in Starts, PortsLost(b) PROVE K8sIInv'
  <2>1. K8sTypeOK'
    BY <1>t, <1>20 DEF K8sTypeOK, PortsLost, stopVars, Alive
  <2>2. K8sSupport'
    BY <1>t, <1>s, <1>20 DEF K8sTypeOK, K8sSupport, BeforeInterrupt, SinceInterrupt, Interrupted, PortsLost, stopVars, Alive
  <2> QED
    BY <2>1, <2>2 DEF K8sIInv
<1>21. ASSUME NEW b \in Starts, PortsStop(b) PROVE K8sIInv'
  <2>1. K8sTypeOK'
    BY <1>t, <1>21 DEF K8sTypeOK, PortsStop, stopVars, Alive
  <2>2. K8sSupport'
    BY <1>t, <1>s, <1>21 DEF K8sTypeOK, K8sSupport, BeforeInterrupt, SinceInterrupt, Interrupted, PortsStop, stopVars, Alive
  <2> QED
    BY <2>1, <2>2 DEF K8sIInv
<1>22. ASSUME NEW b \in Starts, ErrorSeen(b) PROVE K8sIInv'
  <2>1. K8sTypeOK'
    BY <1>t, <1>22 DEF K8sTypeOK, ErrorSeen, stopVars, Alive
  <2>2. K8sSupport'
    BY <1>t, <1>s, <1>22 DEF K8sTypeOK, K8sSupport, BeforeInterrupt, SinceInterrupt, Interrupted, ErrorSeen, stopVars, Alive
  <2> QED
    BY <2>1, <2>2 DEF K8sIInv
<1>23. ASSUME NEW b \in Starts, CloseReady(b) PROVE K8sIInv'
  <2>1. K8sTypeOK'
    BY <1>t, <1>23 DEF K8sTypeOK, CloseReady, stopVars, Alive
  <2>2. K8sSupport'
    BY <1>t, <1>s, <1>23 DEF K8sTypeOK, K8sSupport, BeforeInterrupt, SinceInterrupt, Interrupted, CloseReady, stopVars, Alive
  <2> QED
    BY <2>1, <2>2 DEF K8sIInv
<1>24. ASSUME NEW b \in Starts, SetErr(b) PROVE K8sIInv'
  <2>1. K8sTypeOK'
    BY <1>t, <1>24 DEF K8sTypeOK, SetErr, stopVars, Alive
  <2>2. K8sSupport'
    BY <1>t, <1>s, <1>24 DEF K8sTypeOK, K8sSupport, BeforeInterrupt, SinceInterrupt, Interrupted, SetErr, stopVars, Alive
  <2> QED
    BY <2>1, <2>2 DEF K8sIInv
<1>25. CASE UNCHANGED k8sVars
  BY <1>t, <1>s, <1>25 DEF K8sIInv, K8sTypeOK, K8sSupport, BeforeInterrupt, SinceInterrupt, Interrupted, Alive, k8sVars, stopVars
<1> QED
  BY <1>1, <1>2, <1>3, <1>4, <1>5, <1>6, <1>7, <1>8, <1>9, <1>10, <1>11, <1>12,
     <1>13, <1>14, <1>15, <1>16, <1>17, <1>18, <1>19, <1>20, <1>21, <1>22, <1>23, <1>24, <1>25
     DEF K8sNext, LoopStep, StopForward, Ports, ErrorPath, Service

\* The inductive invariant holds in every reachable state.
THEOREM ForwardInvariance == K8sSpec => []K8sIInv
<1>1. K8sInit => K8sIInv
  BY InitEstablishes
<1>2. K8sIInv /\ [K8sNext]_k8sVars => K8sIInv'
  BY StepPreserves
<1> QED
  BY <1>1, <1>2, PTL DEF K8sSpec

\* The manager's fields keep their types, and the active forward is that of the last
\* start or none (forward/manager.go:133-182).
THEOREM ForwardTypes == K8sSpec => []K8sTypeOK
<1>1. K8sIInv => K8sTypeOK
  BY DEF K8sIInv
<1> QED
  BY <1>1, ForwardInvariance, PTL

\* Every forward that was given up or whose session ended was told to stop, unless an
\* interrupt stops the manager at the same time, and the Stop of an interrupt tells
\* every forward that was there when it began, for any number of starts
\* (ssh/manager.go:125-199, forward/manager.go:170-182).
THEOREM NoForwardLeaks == K8sSpec => []ForwardsAreStopped
<1>1. K8sIInv => ForwardsAreStopped
  BY BoundAssumption DEF BoundAssumption, K8sIInv, K8sTypeOK, K8sSupport, BeforeInterrupt,
     SinceInterrupt, Interrupted, ForwardsAreStopped, Starts, None
<1> QED
  BY <1>1, ForwardInvariance, PTL
=============================================================================
