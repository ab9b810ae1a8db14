------------------------- MODULE Deployments_proofs ------------------------
(***************************************************************************)
(* What the commands that wait for the backend report, for each of them,   *)
(* and what a deployment of a compose file reports and leaves alone, for   *)
(* any compose file and any cluster it finds.                              *)
(*                                                                         *)
(* WaitCommands: a result is true because the goroutine that sends it has  *)
(* read it from the backend (AnswersAreTrue, MainIsFirst), and a channel   *)
(* is used after its end only behind an interrupt, because of who closes   *)
(* it and when (ClosedLast).                                               *)
(* StackDeploy: a job of the list of deployed services was created by this *)
(* command and keeps its pod (JobsAreNew), so that a job that was seen to  *)
(* succeed is the one that was asked for (NextIsReady, DeployedInOrder);   *)
(* the services exist until the clean-up, which meets only workloads that  *)
(* were there before (ServicesStand, OtherKindsStay); and success is the   *)
(* last thing that the goroutine says (StackPhases).                       *)
(***************************************************************************)
EXTENDS WaitCommands, StackDeploy, FiniteSetTheorems, TLAPS

-----------------------------------------------------------------------------
(* Commands that wait for the backend                                        *)

\* A command that starts satisfies the invariant.
LEMMA WaitStart == WaitInit => WaitIInv
<1> SUFFICES ASSUME WaitInit PROVE WaitIInv
  OBVIOUS
<1>1. WaitTypeOK
  BY DEF WaitInit, WaitTypeOK, WaitFlags, WaitFields
<1>2. SuccessMeansDone /\ InterruptIsReal /\ PanicNeedsInterrupt
  BY DEF WaitInit, SuccessMeansDone, InterruptIsReal, PanicNeedsInterrupt
<1>3. AnswersAreTrue /\ MainIsFirst /\ ClosedLast
  BY DEF WaitInit, AnswersAreTrue, MainIsFirst, ClosedLast
<1> QED
  BY <1>1, <1>2, <1>3 DEF WaitIInv, WaitsTellTheTruth

\* Every step of the command, of its goroutines, of the cluster and of the user
\* preserves it.
LEMMA WaitStep == WaitIInv /\ [WaitNext]_waitVars => WaitIInv'
<1> SUFFICES ASSUME WaitIInv, [WaitNext]_waitVars PROVE WaitIInv'
  OBVIOUS
<1>b. WaitFlags
  BY DEF WaitIInv, WaitsTellTheTruth, WaitTypeOK
<1>f. WaitFields
  BY DEF WaitIInv, WaitsTellTheTruth, WaitTypeOK
<1>s. SuccessMeansDone
  BY DEF WaitIInv, WaitsTellTheTruth, WaitTypeOK
<1>i. InterruptIsReal
  BY DEF WaitIInv, WaitsTellTheTruth, WaitTypeOK
<1>n. PanicNeedsInterrupt
  BY DEF WaitIInv, WaitsTellTheTruth, WaitTypeOK
<1>a. AnswersAreTrue
  BY DEF WaitIInv, WaitsTellTheTruth, WaitTypeOK
<1>m. MainIsFirst
  BY DEF WaitIInv, WaitsTellTheTruth, WaitTypeOK
<1>c. ClosedLast
  BY DEF WaitIInv, WaitsTellTheTruth, WaitTypeOK
<1>1. CASE SkipIfExists
  <2>1. WaitFlags'
    BY <1>b, <1>1 DEF WaitFlags, SkipIfExists, Running, Finish
  <2>2. WaitFields'
    BY <1>f, <1>c, <1>1 DEF WaitFields, SkipIfExists, Running, Finish
  <2>3. SuccessMeansDone'
    BY <1>s, <1>a, <1>m, <1>f, <1>1 DEF SuccessMeansDone, AnswersAreTrue, EndedWell,
       MainIsFirst, WaitFields, SkipIfExists, Running, Finish
  <2>4. InterruptIsReal'
    BY <1>i, <1>c, <1>f, <1>1 DEF InterruptIsReal, ClosedLast, SkipIfExists, Running, Finish
  <2>5. PanicNeedsInterrupt'
    BY <1>n, <1>c, <1>f, <1>1 DEF PanicNeedsInterrupt, ClosedLast, SkipIfExists, Running,
       Finish
  <2>6. AnswersAreTrue'
    BY <1>a, <1>m, <1>f, <1>b, <1>1 DEF AnswersAreTrue, EndedWell, MainIsFirst, WaitFields,
       WaitFlags, SkipIfExists, Running, Finish
  <2>7. MainIsFirst'
    BY <1>m, <1>f, <1>a, <1>1 DEF MainIsFirst, WaitFields, AnswersAreTrue, SkipIfExists,
       Running, Finish
  <2>8. ClosedLast'
    BY <1>c, <1>f, <1>1 DEF ClosedLast, WaitFields, SkipIfExists, Running, Finish
  <2> QED
    BY <2>1, <2>2, <2>3, <2>4, <2>5, <2>6, <2>7, <2>8 DEF WaitIInv, WaitsTellTheTruth,
       WaitTypeOK
<1>2. CASE WaitForStatus
  <2>1. WaitFlags'
    BY <1>b, <1>2 DEF WaitFlags, WaitForStatus, Running, Finish
  <2>2. WaitFields'
    BY <1>f, <1>c, <1>2 DEF WaitFields, WaitForStatus, Running, Finish
  <2>3. SuccessMeansDone'
    BY <1>s, <1>a, <1>m, <1>f, <1>2 DEF SuccessMeansDone, AnswersAreTrue, EndedWell,
       MainIsFirst, WaitFields, WaitForStatus, Running, Finish
  <2>4. InterruptIsReal'
    BY <1>i, <1>c, <1>f, <1>2 DEF InterruptIsReal, ClosedLast, WaitForStatus, Running,
       Finish
  <2>5. PanicNeedsInterrupt'
    BY <1>n, <1>c, <1>f, <1>2 DEF PanicNeedsInterrupt, ClosedLast, WaitForStatus, Running,
       Finish
  <2>6. AnswersAreTrue'
    BY <1>a, <1>m, <1>f, <1>b, <1>2 DEF AnswersAreTrue, EndedWell, MainIsFirst, WaitFields,
       WaitFlags, WaitForStatus, Running, Finish
  <2>7. MainIsFirst'
    BY <1>m, <1>f, <1>a, <1>2 DEF MainIsFirst, WaitFields, AnswersAreTrue, WaitForStatus,
       Running, Finish
  <2>8. ClosedLast'
    BY <1>c, <1>f, <1>2 DEF ClosedLast, WaitFields, WaitForStatus, Running, Finish
  <2> QED
    BY <2>1, <2>2, <2>3, <2>4, <2>5, <2>6, <2>7, <2>8 DEF WaitIInv, WaitsTellTheTruth,
       WaitTypeOK
<1>3. CASE Request
  <2>1. WaitFlags'
    BY <1>b, <1>3 DEF WaitFlags, Request, Running, Finish, StartWaiting
  <2>2. WaitFields'
    BY <1>f, <1>c, <1>3 DEF WaitFields, Request, Running, Finish, StartWaiting
  <2>3. SuccessMeansDone'
    BY <1>s, <1>a, <1>m, <1>f, <1>3 DEF SuccessMeansDone, AnswersAreTrue, EndedWell,
       MainIsFirst, WaitFields, Request, Running, Finish, StartWaiting
  <2>4. InterruptIsReal'
    BY <1>i, <1>c, <1>f, <1>3 DEF InterruptIsReal, ClosedLast, Request, Running, Finish,
       StartWaiting
  <2>5. PanicNeedsInterrupt'
    BY <1>n, <1>c, <1>f, <1>3 DEF PanicNeedsInterrupt, ClosedLast, Request, Running, Finish,
       StartWaiting
  <2>6. AnswersAreTrue'
    BY <1>a, <1>m, <1>f, <1>b, <1>3 DEF AnswersAreTrue, EndedWell, MainIsFirst, WaitFields,
       WaitFlags, Request, Running, Finish, StartWaiting
  <2>7. MainIsFirst'
    BY <1>m, <1>f, <1>a, <1>3 DEF MainIsFirst, WaitFields, AnswersAreTrue, Request, Running,
       Finish, StartWaiting
  <2>8. ClosedLast'
    BY <1>c, <1>f, <1>3 DEF ClosedLast, WaitFields, Request, Running, Finish, StartWaiting
  <2> QED
    BY <2>1, <2>2, <2>3, <2>4, <2>5, <2>6, <2>7, <2>8 DEF WaitIInv, WaitsTellTheTruth,
       WaitTypeOK
<1>4. CASE RequestDestroy
  <2>1. WaitFlags'
    BY <1>b, <1>4 DEF WaitFlags, RequestDestroy, Running, Finish, StartWaiting
  <2>2. WaitFields'
    BY <1>f, <1>c, <1>4 DEF WaitFields, RequestDestroy, Running, Finish, StartWaiting
  <2>3. SuccessMeansDone'
    BY <1>s, <1>a, <1>m, <1>f, <1>4 DEF SuccessMeansDone, AnswersAreTrue, EndedWell,
       MainIsFirst, WaitFields, RequestDestroy, Running, Finish, StartWaiting
  <2>4. InterruptIsReal'
    BY <1>i, <1>c, <1>f, <1>4 DEF InterruptIsReal, ClosedLast, RequestDestroy, Running,
       Finish, StartWaiting
  <2>5. PanicNeedsInterrupt'
    BY <1>n, <1>c, <1>f, <1>4 DEF PanicNeedsInterrupt, ClosedLast, RequestDestroy, Running,
       Finish, StartWaiting
  <2>6. AnswersAreTrue'
    BY <1>a, <1>m, <1>f, <1>b, <1>4 DEF AnswersAreTrue, EndedWell, MainIsFirst, WaitFields,
       WaitFlags, RequestDestroy, Running, Finish, StartWaiting
  <2>7. MainIsFirst'
    BY <1>m, <1>f, <1>a, <1>4 DEF MainIsFirst, WaitFields, AnswersAreTrue, RequestDestroy,
       Running, Finish, StartWaiting
  <2>8. ClosedLast'
    BY <1>c, <1>f, <1>4 DEF ClosedLast, WaitFields, RequestDestroy, Running, Finish,
       StartWaiting
  <2> QED
    BY <2>1, <2>2, <2>3, <2>4, <2>5, <2>6, <2>7, <2>8 DEF WaitIInv, WaitsTellTheTruth,
       WaitTypeOK
<1>5. CASE Operation
  <2>1. WaitFlags'
    BY <1>b, <1>5 DEF WaitFlags, Operation
  <2>2. WaitFields'
    BY <1>f, <1>c, <1>5 DEF WaitFields, Operation
  <2>3. SuccessMeansDone'
    BY <1>s, <1>a, <1>m, <1>f, <1>5 DEF SuccessMeansDone, AnswersAreTrue, EndedWell,
       MainIsFirst, WaitFields, Operation
  <2>4. InterruptIsReal'
    BY <1>i, <1>c, <1>f, <1>5 DEF InterruptIsReal, ClosedLast, Operation
  <2>5. PanicNeedsInterrupt'
    BY <1>n, <1>c, <1>f, <1>5 DEF PanicNeedsInterrupt, ClosedLast, Operation
  <2>6. AnswersAreTrue'
    BY <1>a, <1>m, <1>f, <1>b, <1>5 DEF AnswersAreTrue, EndedWell, MainIsFirst, WaitFields,
       WaitFlags, Operation
  <2>7. MainIsFirst'
    BY <1>m, <1>f, <1>a, <1>5 DEF MainIsFirst, WaitFields, AnswersAreTrue, Operation
  <2>8. ClosedLast'
    BY <1>c, <1>f, <1>5 DEF ClosedLast, WaitFields, Operation
  <2> QED
    BY <2>1, <2>2, <2>3, <2>4, <2>5, <2>6, <2>7, <2>8 DEF WaitIInv, WaitsTellTheTruth,
       WaitTypeOK
<1>6. CASE PressInterrupt
  <2>1. WaitFlags'
    BY <1>b, <1>6 DEF WaitFlags, PressInterrupt, Running
  <2>2. WaitFields'
    BY <1>f, <1>c, <1>6 DEF WaitFields, PressInterrupt, Running
  <2>3. SuccessMeansDone'
    BY <1>s, <1>a, <1>m, <1>f, <1>6 DEF SuccessMeansDone, AnswersAreTrue, EndedWell,
       MainIsFirst, WaitFields, PressInterrupt, Running
  <2>4. InterruptIsReal'
    BY <1>i, <1>c, <1>f, <1>6 DEF InterruptIsReal, ClosedLast, PressInterrupt, Running
  <2>5. PanicNeedsInterrupt'
    BY <1>n, <1>c, <1>f, <1>6 DEF PanicNeedsInterrupt, ClosedLast, PressInterrupt, Running
  <2>6. AnswersAreTrue'
    BY <1>a, <1>m, <1>f, <1>b, <1>6 DEF AnswersAreTrue, EndedWell, MainIsFirst, WaitFields,
       WaitFlags, PressInterrupt, Running
  <2>7. MainIsFirst'
    BY <1>m, <1>f, <1>a, <1>6 DEF MainIsFirst, WaitFields, AnswersAreTrue, PressInterrupt,
       Running
  <2>8. ClosedLast'
    BY <1>c, <1>f, <1>6 DEF ClosedLast, WaitFields, PressInterrupt, Running
  <2> QED
    BY <2>1, <2>2, <2>3, <2>4, <2>5, <2>6, <2>7, <2>8 DEF WaitIInv, WaitsTellTheTruth,
       WaitTypeOK
<1>7. CASE WaitForActionToFinish
  <2>1. WaitFlags'
    BY <1>b, <1>7 DEF WaitFlags, WaitForActionToFinish, Running, Answer
  <2>2. WaitFields'
    BY <1>f, <1>c, <1>7 DEF WaitFields, WaitForActionToFinish, Running, Answer
  <2>3. SuccessMeansDone'
    BY <1>s, <1>a, <1>m, <1>f, <1>7 DEF SuccessMeansDone, AnswersAreTrue, EndedWell,
       MainIsFirst, WaitFields, WaitForActionToFinish, Running, Answer
  <2>4. InterruptIsReal'
    BY <1>i, <1>c, <1>f, <1>7 DEF InterruptIsReal, ClosedLast, WaitForActionToFinish,
       Running, Answer
  <2>5. PanicNeedsInterrupt'
    BY <1>n, <1>c, <1>f, <1>7 DEF PanicNeedsInterrupt, ClosedLast, WaitForActionToFinish,
       Running, Answer
  <2>6. AnswersAreTrue'
    BY <1>a, <1>m, <1>f, <1>b, <1>7 DEF AnswersAreTrue, EndedWell, MainIsFirst, WaitFields,
       WaitFlags, WaitForActionToFinish, Running, Answer
  <2>7. MainIsFirst'
    BY <1>m, <1>f, <1>a, <1>7 DEF MainIsFirst, WaitFields, AnswersAreTrue,
       WaitForActionToFinish, Running, Answer
  <2>8. ClosedLast'
    BY <1>c, <1>f, <1>7 DEF ClosedLast, WaitFields, WaitForActionToFinish, Running, Answer
  <2> QED
    BY <2>1, <2>2, <2>3, <2>4, <2>5, <2>6, <2>7, <2>8 DEF WaitIInv, WaitsTellTheTruth,
       WaitTypeOK
<1>8. CASE WaitForResourcesToBeRunning
  <2>1. WaitFlags'
    BY <1>b, <1>8 DEF WaitFlags, WaitForResourcesToBeRunning, Running, Answer
  <2>2. WaitFields'
    BY <1>f, <1>c, <1>8 DEF WaitFields, WaitForResourcesToBeRunning, Running, Answer
  <2>3. SuccessMeansDone'
    BY <1>s, <1>a, <1>m, <1>f, <1>8 DEF SuccessMeansDone, AnswersAreTrue, EndedWell,
       MainIsFirst, WaitFields, WaitForResourcesToBeRunning, Running, Answer
  <2>4. InterruptIsReal'
    BY <1>i, <1>c, <1>f, <1>8 DEF InterruptIsReal, ClosedLast, WaitForResourcesToBeRunning,
       Running, Answer
  <2>5. PanicNeedsInterrupt'
    BY <1>n, <1>c, <1>f, <1>8 DEF PanicNeedsInterrupt, ClosedLast,
       WaitForResourcesToBeRunning, Running, Answer
  <2>6. AnswersAreTrue'
    BY <1>a, <1>m, <1>f, <1>b, <1>8 DEF AnswersAreTrue, EndedWell, MainIsFirst, WaitFields,
       WaitFlags, WaitForResourcesToBeRunning, Running, Answer
  <2>7. MainIsFirst'
    BY <1>m, <1>f, <1>a, <1>8 DEF MainIsFirst, WaitFields, AnswersAreTrue,
       WaitForResourcesToBeRunning, Running, Answer
  <2>8. ClosedLast'
    BY <1>c, <1>f, <1>8 DEF ClosedLast, WaitFields, WaitForResourcesToBeRunning, Running,
       Answer
  <2> QED
    BY <2>1, <2>2, <2>3, <2>4, <2>5, <2>6, <2>7, <2>8 DEF WaitIInv, WaitsTellTheTruth,
       WaitTypeOK
<1>9. CASE WaitForNamespaceGone
  <2>1. WaitFlags'
    BY <1>b, <1>9 DEF WaitFlags, WaitForNamespaceGone, Running, Answer
  <2>2. WaitFields'
    BY <1>f, <1>c, <1>9 DEF WaitFields, WaitForNamespaceGone, Running, Answer
  <2>3. SuccessMeansDone'
    BY <1>s, <1>a, <1>m, <1>f, <1>9 DEF SuccessMeansDone, AnswersAreTrue, EndedWell,
       MainIsFirst, WaitFields, WaitForNamespaceGone, Running, Answer
  <2>4. InterruptIsReal'
    BY <1>i, <1>c, <1>f, <1>9 DEF InterruptIsReal, ClosedLast, WaitForNamespaceGone,
       Running, Answer
  <2>5. PanicNeedsInterrupt'
    BY <1>n, <1>c, <1>f, <1>9 DEF PanicNeedsInterrupt, ClosedLast, WaitForNamespaceGone,
       Running, Answer
  <2>6. AnswersAreTrue'
    BY <1>a, <1>m, <1>f, <1>b, <1>9 DEF AnswersAreTrue, EndedWell, MainIsFirst, WaitFields,
       WaitFlags, WaitForNamespaceGone, Running, Answer
  <2>7. MainIsFirst'
    BY <1>m, <1>f, <1>a, <1>9 DEF MainIsFirst, WaitFields, AnswersAreTrue,
       WaitForNamespaceGone, Running, Answer
  <2>8. ClosedLast'
    BY <1>c, <1>f, <1>9 DEF ClosedLast, WaitFields, WaitForNamespaceGone, Running, Answer
  <2> QED
    BY <2>1, <2>2, <2>3, <2>4, <2>5, <2>6, <2>7, <2>8 DEF WaitIInv, WaitsTellTheTruth,
       WaitTypeOK
<1>10. CASE WaitForDestroyAll
  <2>1. WaitFlags'
    BY <1>b, <1>10 DEF WaitFlags, WaitForDestroyAll, Running, Answer
  <2>2. WaitFields'
    BY <1>f, <1>c, <1>10 DEF WaitFields, WaitForDestroyAll, Running, Answer
  <2>3. SuccessMeansDone'
    BY <1>s, <1>a, <1>m, <1>f, <1>10 DEF SuccessMeansDone, AnswersAreTrue, EndedWell,
       MainIsFirst, WaitFields, WaitForDestroyAll, Running, Answer
  <2>4. InterruptIsReal'
    BY <1>i, <1>c, <1>f, <1>10 DEF InterruptIsReal, ClosedLast, WaitForDestroyAll, Running,
       Answer
  <2>5. PanicNeedsInterrupt'
    BY <1>n, <1>c, <1>f, <1>10 DEF PanicNeedsInterrupt, ClosedLast, WaitForDestroyAll,
       Running, Answer
  <2>6. AnswersAreTrue'
    BY <1>a, <1>m, <1>f, <1>b, <1>10 DEF AnswersAreTrue, EndedWell, MainIsFirst, WaitFields,
       WaitFlags, WaitForDestroyAll, Running, Answer
  <2>7. MainIsFirst'
    BY <1>m, <1>f, <1>a, <1>10 DEF MainIsFirst, WaitFields, AnswersAreTrue,
       WaitForDestroyAll, Running, Answer
  <2>8. ClosedLast'
    BY <1>c, <1>f, <1>10 DEF ClosedLast, WaitFields, WaitForDestroyAll, Running, Answer
  <2> QED
    BY <2>1, <2>2, <2>3, <2>4, <2>5, <2>6, <2>7, <2>8 DEF WaitIInv, WaitsTellTheTruth,
       WaitTypeOK
<1>11. CASE WaiterSend
  <2>1. WaitFlags'
    BY <1>b, <1>11 DEF WaitFlags, WaiterSend, Running
  <2>2. WaitFields'
    BY <1>f, <1>c, <1>11 DEF WaitFields, WaiterSend, Running
  <2>3. SuccessMeansDone'
    BY <1>s, <1>a, <1>m, <1>f, <1>11 DEF SuccessMeansDone, AnswersAreTrue, EndedWell,
       MainIsFirst, WaitFields, WaiterSend, Running
  <2>4. InterruptIsReal'
    BY <1>i, <1>c, <1>f, <1>11 DEF InterruptIsReal, ClosedLast, WaiterSend, Running
  <2>5. PanicNeedsInterrupt'
    BY <1>n, <1>c, <1>f, <1>11 DEF PanicNeedsInterrupt, ClosedLast, WaiterSend, Running
  <2>6. AnswersAreTrue'
    BY <1>a, <1>m, <1>f, <1>b, <1>11 DEF AnswersAreTrue, EndedWell, MainIsFirst, WaitFields,
       WaitFlags, WaiterSend, Running
  <2>7. MainIsFirst'
    BY <1>m, <1>f, <1>a, <1>11 DEF MainIsFirst, WaitFields, AnswersAreTrue, WaiterSend,
       Running
  <2>8. ClosedLast'
    BY <1>c, <1>f, <1>11 DEF ClosedLast, WaitFields, WaiterSend, Running
  <2> QED
    BY <2>1, <2>2, <2>3, <2>4, <2>5, <2>6, <2>7, <2>8 DEF WaitIInv, WaitsTellTheTruth,
       WaitTypeOK
<1>12. CASE WaitForActionProgressing
  <2>1. WaitFlags'
    BY <1>b, <1>12 DEF WaitFlags, WaitForActionProgressing, Running
  <2>2. WaitFields'
    BY <1>f, <1>c, <1>12 DEF WaitFields, WaitForActionProgressing, Running
  <2>3. SuccessMeansDone'
    BY <1>s, <1>a, <1>m, <1>f, <1>12 DEF SuccessMeansDone, AnswersAreTrue, EndedWell,
       MainIsFirst, WaitFields, WaitForActionProgressing, Running
  <2>4. InterruptIsReal'
    BY <1>i, <1>c, <1>f, <1>12 DEF InterruptIsReal, ClosedLast, WaitForActionProgressing,
       Running
  <2>5. PanicNeedsInterrupt'
    BY <1>n, <1>c, <1>f, <1>12 DEF PanicNeedsInterrupt, ClosedLast,
       WaitForActionProgressing, Running
  <2>6. AnswersAreTrue'
    BY <1>a, <1>m, <1>f, <1>b, <1>12 DEF AnswersAreTrue, EndedWell, MainIsFirst, WaitFields,
       WaitFlags, WaitForActionProgressing, Running
  <2>7. MainIsFirst'
    BY <1>m, <1>f, <1>a, <1>12 DEF MainIsFirst, WaitFields, AnswersAreTrue,
       WaitForActionProgressing, Running
  <2>8. ClosedLast'
    BY <1>c, <1>f, <1>12 DEF ClosedLast, WaitFields, WaitForActionProgressing, Running
  <2> QED
    BY <2>1, <2>2, <2>3, <2>4, <2>5, <2>6, <2>7, <2>8 DEF WaitIInv, WaitsTellTheTruth,
       WaitTypeOK
<1>13. CASE LogsSend
  <2>1. WaitFlags'
    BY <1>b, <1>13 DEF WaitFlags, LogsSend, Running
  <2>2. WaitFields'
    BY <1>f, <1>c, <1>13 DEF WaitFields, LogsSend, Running
  <2>3. SuccessMeansDone'
    BY <1>s, <1>a, <1>m, <1>f, <1>13 DEF SuccessMeansDone, AnswersAreTrue, EndedWell,
       MainIsFirst, WaitFields, LogsSend, Running
  <2>4. InterruptIsReal'
    BY <1>i, <1>c, <1>f, <1>13 DEF InterruptIsReal, ClosedLast, LogsSend, Running
  <2>5. PanicNeedsInterrupt'
    BY <1>n, <1>c, <1>f, <1>13 DEF PanicNeedsInterrupt, ClosedLast, LogsSend, Running
  <2>6. AnswersAreTrue'
    BY <1>a, <1>m, <1>f, <1>b, <1>13 DEF AnswersAreTrue, EndedWell, MainIsFirst, WaitFields,
       WaitFlags, LogsSend, Running
  <2>7. MainIsFirst'
    BY <1>m, <1>f, <1>a, <1>13 DEF MainIsFirst, WaitFields, AnswersAreTrue, LogsSend,
       Running
  <2>8. ClosedLast'
    BY <1>c, <1>f, <1>13 DEF ClosedLast, WaitFields, LogsSend, Running
  <2> QED
    BY <2>1, <2>2, <2>3, <2>4, <2>5, <2>6, <2>7, <2>8 DEF WaitIInv, WaitsTellTheTruth,
       WaitTypeOK
<1>14. CASE StreamLogs
  <2>1. WaitFlags'
    BY <1>b, <1>14 DEF WaitFlags, StreamLogs, Running
  <2>2. WaitFields'
    BY <1>f, <1>c, <1>14 DEF WaitFields, StreamLogs, Running
  <2>3. SuccessMeansDone'
    BY <1>s, <1>a, <1>m, <1>f, <1>14 DEF SuccessMeansDone, AnswersAreTrue, EndedWell,
       MainIsFirst, WaitFields, StreamLogs, Running
  <2>4. InterruptIsReal'
    BY <1>i, <1>c, <1>f, <1>14 DEF InterruptIsReal, ClosedLast, StreamLogs, Running
  <2>5. PanicNeedsInterrupt'
    BY <1>n, <1>c, <1>f, <1>14 DEF PanicNeedsInterrupt, ClosedLast, StreamLogs, Running
  <2>6. AnswersAreTrue'
    BY <1>a, <1>m, <1>f, <1>b, <1>14 DEF AnswersAreTrue, EndedWell, MainIsFirst, WaitFields,
       WaitFlags, StreamLogs, Running
  <2>7. MainIsFirst'
    BY <1>m, <1>f, <1>a, <1>14 DEF MainIsFirst, WaitFields, AnswersAreTrue, StreamLogs,
       Running
  <2>8. ClosedLast'
    BY <1>c, <1>f, <1>14 DEF ClosedLast, WaitFields, StreamLogs, Running
  <2> QED
    BY <2>1, <2>2, <2>3, <2>4, <2>5, <2>6, <2>7, <2>8 DEF WaitIInv, WaitsTellTheTruth,
       WaitTypeOK
<1>15. CASE CloseChannels
  <2>1. WaitFlags'
    BY <1>b, <1>15 DEF WaitFlags, CloseChannels, Running
  <2>2. WaitFields'
    BY <1>f, <1>c, <1>15 DEF WaitFields, CloseChannels, Running
  <2>3. SuccessMeansDone'
    BY <1>s, <1>a, <1>m, <1>f, <1>15 DEF SuccessMeansDone, AnswersAreTrue, EndedWell,
       MainIsFirst, WaitFields, CloseChannels, Running
  <2>4. InterruptIsReal'
    BY <1>i, <1>c, <1>f, <1>15 DEF InterruptIsReal, ClosedLast, CloseChannels, Running
  <2>5. PanicNeedsInterrupt'
    BY <1>n, <1>c, <1>f, <1>15 DEF PanicNeedsInterrupt, ClosedLast, CloseChannels, Running
  <2>6. AnswersAreTrue'
    BY <1>a, <1>m, <1>f, <1>b, <1>15 DEF AnswersAreTrue, EndedWell, MainIsFirst, WaitFields,
       WaitFlags, CloseChannels, Running
  <2>7. MainIsFirst'
    BY <1>m, <1>f, <1>a, <1>15 DEF MainIsFirst, WaitFields, AnswersAreTrue, CloseChannels,
       Running
  <2>8. ClosedLast'
    BY <1>c, <1>f, <1>15 DEF ClosedLast, WaitFields, CloseChannels, Running
  <2> QED
    BY <2>1, <2>2, <2>3, <2>4, <2>5, <2>6, <2>7, <2>8 DEF WaitIInv, WaitsTellTheTruth,
       WaitTypeOK
<1>16. CASE SelectStop
  <2>1. WaitFlags'
    BY <1>b, <1>16 DEF WaitFlags, SelectStop, Running, DeferredClose
  <2>2. WaitFields'
    BY <1>f, <1>c, <1>16 DEF WaitFields, SelectStop, Running, DeferredClose
  <2>3. SuccessMeansDone'
    BY <1>s, <1>a, <1>m, <1>f, <1>16 DEF SuccessMeansDone, AnswersAreTrue, EndedWell,
       MainIsFirst, WaitFields, SelectStop, Running, DeferredClose
  <2>4. InterruptIsReal'
    BY <1>i, <1>c, <1>f, <1>16 DEF InterruptIsReal, ClosedLast, SelectStop, Running,
       DeferredClose
  <2>5. PanicNeedsInterrupt'
    BY <1>n, <1>c, <1>f, <1>16 DEF PanicNeedsInterrupt, ClosedLast, SelectStop, Running,
       DeferredClose
  <2>6. AnswersAreTrue'
    BY <1>a, <1>m, <1>f, <1>b, <1>16 DEF AnswersAreTrue, EndedWell, MainIsFirst, WaitFields,
       WaitFlags, SelectStop, Running, DeferredClose
  <2>7. MainIsFirst'
    BY <1>m, <1>f, <1>a, <1>16 DEF MainIsFirst, WaitFields, AnswersAreTrue, SelectStop,
       Running, DeferredClose
  <2>8. ClosedLast'
    BY <1>c, <1>f, <1>16 DEF ClosedLast, WaitFields, SelectStop, Running, DeferredClose
  <2> QED
    BY <2>1, <2>2, <2>3, <2>4, <2>5, <2>6, <2>7, <2>8 DEF WaitIInv, WaitsTellTheTruth,
       WaitTypeOK
<1>17. CASE SelectExit
  <2>1. WaitFlags'
    BY <1>b, <1>17 DEF WaitFlags, SelectExit, Running
  <2>2. WaitFields'
    BY <1>f, <1>c, <1>17 DEF WaitFields, SelectExit, Running
  <2>3. SuccessMeansDone'
    BY <1>s, <1>a, <1>m, <1>f, <1>17 DEF SuccessMeansDone, AnswersAreTrue, EndedWell,
       MainIsFirst, WaitFields, SelectExit, Running
  <2>4. InterruptIsReal'
    BY <1>i, <1>c, <1>f, <1>17 DEF InterruptIsReal, ClosedLast, SelectExit, Running,
       WaitFields
  <2>5. PanicNeedsInterrupt'
    BY <1>n, <1>c, <1>f, <1>17 DEF PanicNeedsInterrupt, ClosedLast, SelectExit, Running
  <2>6. AnswersAreTrue'
    BY <1>a, <1>m, <1>f, <1>b, <1>17 DEF AnswersAreTrue, EndedWell, MainIsFirst, WaitFields,
       WaitFlags, SelectExit, Running
  <2>7. MainIsFirst'
    BY <1>m, <1>f, <1>a, <1>17 DEF MainIsFirst, WaitFields, AnswersAreTrue, SelectExit,
       Running
  <2>8. ClosedLast'
    BY <1>c, <1>f, <1>17 DEF ClosedLast, WaitFields, SelectExit, Running
  <2> QED
    BY <2>1, <2>2, <2>3, <2>4, <2>5, <2>6, <2>7, <2>8 DEF WaitIInv, WaitsTellTheTruth,
       WaitTypeOK
<1>18. CASE Join
  <2>1. WaitFlags'
    BY <1>b, <1>18 DEF WaitFlags, Join, Running, DeferredClose
  <2>2. WaitFields'
    BY <1>f, <1>c, <1>18 DEF WaitFields, Join, Running, DeferredClose
  <2>3. SuccessMeansDone'
    BY <1>s, <1>a, <1>m, <1>f, <1>18 DEF SuccessMeansDone, AnswersAreTrue, EndedWell,
       MainIsFirst, WaitFields, Join, Running, DeferredClose
  <2>4. InterruptIsReal'
    BY <1>i, <1>c, <1>f, <1>18 DEF InterruptIsReal, ClosedLast, Join, Running, DeferredClose
  <2>5. PanicNeedsInterrupt'
    BY <1>n, <1>c, <1>f, <1>18 DEF PanicNeedsInterrupt, ClosedLast, Join, Running,
       DeferredClose
  <2>6. AnswersAreTrue'
    BY <1>a, <1>m, <1>f, <1>b, <1>18 DEF AnswersAreTrue, EndedWell, MainIsFirst, WaitFields,
       WaitFlags, Join, Running, DeferredClose
  <2>7. MainIsFirst'
    BY <1>m, <1>f, <1>a, <1>18 DEF MainIsFirst, WaitFields, AnswersAreTrue, Join, Running,
       DeferredClose
  <2>8. ClosedLast'
    BY <1>c, <1>f, <1>18 DEF ClosedLast, WaitFields, Join, Running, DeferredClose
  <2> QED
    BY <2>1, <2>2, <2>3, <2>4, <2>5, <2>6, <2>7, <2>8 DEF WaitIInv, WaitsTellTheTruth,
       WaitTypeOK
<1>19. CASE ProcessExit
  <2>1. WaitFlags'
    BY <1>b, <1>19 DEF WaitFlags, ProcessExit, Running
  <2>2. WaitFields'
    BY <1>f, <1>c, <1>19 DEF WaitFields, ProcessExit, Running
  <2>3. SuccessMeansDone'
    BY <1>s, <1>a, <1>m, <1>f, <1>19 DEF SuccessMeansDone, AnswersAreTrue, EndedWell,
       MainIsFirst, WaitFields, ProcessExit, Running
  <2>4. InterruptIsReal'
    BY <1>i, <1>c, <1>f, <1>19 DEF InterruptIsReal, ClosedLast, ProcessExit, Running
  <2>5. PanicNeedsInterrupt'
    BY <1>n, <1>c, <1>f, <1>19 DEF PanicNeedsInterrupt, ClosedLast, ProcessExit, Running
  <2>6. AnswersAreTrue'
    BY <1>a, <1>m, <1>f, <1>b, <1>19 DEF AnswersAreTrue, EndedWell, MainIsFirst, WaitFields,
       WaitFlags, ProcessExit, Running
  <2>7. MainIsFirst'
    BY <1>m, <1>f, <1>a, <1>19 DEF MainIsFirst, WaitFields, AnswersAreTrue, ProcessExit,
       Running
  <2>8. ClosedLast'
    BY <1>c, <1>f, <1>19 DEF ClosedLast, WaitFields, ProcessExit, Running
  <2> QED
    BY <2>1, <2>2, <2>3, <2>4, <2>5, <2>6, <2>7, <2>8 DEF WaitIInv, WaitsTellTheTruth,
       WaitTypeOK
<1>20. CASE UNCHANGED waitVars
  <2>1. WaitFlags'
    BY <1>b, <1>20 DEF WaitFlags, waitVars
  <2>2. WaitFields'
    BY <1>f, <1>20 DEF WaitFields, waitVars
  <2>3. SuccessMeansDone'
    BY <1>s, <1>20 DEF SuccessMeansDone, EndedWell, waitVars
  <2>4. InterruptIsReal'
    BY <1>i, <1>20 DEF InterruptIsReal, waitVars
  <2>5. PanicNeedsInterrupt'
    BY <1>n, <1>20 DEF PanicNeedsInterrupt, waitVars
  <2>6. AnswersAreTrue'
    BY <1>a, <1>20 DEF AnswersAreTrue, EndedWell, waitVars
  <2>7. MainIsFirst'
    BY <1>m, <1>20 DEF MainIsFirst, waitVars
  <2>8. ClosedLast'
    BY <1>c, <1>20 DEF ClosedLast, waitVars
  <2> QED
    BY <2>1, <2>2, <2>3, <2>4, <2>5, <2>6, <2>7, <2>8 DEF WaitIInv, WaitsTellTheTruth,
       WaitTypeOK
<1> QED
  BY <1>1, <1>2, <1>3, <1>4, <1>5, <1>6, <1>7, <1>8, <1>9, <1>10, <1>11, <1>12, <1>13,
     <1>14, <1>15, <1>16, <1>17, <1>18, <1>19, <1>20 DEF WaitNext, Waiter, Logs, Select

\* Whatever the goroutines of a command, the time-outs and CTRL+C do, in any order, no
\* failure of the operation becomes a success and no closed channel is used without
\* an interrupt.
THEOREM WaitsAreTruthful == WaitSpec => []WaitsTellTheTruth
<1>1. WaitIInv => WaitsTellTheTruth
  BY DEF WaitIInv
<1> QED
  BY WaitStart, WaitStep, <1>1, PTL DEF WaitSpec

-----------------------------------------------------------------------------
(* The deployment of a compose file                                          *)

\* The steps of which the cluster and the lists of the loop know nothing.
Quiet ==
  \/ Main \/ PressStackInterrupt \/ Done \/ UNCHANGED stackVars
  \/ DeployVolumes \/ Tick \/ LoopEnds

\* A step is quiet for the deployment, or it applies the manifest, cleans up, polls, or
\* works on one service.
LEMMA StackSteps ==
  ASSUME [StackNext]_stackVars
  PROVE  \/ Quiet \/ DeployK8sServices \/ destroyServicesNotInStack \/ waitForPodsToBeRunning
         \/ \E s \in Stack : VisitService(s) \/ deploySvc(s) \/ PodStep(s)
BY DEF StackNext, Deploy, Loop, Quiet

\* The quiet steps leave the cluster's workloads and pods and the lists of the
\* deployment alone.
LEMMA QuietFrame ==
  ASSUME Quiet
  PROVE  UNCHANGED <<scen, deployed, cur, counted, firstSeen, clusterVars>>
BY DEF Quiet, Main, PressStackInterrupt, Done, stackVars, progVars, clusterVars, Validate,
   buildStackImages, StartDeploy, StackSelectStop, StackSelectExit, WriteStatus, DeployVolumes,
   Tick, LoopEnds

\* The compose file does not change.
LEMMA ScenarioStays == [StackNext]_stackVars => scen' = scen
BY DEF StackNext, Deploy, Loop, Main, PressStackInterrupt, Done, stackVars, Validate,
   buildStackImages, StartDeploy, StackSelectStop, StackSelectExit, WriteStatus, DeployVolumes,
   Tick, LoopEnds, DeployK8sServices, destroyServicesNotInStack, waitForPodsToBeRunning,
   VisitService, deploySvc, PodStep

\* So what is assumed of the compose file holds in the next state.
LEMMA ScenarioStep ==
  ASSUME IsScenario(scen), [StackNext]_stackVars
  PROVE  IsScenario(scen)'
BY ScenarioStays DEF IsScenario

\* What the assumption on the compose files gives for a service of the stack.
LEMMA KindsOfServices ==
  ASSUME IsScenario(scen)
  PROVE  /\ Stack \subseteq Names
         /\ \A s \in Stack : Kind(s) \in Kinds /\ DOMAIN DependsOn(s) \subseteq Stack
BY DEF IsScenario, Stack, Kind, DependsOn

\* The services a compose file adds are its own.
LEMMA AddedAreServices ==
  ASSUME NEW S, S \subseteq Stack
  PROVE  S \subseteq addDependentServices(S) /\ addDependentServices(S) \subseteq Stack
BY DEF addDependentServices

-----------------------------------------------------------------------------
\* The order of the steps.
LEMMA PhasesStep ==
  ASSUME IsScenario(scen), StackTypeOK, StackPhases, NextIsReady, [StackNext]_stackVars
  PROVE  StackPhases'
<1> USE DEF StackPhases, Checking
<1>0. scen' = scen /\ Stack' = Stack
  BY ScenarioStays DEF Stack
<1>1. CASE Validate
  <2>1. CASE scen.requested \subseteq Stack
    <3>1. toDeploy' = addDependentServices(scen.requested)
      BY <1>1, <2>1 DEF Validate
    <3>2. toDeploy' \subseteq Stack
      BY <3>1, <2>1, AddedAreServices
    <3> QED
      BY <3>2, <1>0, <1>1, <2>1 DEF Validate
  <2>2. CASE ~(scen.requested \subseteq Stack)
    BY <1>0, <1>1, <2>2 DEF Validate, Return
  <2> QED
    BY <2>1, <2>2
<1>2. CASE buildStackImages
  BY <1>0, <1>2 DEF buildStackImages, Return
<1>3. CASE StartDeploy
  BY <1>0, <1>3 DEF StartDeploy, Return
<1>4. CASE StackSelectStop
  BY <1>0, <1>4 DEF StackSelectStop
<1>5. CASE StackSelectExit
  BY <1>0, <1>5 DEF StackSelectExit, StackTypeOK
<1>6. CASE WriteStatus
  BY <1>0, <1>6 DEF WriteStatus, Return
<1>7. CASE PressStackInterrupt
  BY <1>0, <1>7 DEF PressStackInterrupt, progVars
<1>8. CASE Done \/ UNCHANGED stackVars
  BY <1>0, <1>8 DEF Done, stackVars, progVars
<1>9. CASE DeployVolumes \/ Tick \/ LoopEnds
  BY <1>0, <1>9 DEF DeployVolumes, Tick, LoopEnds, Alive, Goto, Exit
<1>10. CASE DeployK8sServices
  BY <1>0, <1>10 DEF DeployK8sServices, Alive, Goto, Exit
<1>11. CASE destroyServicesNotInStack
  BY <1>0, <1>11 DEF destroyServicesNotInStack, Alive, Goto, Exit
<1>12. CASE waitForPodsToBeRunning
  BY <1>0, <1>12 DEF waitForPodsToBeRunning, Alive, Goto, Exit
<1>13. ASSUME NEW s \in Stack, VisitService(s) PROVE StackPhases'
  BY <1>0, <1>13 DEF VisitService, Alive, Goto, Exit
<1>14. ASSUME NEW s \in Stack, deploySvc(s) PROVE StackPhases'
  BY <1>0, <1>14 DEF deploySvc, Alive, Goto, Exit
<1>15. ASSUME NEW s \in Stack, PodStep(s) PROVE StackPhases'
  BY <1>0, <1>15 DEF PodStep, progVars
<1> QED
  BY <1>1, <1>2, <1>3, <1>4, <1>5, <1>6, <1>7, <1>8, <1>9, <1>10, <1>11, <1>12, <1>13, <1>14, <1>15,
     StackSteps DEF Quiet, Main

-----------------------------------------------------------------------------
\* The types, in the groups of variables that change together.
ProgTypes ==
  /\ stackMain \in {"validate", "build", "progressing", "select", "final", "done"}
  /\ go \in {"not started", "services", "volumes", "tick", "loop", "destroy", "wait", "ended"}
  /\ status \in {"none", "progressing", "deployed", "error"}
  /\ result \in {"none", "ok", "err", "interrupted"}
  /\ stackExit \in {"empty", "ok", "err"}
  /\ interrupt \in BOOLEAN

ListTypes ==
  /\ toDeploy \subseteq Names /\ deployed \subseteq toDeploy
  /\ cur \in Names \cup {"none"} /\ counted \subseteq Names

ObjectTypes ==
  /\ obj \in [Names -> [Kinds -> Owners]] /\ svc \in [Names -> Owners]
  /\ ends \in [{"ingress", "httproute"} -> SUBSET Names]

PodTypes ==
  /\ pod \in [Names -> PodStates] /\ fresh \in [Names -> BOOLEAN]
  /\ restarts \in [Names -> 0..MaxRestarts] /\ firstSeen \in [Names -> 0..MaxRestarts + 1]

\* The type invariant in four groups: the command, its lists, the objects, the pods.
LEMMA TypeGroups == StackTypeOK <=> ProgTypes /\ ListTypes /\ ObjectTypes /\ PodTypes
BY DEF StackTypeOK, ProgTypes, ListTypes, ObjectTypes, PodTypes

\* The steps keep the types of the command's own variables.
LEMMA ProgTypesStep == ProgTypes /\ [StackNext]_stackVars => ProgTypes'
<1> SUFFICES ASSUME ProgTypes, [StackNext]_stackVars PROVE ProgTypes'
  OBVIOUS
<1> USE DEF ProgTypes
<1>1. CASE Validate
  BY <1>1 DEF Validate, Return
<1>2. CASE buildStackImages
  BY <1>2 DEF buildStackImages, Return
<1>3. CASE StartDeploy
  BY <1>3 DEF StartDeploy, Return
<1>4. CASE StackSelectStop
  BY <1>4 DEF StackSelectStop
<1>5. CASE StackSelectExit
  BY <1>5 DEF StackSelectExit
<1>6. CASE WriteStatus
  BY <1>6 DEF WriteStatus, Return
<1>7. CASE PressStackInterrupt
  BY <1>7 DEF PressStackInterrupt, progVars
<1>8. CASE Done \/ UNCHANGED stackVars
  BY <1>8 DEF Done, stackVars, progVars
<1>9. CASE DeployVolumes \/ Tick \/ LoopEnds
  BY <1>9 DEF DeployVolumes, Tick, LoopEnds, Alive, Goto, Exit
<1>10. CASE DeployK8sServices
  BY <1>10 DEF DeployK8sServices, Alive, Goto, Exit
<1>11. CASE destroyServicesNotInStack
  BY <1>11 DEF destroyServicesNotInStack, Alive, Goto, Exit
<1>12. CASE waitForPodsToBeRunning
  BY <1>12 DEF waitForPodsToBeRunning, Alive, Goto, Exit
<1>13. ASSUME NEW s \in Stack, VisitService(s) PROVE ProgTypes'
  BY <1>13 DEF VisitService, Alive, Goto, Exit
<1>14. ASSUME NEW s \in Stack, deploySvc(s) PROVE ProgTypes'
  BY <1>14 DEF deploySvc, Alive, Goto, Exit
<1>15. ASSUME NEW s \in Stack, PodStep(s) PROVE ProgTypes'
  BY <1>15 DEF PodStep, progVars
<1> QED
  BY <1>1, <1>2, <1>3, <1>4, <1>5, <1>6, <1>7, <1>8, <1>9, <1>10, <1>11, <1>12, <1>13, <1>14, <1>15,
     StackSteps DEF Quiet, Main

\* The steps keep the types of the lists of the deployment.
LEMMA ListTypesStep ==
  ASSUME IsScenario(scen), StackPhases, NextIsReady, ListTypes, [StackNext]_stackVars
  PROVE  ListTypes'
<1> USE DEF ListTypes
<1>1. Stack \subseteq Names
  BY KindsOfServices
<1>2. CASE Quiet
  <2>1. deployed' = deployed /\ cur' = cur /\ counted' = counted
    BY <1>2, QuietFrame
  <2>2. CASE Validate /\ scen.requested \subseteq Stack
    <3>1. toDeploy' \subseteq Stack
      <4>1. toDeploy' = addDependentServices(scen.requested)
        BY <2>2 DEF Validate
      <4> QED
        BY <4>1, <2>2, AddedAreServices
    <3>2. deployed = {}
      BY <2>2 DEF Validate, StackPhases, Checking
    <3> QED
      BY <3>1, <3>2, <2>1, <1>1
  <2>3. CASE Validate /\ ~(scen.requested \subseteq Stack)
    BY <2>3, <2>1 DEF Validate
  <2>4. CASE ~Validate
    <3>1. toDeploy' = toDeploy
      BY <2>4, <1>2 DEF Quiet, Main, buildStackImages, StartDeploy, StackSelectStop, StackSelectExit,
         WriteStatus, PressStackInterrupt, Done, stackVars, progVars, DeployVolumes, Tick, LoopEnds
    <3> QED
      BY <3>1, <2>1
  <2> QED
    BY <2>2, <2>3, <2>4
<1>3. CASE DeployK8sServices
  BY <1>3 DEF DeployK8sServices
<1>4. CASE destroyServicesNotInStack
  BY <1>4 DEF destroyServicesNotInStack
<1>5. CASE waitForPodsToBeRunning
  BY <1>5 DEF waitForPodsToBeRunning, RunningPods, StackPods
<1>6. ASSUME NEW s \in Stack, VisitService(s) PROVE ListTypes'
  BY <1>6, <1>1 DEF VisitService
<1>7. ASSUME NEW s \in Stack, deploySvc(s) PROVE ListTypes'
  <2>1. s \in toDeploy
    BY <1>7, <1>1, NamesAssumption DEF deploySvc, NextIsReady
  <2> QED
    BY <1>7, <2>1 DEF deploySvc
<1>8. ASSUME NEW s \in Stack, PodStep(s) PROVE ListTypes'
  BY <1>8 DEF PodStep, progVars
<1> QED
  BY <1>2, <1>3, <1>4, <1>5, <1>6, <1>7, <1>8, StackSteps

\* The steps keep the types of the cluster's objects.
LEMMA ObjectTypesStep ==
  ASSUME IsScenario(scen), ListTypes, ObjectTypes, [StackNext]_stackVars
  PROVE  ObjectTypes'
<1> USE DEF ObjectTypes
<1>1. Stack \subseteq Names /\ \A s \in Stack : Kind(s) \in Kinds
  BY KindsOfServices
<1>2. CASE Quiet
  BY <1>2, QuietFrame DEF clusterVars
<1>3. CASE DeployK8sServices
  <2> USE DEF Owners
  <2>1. obj' = obj
    BY <1>3 DEF DeployK8sServices
  <2>2. \A s \in Names : deployK8sService(svc[s]) \in Owners
    BY DEF deployK8sService
  <2>3. svc' \in [Names -> Owners]
    <3>1. CASE svc' = svc
      BY <3>1
    <3>2. CASE \E s \in toDeploy \cap scen.ports : svc' = [svc EXCEPT ![s] = deployK8sService(@)]
      BY <3>2, <2>2 DEF ListTypes
    <3>3. CASE svc' = [s \in Names |-> IF s \in toDeploy \cap scen.ports THEN deployK8sService(svc[s]) ELSE svc[s]]
      BY <3>3, <2>2
    <3> QED
      BY <1>3, <3>1, <3>2, <3>3 DEF DeployK8sServices
  <2>4. ShouldUseHTTPRoute \in {"ingress", "httproute", "bad"}
    <3> USE DEF ShouldUseHTTPRoute
    <3> QED
      OBVIOUS
  <2>5. ends' \in [{"ingress", "httproute"} -> SUBSET Names]
    <3>1. CASE ends' = ends
      BY <3>1
    <3>2. CASE /\ ShouldUseHTTPRoute # "bad"
               /\ ends' = [ends EXCEPT ![ShouldUseHTTPRoute] = @ \cup ((toDeploy \cap scen.ports) \cap scen.public)]
      BY <3>2, <2>4 DEF ListTypes
    <3> QED
      BY <1>3, <3>1, <3>2 DEF DeployK8sServices
  <2> QED
    BY <2>1, <2>3, <2>5
<1>4. CASE destroyServicesNotInStack
  <2>1. PICK S \in SUBSET Leftovers : DestroyWorkloads(S)
    BY <1>4 DEF destroyServicesNotInStack
  <2>2. obj' \in [Names -> [Kinds -> Owners]] /\ svc' \in [Names -> Owners]
    BY <2>1 DEF DestroyWorkloads, Owners
  <2>3. ends' \in [{"ingress", "httproute"} -> SUBSET Names]
    <3>1. CASE ends' = ends
      BY <3>1
    <3>2. CASE DestroyEndpoints
      <4>1. \A t \in {"ingress", "httproute"} : ends[t] \cap (Stack \cap scen.ports \cap scen.public) \subseteq Names
        OBVIOUS
      <4> QED
        BY <3>2, <4>1 DEF DestroyEndpoints
    <3> QED
      BY <1>4, <3>1, <3>2 DEF destroyServicesNotInStack
  <2> QED
    BY <2>2, <2>3
<1>5. CASE waitForPodsToBeRunning
  BY <1>5 DEF waitForPodsToBeRunning, clusterVars
<1>6. ASSUME NEW s \in Stack, VisitService(s) PROVE ObjectTypes'
  BY <1>6 DEF VisitService, clusterVars
<1>7. ASSUME NEW s \in Stack, deploySvc(s) PROVE ObjectTypes'
  <2>1. svc' = svc /\ ends' = ends
    BY <1>7 DEF deploySvc
  <2>2. PICK o \in {"this", "absent"} : obj' = obj \/ obj' = [obj EXCEPT ![s][Kind(s)] = o]
    BY <1>7 DEF deploySvc, Apply
  <2> QED
    BY <2>1, <2>2, <1>1 DEF Owners
<1>8. ASSUME NEW s \in Stack, PodStep(s) PROVE ObjectTypes'
  BY <1>8 DEF PodStep
<1> QED
  BY <1>2, <1>3, <1>4, <1>5, <1>6, <1>7, <1>8, StackSteps

\* The steps keep the types of the pods and of their restarts.
LEMMA PodTypesStep ==
  ASSUME IsScenario(scen), PodTypes, [StackNext]_stackVars
  PROVE  PodTypes'
<1> USE DEF PodTypes
<1>1. Stack \subseteq Names
  BY KindsOfServices
<1>2. CASE Quiet
  BY <1>2, QuietFrame DEF clusterVars
<1>3. CASE DeployK8sServices
  BY <1>3 DEF DeployK8sServices
<1>4. CASE destroyServicesNotInStack
  <2>1. PICK S \in SUBSET Leftovers : DestroyWorkloads(S)
    BY <1>4 DEF destroyServicesNotInStack
  <2>2. firstSeen' = firstSeen
    BY <1>4 DEF destroyServicesNotInStack
  <2> QED
    BY <2>1, <2>2 DEF DestroyWorkloads, PodStates
<1>5. CASE waitForPodsToBeRunning
  BY <1>5 DEF waitForPodsToBeRunning, clusterVars
<1>6. ASSUME NEW s \in Stack, VisitService(s) PROVE PodTypes'
  <2>1. LookAtRestarts(s) \in [Names -> 0..MaxRestarts + 1]
    BY RestartsAssumption DEF LookAtRestarts
  <2>2. UNCHANGED clusterVars /\ firstSeen' \in {firstSeen, LookAtRestarts(s)}
    BY <1>6 DEF VisitService
  <2> QED
    BY <2>1, <2>2 DEF clusterVars
<1>7. ASSUME NEW s \in Stack, deploySvc(s) PROVE PodTypes'
  <2> USE RestartsAssumption DEF PodStates
  <2>1. firstSeen' = firstSeen
    BY <1>7 DEF deploySvc
  <2>2. fresh' = fresh \/ fresh' = [fresh EXCEPT ![s] = TRUE]
    BY <1>7 DEF deploySvc, Apply
  <2>3. restarts' = restarts \/ restarts' = [restarts EXCEPT ![s] = 0]
    BY <1>7 DEF deploySvc, Apply
  <2>4. pod' = pod \/ \E p \in {"starting", "none"} : pod' = [pod EXCEPT ![s] = p]
    BY <1>7 DEF deploySvc, Apply
  <2>5. pod' \in [Names -> PodStates]
    BY <2>4
  <2>6. restarts' \in [Names -> 0..MaxRestarts]
    BY <2>3
  <2> QED
    BY <2>1, <2>2, <2>5, <2>6
<1>8. ASSUME NEW s \in Stack, PodStep(s) PROVE PodTypes'
  <2> USE RestartsAssumption DEF PodStates
  <2>1. firstSeen' = firstSeen
    BY <1>8 DEF PodStep, progVars
  <2>2. fresh' = fresh \/ fresh' = [fresh EXCEPT ![s] = TRUE]
    BY <1>8 DEF PodStep
  <2>3. restarts' \in [Names -> 0..MaxRestarts]
    <3>1. CASE restarts' = restarts \/ restarts' = [restarts EXCEPT ![s] = 0]
      BY <3>1
    <3>2. CASE restarts[s] < MaxRestarts /\ restarts' = [restarts EXCEPT ![s] = @ + 1]
      <4>1. restarts[s] \in 0..MaxRestarts
        BY <1>1
      <4>2. restarts[s] + 1 \in 0..MaxRestarts
        BY <3>2, <4>1
      <4> QED
        BY <3>2, <4>2
    <3> QED
      BY <1>8, <3>1, <3>2 DEF PodStep
  <2>4. pod' = pod \/ \E p \in PodStates : pod' = [pod EXCEPT ![s] = p]
    BY <1>8 DEF PodStep, SetPod
  <2>5. pod' \in [Names -> PodStates]
    BY <2>4
  <2>6. fresh' \in [Names -> BOOLEAN]
    BY <2>2
  <2> QED
    BY <2>1, <2>3, <2>5, <2>6
<1> QED
  BY <1>2, <1>3, <1>4, <1>5, <1>6, <1>7, <1>8, StackSteps

-----------------------------------------------------------------------------
\* A workload of somebody else stays, whatever the step.
LEMMA ForeignStays ==
  ASSUME IsScenario(scen), ObjectTypes, [StackNext]_stackVars,
         NEW n \in Names, NEW k \in Kinds, obj[n][k] \in Foreign
  PROVE  obj'[n][k] = obj[n][k]
<1> USE DEF ObjectTypes, Foreign
<1>1. Stack \subseteq Names /\ \A s \in Stack : Kind(s) \in Kinds
  BY KindsOfServices
<1>2. CASE obj' = obj
  BY <1>2
<1>3. CASE destroyServicesNotInStack
  <2>1. PICK S \in SUBSET Leftovers : DestroyWorkloads(S)
    BY <1>3 DEF destroyServicesNotInStack
  <2>2. n \notin Leftover(k)
    BY DEF Leftover
  <2> QED
    BY <2>1, <2>2 DEF DestroyWorkloads
<1>4. ASSUME NEW s \in Stack, deploySvc(s) PROVE obj'[n][k] = obj[n][k]
  <2>1. CASE obj' = obj
    BY <2>1
  <2>2. CASE n = s /\ k = Kind(s)
    BY <1>4, <2>2 DEF deploySvc, Apply, Mine
  <2>3. CASE ~(n = s /\ k = Kind(s))
    <3>1. PICK o \in {"this", "absent"} : obj' = obj \/ obj' = [obj EXCEPT ![s][Kind(s)] = o]
      BY <1>4 DEF deploySvc, Apply
    <3> QED
      BY <3>1, <2>3, <1>1
  <2> QED
    BY <2>1, <2>2, <2>3
<1>5. obj' = obj \/ destroyServicesNotInStack \/ \E s \in Stack : deploySvc(s)
  BY StackSteps, QuietFrame DEF clusterVars, DeployK8sServices, waitForPodsToBeRunning, VisitService, PodStep
<1> QED
  BY <1>2, <1>3, <1>4, <1>5

\* A job that counts as deployed keeps its object and its new pod.
LEMMA DeployedJobsStay ==
  ASSUME IsScenario(scen), StackTypeOK, NextIsReady, JobsAreNew, [StackNext]_stackVars,
         NEW d \in deployed, d \in Stack, Kind(d) = "job"
  PROVE  /\ (obj[d]["job"] = "this" /\ fresh[d]) => (obj'[d]["job"] = "this" /\ fresh'[d])
         /\ (obj[d]["job"] \in Foreign => obj'[d]["job"] \in Foreign)
<1>t. ObjectTypes /\ PodTypes
  BY TypeGroups
<1> USE DEF ObjectTypes, PodTypes
<1>0. Stack \subseteq Names /\ "job" \in Kinds /\ \A s \in Stack : Kind(s) \in Kinds
  BY KindsOfServices DEF Kinds
<1>1. obj[d]["job"] \in Foreign => obj'[d]["job"] \in Foreign
  BY <1>t, <1>0, ForeignStays
<1>2. ASSUME obj[d]["job"] = "this", fresh[d] PROVE obj'[d]["job"] = "this" /\ fresh'[d]
  <2>1. CASE UNCHANGED <<obj, fresh>>
    BY <2>1, <1>2
  <2>2. CASE destroyServicesNotInStack
    <3>1. PICK S \in SUBSET Leftovers : DestroyWorkloads(S)
      BY <2>2 DEF destroyServicesNotInStack
    <3>2. d \notin Leftover("job")
      BY DEF Leftover
    <3> QED
      BY <3>1, <3>2, <1>0, <1>2 DEF DestroyWorkloads
  <2>3. ASSUME NEW s \in Stack, deploySvc(s) PROVE obj'[d]["job"] = "this" /\ fresh'[d]
    <3>1. s # d
      BY <2>3, <1>0, NamesAssumption DEF deploySvc, NextIsReady
    <3>2. PICK o \in {"this", "absent"} : obj' = obj \/ obj' = [obj EXCEPT ![s][Kind(s)] = o]
      BY <2>3 DEF deploySvc, Apply
    <3>3. fresh' = fresh \/ fresh' = [fresh EXCEPT ![s] = TRUE]
      BY <2>3 DEF deploySvc, Apply
    <3>4. obj'[d]["job"] = "this"
      BY <3>1, <3>2, <1>0, <1>2, <1>t
    <3>5. fresh'[d]
      BY <3>1, <3>3, <1>0, <1>2, <1>t
    <3> QED
      BY <3>4, <3>5
  <2>4. ASSUME NEW s \in Stack, PodStep(s) PROVE obj'[d]["job"] = "this" /\ fresh'[d]
    <3>1. obj' = obj /\ (fresh' = fresh \/ fresh' = [fresh EXCEPT ![s] = TRUE])
      BY <2>4 DEF PodStep
    <3>2. fresh'[d]
      BY <3>1, <1>0, <1>2, <1>t
    <3> QED
      BY <3>1, <3>2, <1>2
  <2>5. \/ UNCHANGED <<obj, fresh>> \/ destroyServicesNotInStack
        \/ \E s \in Stack : deploySvc(s) \/ PodStep(s)
    BY StackSteps, QuietFrame DEF clusterVars, DeployK8sServices, waitForPodsToBeRunning, VisitService
  <2> QED
    BY <2>1, <2>2, <2>3, <2>4, <2>5
<1> QED
  BY <1>1, <1>2

\* A job of this command that succeeded stays completed.
LEMMA CompletedStays ==
  ASSUME IsScenario(scen), StackTypeOK, NextIsReady, JobsAreNew, [StackNext]_stackVars,
         NEW d \in deployed, d \in Stack, Kind(d) = "job", Completed(d)
  PROVE  Completed(d)'
<1>t. ObjectTypes /\ PodTypes
  BY TypeGroups
<1>0. Stack \subseteq Names
  BY KindsOfServices
<1>1. CASE obj[d]["job"] \in Foreign
  BY <1>1, DeployedJobsStay DEF Completed
<1>2. CASE obj[d]["job"] \notin Foreign
  <2>1. obj[d]["job"] = "this" /\ fresh[d] /\ pod[d] = "succeeded"
    BY <1>2 DEF JobsAreNew, Completed
  <2>2. fresh'[d]
    BY <2>1, DeployedJobsStay
  <2>3. pod'[d] = "succeeded"
    <3>1. CASE pod' = pod
      BY <3>1, <2>1
    <3>2. CASE destroyServicesNotInStack
      <4>1. PICK S \in SUBSET Leftovers : DestroyWorkloads(S)
        BY <3>2 DEF destroyServicesNotInStack
      <4> QED
        BY <4>1, <2>1, <1>0 DEF DestroyWorkloads
    <3>3. ASSUME NEW s \in Stack, deploySvc(s) PROVE pod'[d] = "succeeded"
      <4>1. s # d
        BY <3>3, <1>0, NamesAssumption DEF deploySvc, NextIsReady
      <4>2. PICK p \in {"starting", "none"} : pod' = pod \/ pod' = [pod EXCEPT ![s] = p]
        BY <3>3 DEF deploySvc, Apply
      <4> QED
        BY <4>1, <4>2, <2>1, <1>0, <1>t DEF PodTypes
    <3>4. ASSUME NEW s \in Stack, PodStep(s) PROVE pod'[d] = "succeeded"
      <4>1. CASE s = d
        BY <3>4, <4>1, <2>1 DEF PodStep, SetPod
      <4>2. CASE s # d
        <5>1. PICK p \in PodStates : pod' = [pod EXCEPT ![s] = p]
          BY <3>4 DEF PodStep, SetPod, PodStates
        <5> QED
          BY <5>1, <4>2, <2>1, <1>0, <1>t DEF PodTypes
      <4> QED
        BY <4>1, <4>2
    <3>5. \/ pod' = pod \/ destroyServicesNotInStack \/ \E s \in Stack : deploySvc(s) \/ PodStep(s)
      BY StackSteps, QuietFrame DEF clusterVars, DeployK8sServices, waitForPodsToBeRunning, VisitService
    <3> QED
      BY <3>1, <3>2, <3>3, <3>4, <3>5
  <2> QED
    BY <2>2, <2>3 DEF Completed
<1> QED
  BY <1>1, <1>2

-----------------------------------------------------------------------------
\* A job of the list of deployed services is new.
LEMMA JobsStep ==
  ASSUME IsScenario(scen), StackTypeOK, StackPhases, NextIsReady, JobsAreNew, [StackNext]_stackVars
  PROVE  JobsAreNew'
<1> SUFFICES ASSUME NEW d \in deployed', Kind(d) = "job"
             PROVE  (obj'[d]["job"] = "this" /\ fresh'[d]) \/ obj'[d]["job"] \in Foreign
  BY ScenarioStays DEF JobsAreNew, Kind
<1>t. ObjectTypes /\ PodTypes /\ ListTypes
  BY TypeGroups
<1>1. CASE d \in deployed
  <2>1. d \in Stack
    BY <1>1, <1>t DEF StackPhases, ListTypes
  <2> QED
    BY <1>1, <2>1, DeployedJobsStay DEF JobsAreNew
<1>2. CASE d \notin deployed
  <2>1. d \in Stack /\ deploySvc(d)
    BY <1>2, StackSteps, QuietFrame DEF DeployK8sServices, destroyServicesNotInStack,
       waitForPodsToBeRunning, VisitService, PodStep, progVars, deploySvc
  <2>2. d \in Names /\ "job" \in Kinds
    BY <2>1, KindsOfServices DEF Kinds
  <2>3. IF Mine(obj[d]["job"]) THEN Apply(d) ELSE UNCHANGED <<obj, pod, fresh, restarts>>
    BY <1>2, <2>1 DEF deploySvc
  <2>4. CASE Mine(obj[d]["job"])
    BY <2>3, <2>4, <2>2, <1>t DEF Apply, Recreated, ObjectTypes, PodTypes
  <2>5. CASE ~Mine(obj[d]["job"])
    <3>1. obj[d]["job"] \in Owners
      BY <2>2, <1>t DEF ObjectTypes
    <3> QED
      BY <2>3, <2>5, <3>1 DEF Mine, Owners, Foreign
  <2> QED
    BY <2>4, <2>5
<1> QED
  BY <1>1, <1>2

\* Only jobs are waited for until they are completed.
LEMMA CompletionIsOfJobs ==
  ASSUME IsScenario(scen), NEW s \in Stack, NEW d \in DOMAIN DependsOn(s), DependsOn(s)[d] = "completed"
  PROVE  d \in Stack /\ Kind(d) = "job"
BY DEF IsScenario, Stack, Kind, DependsOn

\* The dependencies of the next service are deployed, and their jobs completed.
LEMMA NextStep ==
  ASSUME IsScenario(scen), StackTypeOK, StackPhases, NextIsReady, JobsAreNew, [StackNext]_stackVars
  PROVE  NextIsReady'
<1> SUFFICES ASSUME cur' # "none" PROVE NextIsReady'
  BY DEF NextIsReady
<1>t. ListTypes
  BY TypeGroups
<1>s. scen' = scen /\ Stack' = Stack
  BY ScenarioStays DEF Stack
<1>0. Stack \subseteq Names /\ "none" \notin Stack
  BY KindsOfServices, NamesAssumption
<1>1. CASE cur' = cur
  <2>1. toDeploy' = toDeploy
    <3>1. ~Validate
      BY <1>1 DEF Validate, StackPhases, Checking
    <3> QED
      BY <3>1, StackSteps DEF Quiet, Main, buildStackImages, StartDeploy, StackSelectStop, StackSelectExit,
         WriteStatus, PressStackInterrupt, Done, stackVars, progVars, DeployVolumes, Tick, LoopEnds,
         DeployK8sServices, destroyServicesNotInStack, waitForPodsToBeRunning, VisitService, deploySvc,
         PodStep
  <2>2. deployed' = deployed
    <3>1. \A s \in Stack : ~deploySvc(s)
      BY <1>1, <1>0 DEF deploySvc
    <3> QED
      BY <3>1, StackSteps, QuietFrame DEF DeployK8sServices, destroyServicesNotInStack,
         waitForPodsToBeRunning, VisitService, PodStep, progVars
  <2>3. cur \in Stack
    BY <1>1, <1>t DEF NextIsReady, StackPhases
  <2>4. DependenciesDeployed(cur)' /\ DependsOn(cur)' = DependsOn(cur)
    BY <1>1, <1>s, <2>2 DEF NextIsReady, DependenciesDeployed, DependsOn
  <2>5. ASSUME NEW d \in DOMAIN DependsOn(cur), DependsOn(cur)[d] = "completed"
        PROVE  Completed(d)'
    <3>1. d \in deployed /\ Completed(d)
      BY <1>1, <2>5 DEF NextIsReady, DependenciesDeployed
    <3>2. d \in Stack /\ Kind(d) = "job"
      BY <2>3, <2>5, CompletionIsOfJobs
    <3> QED
      BY <3>1, <3>2, CompletedStays
  <2> QED
    BY <1>1, <2>1, <2>2, <2>4, <2>5 DEF NextIsReady
<1>2. CASE cur' # cur
  <2>1. PICK s \in Stack : VisitService(s)
    BY <1>2, StackSteps, QuietFrame DEF DeployK8sServices, destroyServicesNotInStack,
       waitForPodsToBeRunning, PodStep, progVars, deploySvc
  <2>2. /\ cur' = s /\ s \in toDeploy \ deployed /\ DependenciesDeployed(s)
        /\ toDeploy' = toDeploy /\ deployed' = deployed /\ UNCHANGED clusterVars
    BY <2>1, <1>2 DEF VisitService
  <2>3. PICK portOpen \in BOOLEAN : canSvcBeDeployed(s, portOpen)
    BY <2>1, <1>2 DEF VisitService
  <2>4. DependenciesDeployed(s)' /\ DependsOn(s)' = DependsOn(s)
    BY <1>s, <2>2 DEF DependenciesDeployed, DependsOn
  <2>5. ASSUME NEW d \in DOMAIN DependsOn(s), DependsOn(s)[d] = "completed"
        PROVE  Completed(d)'
    <3>1. d \in deployed /\ d \in Stack /\ Kind(d) = "job"
      BY <2>2, <2>5, CompletionIsOfJobs DEF DependenciesDeployed
    <3>2. isSvcReady(d, "completed", portOpen)
      BY <2>3, <2>5 DEF canSvcBeDeployed
    <3>3. pod[d] = "succeeded"
      BY <3>2 DEF isSvcReady, IsSucceeded
    <3>4. Completed(d)
      BY <3>1, <3>3 DEF JobsAreNew, Completed
    <3> QED
      BY <3>4, <2>2 DEF Completed, clusterVars
  <2> QED
    BY <2>2, <2>4, <2>5 DEF NextIsReady
<1> QED
  BY <1>1, <1>2

\* A service that waits for the completion of a job is deployed after it.
LEMMA CompletedStep ==
  ASSUME IsScenario(scen), StackTypeOK, StackPhases, DeployedInOrder, NextIsReady, JobsAreNew,
         CompletedInThisRun,
         [StackNext]_stackVars
  PROVE  CompletedInThisRun'
<1>s. scen' = scen
  BY ScenarioStays
<1>t. ListTypes
  BY TypeGroups
<1>0. Stack \subseteq Names /\ "none" \notin Stack
  BY KindsOfServices, NamesAssumption
<1> SUFFICES ASSUME NEW s \in deployed', NEW d \in DOMAIN DependsOn(s), DependsOn(s)[d] = "completed"
             PROVE  Completed(d)'
  BY <1>s DEF CompletedInThisRun, DependsOn
<1>1. s \in Stack /\ d \in deployed /\ Completed(d)
  <2>1. CASE s \in deployed
    <3>1. s \in Stack /\ deployed # {}
      BY <2>1, <1>t DEF StackPhases, ListTypes
    <3>2. Completed(d)
      BY <2>1 DEF CompletedInThisRun
    <3> QED
      BY <3>1, <3>2, <2>1 DEF DeployedInOrder, DependenciesDeployed
  <2>2. CASE s \notin deployed
    <3>1. s \in Stack /\ deploySvc(s)
      BY <2>2, StackSteps, QuietFrame DEF DeployK8sServices, destroyServicesNotInStack,
         waitForPodsToBeRunning, VisitService, PodStep, progVars, deploySvc
    <3>2. cur = s
      BY <3>1 DEF deploySvc
    <3> QED
      BY <3>1, <3>2, <1>0 DEF NextIsReady, DependenciesDeployed
  <2> QED
    BY <2>1, <2>2
<1>2. d \in Stack /\ Kind(d) = "job"
  BY <1>1, CompletionIsOfJobs
<1> QED
  BY <1>1, <1>2, CompletedStays

\* The services are deployed in the order that depends_on asks for.
LEMMA OrderStep ==
  ASSUME IsScenario(scen), StackTypeOK, StackPhases, DeployedInOrder, NextIsReady, [StackNext]_stackVars
  PROVE  DeployedInOrder'
<1>s. scen' = scen
  BY ScenarioStays
<1>1. CASE deployed' = deployed
  BY <1>1, <1>s DEF DeployedInOrder, DependenciesDeployed, DependsOn
<1>2. CASE deployed' # deployed
  <2>1. PICK s \in Stack : deploySvc(s)
    BY <1>2, StackSteps, QuietFrame DEF DeployK8sServices, destroyServicesNotInStack,
       waitForPodsToBeRunning, VisitService, PodStep, progVars
  <2>2. cur = s /\ cur # "none" /\ deployed' = deployed \cup {s}
    BY <2>1, <1>2, KindsOfServices, NamesAssumption DEF deploySvc
  <2> QED
    BY <2>2, <1>s DEF DeployedInOrder, NextIsReady, DependenciesDeployed, DependsOn
<1> QED
  BY <1>1, <1>2

\* The workloads of other kinds than the compose file's.
LEMMA OtherKindsStep ==
  ASSUME IsScenario(scen), StackTypeOK, OtherKindsStay, [StackNext]_stackVars
  PROVE  OtherKindsStay'
<1>s. scen' = scen
  BY ScenarioStays
<1>t. ObjectTypes
  BY TypeGroups
<1> SUFFICES ASSUME NEW n \in Names, NEW k \in Kinds, ~(n \in Stack /\ Kind(n) = k)
             PROVE  obj'[n][k] \in {obj[n][k], "absent"}
  BY <1>s DEF OtherKindsStay, Stack, Kind
<1>0. Stack \subseteq Names /\ \A s \in Stack : Kind(s) \in Kinds
  BY KindsOfServices
<1>1. CASE obj' = obj
  BY <1>1
<1>2. CASE destroyServicesNotInStack
  <2>1. PICK S \in SUBSET Leftovers : DestroyWorkloads(S)
    BY <1>2 DEF destroyServicesNotInStack
  <2> QED
    BY <2>1 DEF DestroyWorkloads
<1>3. ASSUME NEW s \in Stack, deploySvc(s) PROVE obj'[n][k] \in {obj[n][k], "absent"}
  <2>1. PICK o \in {"this", "absent"} : obj' = obj \/ obj' = [obj EXCEPT ![s][Kind(s)] = o]
    BY <1>3 DEF deploySvc, Apply
  <2> QED
    BY <2>1, <1>0, <1>t DEF ObjectTypes
<1>4. obj' = obj \/ destroyServicesNotInStack \/ \E s \in Stack : deploySvc(s)
  BY StackSteps, QuietFrame DEF clusterVars, DeployK8sServices, waitForPodsToBeRunning, VisitService, PodStep
<1> QED
  BY <1>1, <1>2, <1>3, <1>4

\* Nothing follows success but the end of the command.
LEMMA SuccessIsLast ==
  ASSUME StackTypeOK, StackPhases, Succeeds, [StackNext]_stackVars
  PROVE  UNCHANGED <<toDeploy, counted, svc>>
<1>1. go = "ended" /\ ~Checking
  BY DEF StackPhases, Succeeds
<1>2. CASE Quiet
  <2>1. ~Validate
    BY <1>1 DEF Validate, Checking
  <2>2. toDeploy' = toDeploy
    BY <2>1, <1>2 DEF Quiet, Main, buildStackImages, StartDeploy, StackSelectStop, StackSelectExit,
       WriteStatus, PressStackInterrupt, Done, stackVars, progVars, DeployVolumes, Tick, LoopEnds
  <2> QED
    BY <2>2, <1>2, QuietFrame DEF clusterVars
<1>3. ~DeployK8sServices /\ ~destroyServicesNotInStack /\ ~waitForPodsToBeRunning
  BY <1>1 DEF DeployK8sServices, destroyServicesNotInStack, waitForPodsToBeRunning, Alive
<1>4. \A s \in Stack : ~VisitService(s) /\ ~deploySvc(s) /\ ~PodStep(s)
  BY <1>1 DEF VisitService, deploySvc, PodStep, Alive
<1> QED
  BY <1>2, <1>3, <1>4, StackSteps

\* Success comes from the end of the goroutine's work.
LEMMA SuccessBegins ==
  ASSUME StackTypeOK, StackPhases, ~Succeeds, Succeeds', [StackNext]_stackVars
  PROVE  \/ destroyServicesNotInStack /\ ~scen.wait /\ DestroyWorkloads(Leftovers)
         \/ waitForPodsToBeRunning /\ Cardinality(RunningPods) = Cardinality(toDeploy)
<1> USE DEF Succeeds
<1>1. ~Validate /\ ~buildStackImages /\ ~StartDeploy /\ ~StackSelectStop /\ ~WriteStatus
  BY DEF Validate, buildStackImages, StartDeploy, StackSelectStop, WriteStatus, Return
<1>2. ~StackSelectExit
  BY DEF StackSelectExit
<1>3. ~PressStackInterrupt /\ ~Done /\ ~UNCHANGED stackVars
  BY DEF PressStackInterrupt, Done, stackVars, progVars
<1>4. ~DeployVolumes /\ ~Tick /\ ~LoopEnds /\ ~DeployK8sServices
  BY DEF DeployVolumes, Tick, LoopEnds, DeployK8sServices, Goto, Exit
<1>5. \A s \in Stack : ~VisitService(s) /\ ~deploySvc(s) /\ ~PodStep(s)
  BY DEF VisitService, deploySvc, PodStep, progVars, Goto, Exit
<1>6. destroyServicesNotInStack \/ waitForPodsToBeRunning
  BY <1>1, <1>2, <1>3, <1>4, <1>5, StackSteps DEF Quiet, Main
<1> QED
  BY <1>6 DEF destroyServicesNotInStack, waitForPodsToBeRunning, Goto, Exit

\* The clean-up takes away the Kubernetes services of leftovers only.
LEMMA CleanUpLoses ==
  ASSUME IsScenario(scen), StackTypeOK, OtherKindsStay, DestroyWorkloads(Leftovers),
         NEW s \in Stack, svc[s] # "absent", scen' = scen
  PROVE  LostByKindChange(s)'
<1>0. s \in Names
  BY KindsOfServices
<1>1. CASE s \notin Leftovers
  BY <1>0, <1>1 DEF DestroyWorkloads, LostByKindChange
<1>2. CASE s \in Leftovers
  <2>1. PICK k \in Kinds : s \in Leftover(k)
    BY <1>2 DEF Leftovers
  <2>2. k # Kind(s) /\ obj[s][k] = "this"
    BY <2>1 DEF Leftover
  <2>3. scen.obj[s][k] = "this"
    BY <2>2, <1>0 DEF OtherKindsStay
  <2> QED
    BY <2>2, <2>3 DEF LostByKindChange, Kind
<1> QED
  BY <1>1, <1>2

\* The Kubernetes services of the compose file stand once they have been applied, but
\* for those that a workload of another kind took with it.
LEMMA ServicesStep ==
  ASSUME IsScenario(scen), StackTypeOK, StackPhases, OtherKindsStay, ServicesStand, [StackNext]_stackVars
  PROVE  ServicesStand'
<1>s. scen' = scen
  BY ScenarioStays
<1>0. Stack \subseteq Names
  BY KindsOfServices
<1>t. ObjectTypes /\ ListTypes
  BY TypeGroups
<1>d. go' # "not started" => toDeploy' = toDeploy
  BY StackSteps DEF Quiet, Main, Validate, buildStackImages, StartDeploy, StackSelectStop, StackSelectExit,
     WriteStatus, PressStackInterrupt, Done, stackVars, progVars, DeployVolumes, Tick, LoopEnds,
     DeployK8sServices, destroyServicesNotInStack, waitForPodsToBeRunning, VisitService, deploySvc,
     PodStep, StackPhases, Checking
<1>1. ASSUME go' \in {"volumes", "tick", "loop", "destroy"}, NEW s \in toDeploy' \cap scen.ports
      PROVE  svc'[s] # "absent"
  <2>1. s \in toDeploy
    BY <1>1, <1>d
  <2>2. CASE DeployK8sServices
    <3>1. svc' = [n \in Names |-> IF n \in toDeploy \cap scen.ports THEN deployK8sService(svc[n]) ELSE svc[n]]
      BY <1>1, <2>2 DEF DeployK8sServices, Goto, Exit
    <3> QED
      BY <3>1, <2>1, <1>1, <1>t DEF ListTypes, deployK8sService
  <2>3. CASE ~DeployK8sServices
    <3>1. ~destroyServicesNotInStack
      BY <1>1 DEF destroyServicesNotInStack, Goto, Exit
    <3>2. svc' = svc
      BY <2>3, <3>1, StackSteps, QuietFrame DEF clusterVars, waitForPodsToBeRunning, VisitService, deploySvc,
         PodStep
    <3>3. go \in {"volumes", "tick", "loop", "destroy"}
      BY <1>1, <2>3, <3>1, StackSteps DEF Quiet, Main, Validate, buildStackImages, StartDeploy,
         StackSelectStop, StackSelectExit, WriteStatus, PressStackInterrupt, Done, stackVars, progVars,
         DeployVolumes, Tick, LoopEnds, waitForPodsToBeRunning, VisitService, deploySvc, PodStep,
         Alive, Goto, Exit
    <3> QED
      BY <3>2, <3>3, <2>1, <1>1 DEF ServicesStand
  <2> QED
    BY <2>2, <2>3
<1>2. ASSUME go' = "wait" \/ Succeeds', NEW s \in toDeploy' \cap scen.ports
      PROVE  LostByKindChange(s)'
  <2>1. CASE Succeeds
    <3>1. svc' = svc /\ toDeploy' = toDeploy
      BY <2>1, SuccessIsLast
    <3> QED
      BY <3>1, <2>1, <1>2, <1>s DEF ServicesStand, LostByKindChange, Kind
  <2>2. CASE destroyServicesNotInStack /\ DestroyWorkloads(Leftovers) /\ ~Succeeds
    <3>1. toDeploy' = toDeploy /\ go = "destroy"
      BY <2>2 DEF destroyServicesNotInStack, Alive
    <3>2. s \in Stack /\ svc[s] # "absent"
      BY <3>1, <1>2 DEF StackPhases, ServicesStand
    <3> QED
      BY <3>2, <2>2, <1>s, CleanUpLoses
  <2>3. CASE waitForPodsToBeRunning /\ ~Succeeds
    <3>1. go = "wait" /\ toDeploy' = toDeploy /\ svc' = svc
      BY <2>3 DEF waitForPodsToBeRunning, Alive, clusterVars
    <3> QED
      BY <3>1, <1>2, <1>s DEF ServicesStand, LostByKindChange, Kind
  <2>4. CASE ~Succeeds /\ ~Succeeds' /\ ~(destroyServicesNotInStack /\ DestroyWorkloads(Leftovers))
    <3>1. go' = "wait"
      BY <1>2, <2>4
    <3>2. go = "wait"
      BY <3>1, <2>4, StackSteps DEF Quiet, Main, Validate, buildStackImages, StartDeploy,
         StackSelectStop, StackSelectExit, WriteStatus, PressStackInterrupt, Done, stackVars, progVars,
         DeployVolumes, Tick, LoopEnds, waitForPodsToBeRunning, VisitService, deploySvc, PodStep,
         DeployK8sServices, destroyServicesNotInStack, Alive, Goto, Exit
    <3>3. svc' = svc
      BY <3>1, <3>2, StackSteps, QuietFrame DEF clusterVars, waitForPodsToBeRunning, VisitService, deploySvc,
         PodStep, DeployK8sServices, destroyServicesNotInStack, Alive
    <3>4. toDeploy' = toDeploy
      BY <3>1, <1>d
    <3> QED
      BY <3>2, <3>3, <3>4, <1>2, <1>s DEF ServicesStand, LostByKindChange, Kind
  <2> QED
    BY <2>1, <2>2, <2>3, <2>4, SuccessBegins
<1> QED
  BY <1>1, <1>2, <1>s DEF ServicesStand

\* A poll that sees as many pods as services has seen the pods of all of them, or
\* a pod of another service.
LEMMA SameNumber ==
  ASSUME NEW S \in SUBSET Names, NEW T \in SUBSET Names, Cardinality(S) = Cardinality(T)
  PROVE  T \subseteq S \/ S \ T # {}
<1> SUFFICES ASSUME S \subseteq T PROVE S = T
  OBVIOUS
<1>1. IsFiniteSet(T)
  BY NamesAssumption, FS_Subset
<1> QED
  BY <1>1, FS_Subset

\* The poll that counted every service has seen a pod of each of them.
LEMMA CountedStep ==
  ASSUME IsScenario(scen), StackTypeOK, StackPhases, Succeeds /\ scen.wait => CountedAll,
         [StackNext]_stackVars, Succeeds', scen'.wait
  PROVE  CountedAll'
<1>s. scen' = scen
  BY ScenarioStays
<1>t. ListTypes
  BY TypeGroups
<1>1. CASE Succeeds
  BY <1>1, <1>s, SuccessIsLast DEF CountedAll
<1>2. CASE ~Succeeds
  <2>1. waitForPodsToBeRunning /\ Cardinality(RunningPods) = Cardinality(toDeploy)
    BY <1>2, <1>s, SuccessBegins
  <2>2. RunningPods \subseteq Names /\ counted' = RunningPods /\ toDeploy' = toDeploy
    BY <2>1 DEF waitForPodsToBeRunning, RunningPods, StackPods
  <2> QED
    BY <2>1, <2>2, <1>t, SameNumber DEF CountedAll, ListTypes
<1> QED
  BY <1>1, <1>2

\* What the command reports is what the poll has seen.
LEMMA StatusStep ==
  ASSUME StackTypeOK, StackPhases, StatusIsTrue, [StackNext]_stackVars
  PROVE  StatusIsTrue'
<1> USE DEF StatusIsTrue
<1>1. CASE stackMain = "done"
  <2>1. UNCHANGED <<stackMain, status, result>>
    BY <1>1, StackSteps DEF Quiet, Main, Validate, buildStackImages, StartDeploy,
         StackSelectStop, StackSelectExit, WriteStatus, PressStackInterrupt, Done, stackVars, progVars,
         DeployVolumes, Tick, LoopEnds, waitForPodsToBeRunning, VisitService, deploySvc, PodStep,
         DeployK8sServices, destroyServicesNotInStack
  <2> QED
    BY <2>1, <1>1
<1>2. CASE stackMain # "done" /\ stackMain' = "done"
  <2>1. Validate \/ buildStackImages \/ StartDeploy \/ WriteStatus
    BY <1>2, StackSteps DEF Quiet, Main, 
         StackSelectStop, StackSelectExit, PressStackInterrupt, Done, stackVars, progVars,
         DeployVolumes, Tick, LoopEnds, waitForPodsToBeRunning, VisitService, deploySvc, PodStep,
         DeployK8sServices, destroyServicesNotInStack
  <2> QED
    BY <1>2, <2>1 DEF Validate, buildStackImages, StartDeploy, WriteStatus, Return, StackPhases
<1> QED
  BY <1>1, <1>2

-----------------------------------------------------------------------------
\* The counters of the restarts have a first and a last value.
LEMMA RestartBounds == 0 \in 0..MaxRestarts /\ MaxRestarts + 1 \in 0..MaxRestarts + 1
BY RestartsAssumption

\* A deployment that begins satisfies the invariant.
LEMMA StackStart == StackInit => StackIInv
<1> SUFFICES ASSUME StackInit PROVE StackIInv
  OBVIOUS
<1> USE DEF StackInit
<1>s. IsScenario(scen)
  BY ScenariosAssumption
<1>1. StackTypeOK
  <2>1. ProgTypes
    BY DEF ProgTypes
  <2>2. ListTypes
    BY <1>s DEF ListTypes, IsScenario
  <2>3. ObjectTypes
    BY <1>s DEF ObjectTypes, IsScenario
  <2>4. PodTypes
    <3>1. firstSeen \in [Names -> 0..MaxRestarts + 1] /\ restarts \in [Names -> 0..MaxRestarts]
      BY RestartBounds
    <3>2. pod \in [Names -> PodStates]
      BY DEF PodStates
    <3>3. fresh \in [Names -> BOOLEAN]
      OBVIOUS
    <3> QED
      BY <3>1, <3>2, <3>3 DEF PodTypes
  <2> QED
    BY <2>1, <2>2, <2>3, <2>4, TypeGroups
<1>2. StackPhases
  BY DEF StackPhases, Checking
<1>3. DeployedInOrder /\ JobsAreNew /\ NextIsReady /\ CompletedInThisRun
  BY DEF DeployedInOrder, JobsAreNew, NextIsReady, CompletedInThisRun
<1>4. OtherKindsStay
  BY DEF OtherKindsStay
<1>5. ServicesStand /\ (Succeeds /\ scen.wait => CountedAll) /\ StatusIsTrue
  BY DEF ServicesStand, Succeeds, StatusIsTrue
<1> QED
  BY <1>s, <1>1, <1>2, <1>3, <1>4, <1>5 DEF StackIInv

\* Every step of the deployment, of the cluster and of the user preserves it.
LEMMA StackStep == StackIInv /\ [StackNext]_stackVars => StackIInv'
<1> SUFFICES ASSUME StackIInv, [StackNext]_stackVars PROVE StackIInv'
  OBVIOUS
<1> USE DEF StackIInv
<1>1. StackTypeOK'
  <2>1. ProgTypes' /\ ListTypes' /\ ObjectTypes' /\ PodTypes'
    BY TypeGroups, ProgTypesStep, ListTypesStep, ObjectTypesStep, PodTypesStep
  <2> QED
    BY <2>1 DEF StackTypeOK, ProgTypes, ListTypes, ObjectTypes, PodTypes
<1>2. IsScenario(scen)' /\ StackPhases'
  BY ScenarioStep, PhasesStep
<1>3. DeployedInOrder' /\ JobsAreNew' /\ NextIsReady' /\ CompletedInThisRun'
  BY OrderStep, JobsStep, NextStep, CompletedStep
<1>4. OtherKindsStay' /\ ServicesStand'
  BY OtherKindsStep, ServicesStep
<1>5. Succeeds' /\ scen'.wait => CountedAll'
  BY CountedStep
<1>6. StatusIsTrue'
  BY StatusStep
<1> QED
  BY <1>1, <1>2, <1>3, <1>4, <1>5, <1>6

\* The inductive invariant of a deployment: what the loop of deployServices and its
\* poll have recorded agrees with the cluster, and the outcome with both.
THEOREM StackInvariance == StackSpec => []StackIInv
BY StackStart, StackStep, PTL DEF StackSpec

\* For every compose file and cluster, and whatever the pods, the time-outs and CTRL+C
\* do, deploy.go reports what happened: no job of an earlier command satisfies a
\* dependency, success means that the Kubernetes services exist and that --wait has
\* counted the pods, and the config map says deployed only then.
THEOREM ComposeIsTruthful == StackSpec => []ComposeTellsTheTruth
<1>1. StackIInv => ComposeTellsTheTruth
  <2> SUFFICES ASSUME StackIInv PROVE ComposeTellsTheTruth
    OBVIOUS
  <2> USE DEF StackIInv
  <2>1. ServiceLostOnlyByKindChange
    BY DEF ServiceLostOnlyByKindChange, ServicesStand, Succeeds
  <2>2. WaitCountsPods
    BY DEF WaitCountsPods, Succeeds
  <2> QED
    BY <2>1, <2>2 DEF ComposeTellsTheTruth
<1> QED
  BY <1>1, StackInvariance, PTL

\* No deployment changes a workload with the label of another compose file or without
\* one, neither when it deploys its services nor when it cleans up.
THEOREM ForeignWorkloadsAlwaysStay == StackSpec => ComposeForeignWorkloadsStay
<1> DEFINE Kept == \A s \in Names, k \in Kinds : obj[s][k] \in Foreign => obj'[s][k] = obj[s][k]
<1>1. StackIInv /\ [StackNext]_stackVars => [Kept]_stackVars
  BY TypeGroups, ForeignStays DEF StackIInv
<1> QED
  BY <1>1, StackInvariance, PTL DEF StackSpec, ComposeForeignWorkloadsStay
=============================================================================
