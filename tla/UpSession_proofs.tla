-------------------------- MODULE UpSession_proofs --------------------------
(***************************************************************************)
(* The activations of a session are serial and its end is clean, for any   *)
(* number of activations and whatever fails, is taken over or interrupted. *)
(* That the forwarders of earlier activations are closed is not inductive: *)
(* the deferred shutdown stops the forwarder the field holds, so it must   *)
(* also be known that an open forwarder is the one in the field, and that  *)
(* the loop leaves activate only with its context cancelled.               *)
(***************************************************************************)
EXTENDS UpSession, TLAPS

\* The numbers of activations.
LEMMA Indices ==
  /\ 0 \in Index
  /\ \A k \in Act : k \in Index
  /\ \A i \in Index : i # 0 => i \in Act
  /\ \A i \in Index : i < MaxActivations => i + 1 \in Index
  BY ConstantsAssumption DEF ConstantsAssumption, Index, Act

\* A new session satisfies the invariant.
LEMMA InitEstablishes == Init => IInv
<1> SUFFICES ASSUME Init PROVE IInv
  OBVIOUS
<1>0. FlagTypes
  BY DEF Init, FlagTypes
<1>1. FieldTypes
  BY Indices DEF Init, FieldTypes, Errs
<1>2. ActivationTypes
  BY Indices DEF Init, ActivationTypes, Errs
<1>3. ExitProtocol
  BY DEF Init, ExitProtocol, Outside
<1>4. OneActivation
  BY DEF Init, OneActivation, Outside, Act
<1> QED
  BY <1>0, <1>1, <1>2, <1>3, <1>4 DEF IInv, TypeOK

\* Every step of the main goroutine, the loop, the goroutines of the activations
\* and the environment preserves it.
LEMMA StepPreserves == IInv /\ [Next]_vars => IInv'
<1> SUFFICES ASSUME IInv, [Next]_vars PROVE IInv'
  OBVIOUS
<1>b. FlagTypes
  BY DEF IInv, TypeOK
<1>f. FieldTypes
  BY DEF IInv, TypeOK
<1>a. ActivationTypes
  BY DEF IInv, TypeOK
<1>e. ExitProtocol
  BY DEF IInv
<1>o. OneActivation
  BY DEF IInv
<1> USE Indices
    DEF Errs, mainVars, loopVars, actVars, chanVars, syncVars, fwdVars, goVars, envVars
<1>1. CASE MainProvide
  <2>0. FlagTypes'
    BY <1>b, <1>1 DEF FlagTypes, MainProvide, ExitWith
  <2>1. FieldTypes'
    BY <1>f, <1>1 DEF FieldTypes, MainProvide, ExitWith
  <2>2. ActivationTypes'
    BY <1>a, <1>1 DEF ActivationTypes, MainProvide, ExitWith
  <2>3. ExitProtocol'
    BY <1>f, <1>e, <1>1 DEF FieldTypes, ExitProtocol, Outside, MainProvide, ExitWith
  <2>4. OneActivation'
    BY <1>f, <1>a, <1>e, <1>o, <1>1 DEF FieldTypes, ActivationTypes, ExitProtocol,
       OneActivation, Outside, MainProvide, ExitWith
  <2> QED
    BY <2>0, <2>1, <2>2, <2>3, <2>4 DEF IInv, TypeOK
<1>2. CASE MainInterrupt
  <2>0. FlagTypes'
    BY <1>b, <1>2 DEF FlagTypes, MainInterrupt
  <2>1. FieldTypes'
    BY <1>f, <1>2 DEF FieldTypes, MainInterrupt
  <2>2. ActivationTypes'
    BY <1>a, <1>2 DEF ActivationTypes, MainInterrupt
  <2>3. ExitProtocol'
    BY <1>f, <1>e, <1>2 DEF FieldTypes, ExitProtocol, Outside, MainInterrupt
  <2>4. OneActivation'
    BY <1>f, <1>a, <1>e, <1>o, <1>2 DEF FieldTypes, ActivationTypes, ExitProtocol,
       OneActivation, Outside, MainInterrupt
  <2> QED
    BY <2>0, <2>1, <2>2, <2>3, <2>4 DEF IInv, TypeOK
<1>3. CASE MainCancel
  <2>0. FlagTypes'
    BY <1>b, <1>3 DEF FlagTypes, MainCancel, CancelContext
  <2>1. FieldTypes'
    BY <1>f, <1>3 DEF FieldTypes, MainCancel, CancelContext
  <2>2. ActivationTypes'
    BY <1>a, <1>3 DEF ActivationTypes, MainCancel, CancelContext
  <2>3. ExitProtocol'
    BY <1>f, <1>e, <1>3 DEF FieldTypes, ExitProtocol, Outside, MainCancel, CancelContext
  <2>4. OneActivation'
    BY <1>f, <1>a, <1>e, <1>o, <1>3 DEF FieldTypes, ActivationTypes, ExitProtocol,
       OneActivation, Outside, MainCancel, CancelContext
  <2> QED
    BY <2>0, <2>1, <2>2, <2>3, <2>4 DEF IInv, TypeOK
<1>4. CASE MainStop
  <2>0. FlagTypes'
    BY <1>b, <1>4 DEF FlagTypes, MainStop, StopSyncAndForwarder
  <2>1. FieldTypes'
    BY <1>f, <1>4 DEF FieldTypes, MainStop, StopSyncAndForwarder
  <2>2. ActivationTypes'
    BY <1>a, <1>4 DEF ActivationTypes, MainStop, StopSyncAndForwarder
  <2>3. ExitProtocol'
    BY <1>f, <1>e, <1>4 DEF FieldTypes, ExitProtocol, Outside, MainStop,
       StopSyncAndForwarder
  <2>4. OneActivation'
    BY <1>f, <1>a, <1>e, <1>o, <1>4 DEF FieldTypes, ActivationTypes, ExitProtocol,
       OneActivation, Outside, MainStop, StopSyncAndForwarder
  <2> QED
    BY <2>0, <2>1, <2>2, <2>3, <2>4 DEF IInv, TypeOK
<1>5. CASE MainSend
  <2>0. FlagTypes'
    BY <1>b, <1>5 DEF FlagTypes, MainSend, SendShutdownCompleted
  <2>1. FieldTypes'
    BY <1>f, <1>5 DEF FieldTypes, MainSend, SendShutdownCompleted
  <2>2. ActivationTypes'
    BY <1>a, <1>5 DEF ActivationTypes, MainSend, SendShutdownCompleted
  <2>3. ExitProtocol'
    BY <1>f, <1>e, <1>5 DEF FieldTypes, ExitProtocol, Outside, MainSend,
       SendShutdownCompleted
  <2>4. OneActivation'
    BY <1>f, <1>a, <1>e, <1>o, <1>5 DEF FieldTypes, ActivationTypes, ExitProtocol,
       OneActivation, Outside, MainSend, SendShutdownCompleted
  <2> QED
    BY <2>0, <2>1, <2>2, <2>3, <2>4 DEF IInv, TypeOK
<1>6. CASE MainAutoDown
  <2>0. FlagTypes'
    BY <1>b, <1>6 DEF FlagTypes, MainAutoDown, ExitWith
  <2>1. FieldTypes'
    BY <1>f, <1>6 DEF FieldTypes, MainAutoDown, ExitWith
  <2>2. ActivationTypes'
    BY <1>a, <1>6 DEF ActivationTypes, MainAutoDown, ExitWith
  <2>3. ExitProtocol'
    BY <1>f, <1>e, <1>6 DEF FieldTypes, ExitProtocol, Outside, MainAutoDown, ExitWith
  <2>4. OneActivation'
    BY <1>f, <1>a, <1>e, <1>o, <1>6 DEF FieldTypes, ActivationTypes, ExitProtocol,
       OneActivation, Outside, MainAutoDown, ExitWith
  <2> QED
    BY <2>0, <2>1, <2>2, <2>3, <2>4 DEF IInv, TypeOK
<1>7. CASE MainExit
  <2>0. FlagTypes'
    BY <1>b, <1>7 DEF FlagTypes, MainExit, ExitWith
  <2>1. FieldTypes'
    BY <1>f, <1>7 DEF FieldTypes, MainExit, ExitWith
  <2>2. ActivationTypes'
    BY <1>a, <1>7 DEF ActivationTypes, MainExit, ExitWith
  <2>3. ExitProtocol'
    BY <1>f, <1>e, <1>7 DEF FieldTypes, ExitProtocol, Outside, MainExit, ExitWith
  <2>4. OneActivation'
    BY <1>f, <1>a, <1>e, <1>o, <1>7 DEF FieldTypes, ActivationTypes, ExitProtocol,
       OneActivation, Outside, MainExit, ExitWith
  <2> QED
    BY <2>0, <2>1, <2>2, <2>3, <2>4 DEF IInv, TypeOK
<1>8. CASE MainPidChanged
  <2>0. FlagTypes'
    BY <1>b, <1>8 DEF FlagTypes, MainPidChanged, ExitWith
  <2>1. FieldTypes'
    BY <1>f, <1>8 DEF FieldTypes, MainPidChanged, ExitWith
  <2>2. ActivationTypes'
    BY <1>a, <1>8 DEF ActivationTypes, MainPidChanged, ExitWith
  <2>3. ExitProtocol'
    BY <1>f, <1>e, <1>8 DEF FieldTypes, ExitProtocol, Outside, MainPidChanged, ExitWith
  <2>4. OneActivation'
    BY <1>f, <1>a, <1>e, <1>o, <1>8 DEF FieldTypes, ActivationTypes, ExitProtocol,
       OneActivation, Outside, MainPidChanged, ExitWith
  <2> QED
    BY <2>0, <2>1, <2>2, <2>3, <2>4 DEF IInv, TypeOK
<1>9. CASE LoopTop
  <2>0. FlagTypes'
    BY <1>b, <1>9 DEF FlagTypes, LoopTop, LoopGoto, Alive
  <2>1. FieldTypes'
    BY <1>f, <1>9 DEF FieldTypes, LoopTop, LoopGoto, Alive
  <2>2. ActivationTypes'
    BY <1>a, <1>9 DEF ActivationTypes, LoopTop, LoopGoto, Alive
  <2>3. ExitProtocol'
    BY <1>f, <1>e, <1>9 DEF FieldTypes, ExitProtocol, Outside, LoopTop, LoopGoto, Alive
  <2>4. OneActivation'
    BY <1>f, <1>a, <1>e, <1>o, <1>9 DEF FieldTypes, ActivationTypes, ExitProtocol,
       OneActivation, Outside, LoopTop, LoopGoto, Alive
  <2> QED
    BY <2>0, <2>1, <2>2, <2>3, <2>4 DEF IInv, TypeOK
<1>10. CASE LoopWaitShutdown
  <2>0. FlagTypes'
    BY <1>b, <1>10 DEF FlagTypes, LoopWaitShutdown, LoopGoto, Alive
  <2>1. FieldTypes'
    BY <1>f, <1>10 DEF FieldTypes, LoopWaitShutdown, LoopGoto, Alive
  <2>2. ActivationTypes'
    BY <1>a, <1>10 DEF ActivationTypes, LoopWaitShutdown, LoopGoto, Alive
  <2>3. ExitProtocol'
    BY <1>f, <1>e, <1>10 DEF FieldTypes, ExitProtocol, Outside, LoopWaitShutdown, LoopGoto,
       Alive
  <2>4. OneActivation'
    BY <1>f, <1>a, <1>e, <1>o, <1>10 DEF FieldTypes, ActivationTypes, ExitProtocol,
       OneActivation, Outside, LoopWaitShutdown, LoopGoto, Alive
  <2> QED
    BY <2>0, <2>1, <2>2, <2>3, <2>4 DEF IInv, TypeOK
<1>11. CASE LoopCheckPid
  <2>0. FlagTypes'
    BY <1>b, <1>11 DEF FlagTypes, LoopCheckPid, LoopGoto, Alive
  <2>1. FieldTypes'
    BY <1>f, <1>11 DEF FieldTypes, LoopCheckPid, LoopGoto, Alive
  <2>2. ActivationTypes'
    BY <1>a, <1>11 DEF ActivationTypes, LoopCheckPid, LoopGoto, Alive
  <2>3. ExitProtocol'
    BY <1>f, <1>e, <1>11 DEF FieldTypes, ExitProtocol, Outside, LoopCheckPid, LoopGoto,
       Alive
  <2>4. OneActivation'
    BY <1>f, <1>a, <1>e, <1>o, <1>11 DEF FieldTypes, ActivationTypes, ExitProtocol,
       OneActivation, Outside, LoopCheckPid, LoopGoto, Alive
  <2> QED
    BY <2>0, <2>1, <2>2, <2>3, <2>4 DEF IInv, TypeOK
<1>12. CASE LoopToken
  <2>0. FlagTypes'
    BY <1>b, <1>12 DEF FlagTypes, LoopToken, Alive
  <2>1. FieldTypes'
    BY <1>f, <1>12 DEF FieldTypes, LoopToken, Alive
  <2>2. ActivationTypes'
    BY <1>a, <1>12 DEF ActivationTypes, LoopToken, Alive
  <2>3. ExitProtocol'
    BY <1>f, <1>e, <1>12 DEF FieldTypes, ExitProtocol, Outside, LoopToken, Alive
  <2>4. OneActivation'
    BY <1>f, <1>a, <1>e, <1>o, <1>12 DEF FieldTypes, ActivationTypes, ExitProtocol,
       OneActivation, Outside, LoopToken, Alive
  <2> QED
    BY <2>0, <2>1, <2>2, <2>3, <2>4 DEF IInv, TypeOK
<1>13. CASE ActivateBegin
  <2>0. FlagTypes'
    BY <1>b, <1>13 DEF FlagTypes, ActivateBegin, Alive
  <2>1. FieldTypes'
    BY <1>f, <1>13 DEF FieldTypes, ActivateBegin, Alive
  <2>2. ActivationTypes'
    BY <1>a, <1>13 DEF ActivationTypes, ActivateBegin, Alive
  <2>3. ExitProtocol'
    BY <1>f, <1>e, <1>13, ConstantsAssumption DEF FieldTypes, ExitProtocol, Outside,
       ActivateBegin, Alive, ConstantsAssumption, Index
  <2>4. OneActivation'
    <3> SUFFICES ASSUME ~interrupted PROVE OneActivation'
      BY <1>13 DEF ActivateBegin, OneActivation
    <3>1. ctxDone' = ctxDone /\ fwdOpen' = {} /\ (n # 0 => ctxDone[n])
      BY <1>o, <1>13 DEF ActivateBegin, OneActivation, Outside
    <3>2. CASE n' = n + 1
      <4>1. \A k \in Act : k < n' => k < n \/ (k = n /\ n # 0)
        BY <1>f, <3>2, ConstantsAssumption DEF FieldTypes, ConstantsAssumption, Index, Act
      <4>2. loop' = "setup"
        BY <1>f, <3>2, ConstantsAssumption, <1>13
           DEF ActivateBegin, FieldTypes, ConstantsAssumption, Index
      <4> QED
        BY <1>o, <3>1, <4>1, <4>2 DEF OneActivation, Outside
    <3>3. CASE n' = n
      <4>1. loop' = "token"
        BY <1>f, <3>3, ConstantsAssumption, <1>13
           DEF ActivateBegin, FieldTypes, ConstantsAssumption, Index
      <4> QED
        BY <1>o, <3>1, <3>3, <4>1 DEF OneActivation, Outside
    <3> QED
      BY <3>2, <3>3, <1>13 DEF ActivateBegin
  <2> QED
    BY <2>0, <2>1, <2>2, <2>3, <2>4 DEF IInv, TypeOK
<1>14. CASE ActivateSetup
  <2>0. FlagTypes'
    BY <1>b, <1>14 DEF FlagTypes, ActivateSetup, Alive, Return, Failures
  <2>1. FieldTypes'
    BY <1>f, <1>14 DEF FieldTypes, ActivateSetup, Alive, Return, Failures
  <2>2. ActivationTypes'
    BY <1>a, <1>14 DEF ActivationTypes, ActivateSetup, Alive, Return, Failures
  <2>3. ExitProtocol'
    BY <1>f, <1>e, <1>14 DEF FieldTypes, ExitProtocol, Outside, ActivateSetup, Alive,
       Return, Failures
  <2>4. OneActivation'
    BY <1>f, <1>a, <1>e, <1>o, <1>14 DEF FieldTypes, ActivationTypes, ExitProtocol,
       OneActivation, Outside, ActivateSetup, Alive, Return, Failures
  <2> QED
    BY <2>0, <2>1, <2>2, <2>3, <2>4 DEF IInv, TypeOK
<1>15. CASE ActivatePrepare
  <2>0. FlagTypes'
    BY <1>b, <1>15 DEF FlagTypes, ActivatePrepare, Alive, Return, Failures
  <2>1. FieldTypes'
    BY <1>f, <1>15 DEF FieldTypes, ActivatePrepare, Alive, Return, Failures
  <2>2. ActivationTypes'
    BY <1>a, <1>15 DEF ActivationTypes, ActivatePrepare, Alive, Return, Failures
  <2>3. ExitProtocol'
    BY <1>f, <1>e, <1>15 DEF FieldTypes, ExitProtocol, Outside, ActivatePrepare, Alive,
       Return, Failures
  <2>4. OneActivation'
    BY <1>f, <1>a, <1>e, <1>o, <1>15 DEF FieldTypes, ActivationTypes, ExitProtocol,
       OneActivation, Outside, ActivatePrepare, Alive, Return, Failures
  <2> QED
    BY <2>0, <2>1, <2>2, <2>3, <2>4 DEF IInv, TypeOK
<1>16. CASE AwaitHardTerminate
  <2>0. FlagTypes'
    BY <1>b, <1>16 DEF FlagTypes, AwaitHardTerminate, Alive, Return
  <2>1. FieldTypes'
    BY <1>f, <1>16, <1>a, <1>e DEF FieldTypes, ActivationTypes, ExitProtocol, Outside,
       AwaitHardTerminate, Alive, Return
  <2>2. ActivationTypes'
    BY <1>a, <1>16 DEF ActivationTypes, AwaitHardTerminate, Alive, Return
  <2>3. ExitProtocol'
    BY <1>f, <1>e, <1>16 DEF FieldTypes, ExitProtocol, Outside, AwaitHardTerminate, Alive,
       Return
  <2>4. OneActivation'
    BY <1>f, <1>a, <1>e, <1>o, <1>16 DEF FieldTypes, ActivationTypes, ExitProtocol,
       OneActivation, Outside, AwaitHardTerminate, Alive, Return
  <2> QED
    BY <2>0, <2>1, <2>2, <2>3, <2>4 DEF IInv, TypeOK
<1>17. CASE ActivateDeploy
  <2>0. FlagTypes'
    BY <1>b, <1>17 DEF FlagTypes, ActivateDeploy, Alive, Return, Failures
  <2>1. FieldTypes'
    BY ZenonT(60), <1>f, <1>17 DEF FieldTypes, ActivateDeploy, Alive, Return, Failures
  <2>2. ActivationTypes'
    BY <1>a, <1>17 DEF ActivationTypes, ActivateDeploy, Alive, Return, Failures
  <2>3. ExitProtocol'
    BY <1>f, <1>e, <1>17 DEF FieldTypes, ExitProtocol, Outside, ActivateDeploy, Alive,
       Return, Failures
  <2>4. OneActivation'
    BY <1>f, <1>a, <1>e, <1>o, <1>17 DEF FieldTypes, ActivationTypes, ExitProtocol,
       OneActivation, Outside, ActivateDeploy, Alive, Return, Failures
  <2> QED
    BY <2>0, <2>1, <2>2, <2>3, <2>4 DEF IInv, TypeOK
<1>18. CASE ActivatePodWait
  <2>0. FlagTypes'
    BY <1>b, <1>18 DEF FlagTypes, ActivatePodWait, Alive, Return, Failures
  <2>1. FieldTypes'
    BY <1>f, <1>18 DEF FieldTypes, ActivatePodWait, Alive, Return, Failures
  <2>2. ActivationTypes'
    BY <1>a, <1>18 DEF ActivationTypes, ActivatePodWait, Alive, Return, Failures
  <2>3. ExitProtocol'
    BY <1>f, <1>e, <1>18 DEF FieldTypes, ExitProtocol, Outside, ActivatePodWait, Alive,
       Return, Failures
  <2>4. OneActivation'
    BY <1>f, <1>a, <1>e, <1>o, <1>18 DEF FieldTypes, ActivationTypes, ExitProtocol,
       OneActivation, Outside, ActivatePodWait, Alive, Return, Failures
  <2> QED
    BY <2>0, <2>1, <2>2, <2>3, <2>4 DEF IInv, TypeOK
<1>19. CASE ActivateForwards
  <2>0. FlagTypes'
    BY <1>b, <1>19 DEF FlagTypes, ActivateForwards, Alive, Return, Failures
  <2>1. FieldTypes'
    BY <1>f, <1>19, <1>e DEF FieldTypes, ExitProtocol, Outside, ActivateForwards, Alive,
       Return, Failures
  <2>2. ActivationTypes'
    BY <1>a, <1>19 DEF ActivationTypes, ActivateForwards, Alive, Return, Failures
  <2>3. ExitProtocol'
    BY <1>f, <1>e, <1>19 DEF FieldTypes, ExitProtocol, Outside, ActivateForwards, Alive,
       Return, Failures
  <2>4. OneActivation'
    BY <1>f, <1>a, <1>e, <1>o, <1>19 DEF FieldTypes, ActivationTypes, ExitProtocol,
       OneActivation, Outside, ActivateForwards, Alive, Return, Failures
  <2> QED
    BY <2>0, <2>1, <2>2, <2>3, <2>4 DEF IInv, TypeOK
<1>20. CASE ActivateStartSync
  <2>0. FlagTypes'
    BY <1>b, <1>20 DEF FlagTypes, ActivateStartSync, Alive, Return, Failures
  <2>1. FieldTypes'
    BY <1>f, <1>20 DEF FieldTypes, ActivateStartSync, Alive, Return, Failures
  <2>2. ActivationTypes'
    BY <1>a, <1>20, <1>f DEF ActivationTypes, FieldTypes, ActivateStartSync, Alive, Return,
       Failures
  <2>3. ExitProtocol'
    BY <1>f, <1>e, <1>20 DEF FieldTypes, ExitProtocol, Outside, ActivateStartSync, Alive,
       Return, Failures
  <2>4. OneActivation'
    BY <1>f, <1>a, <1>e, <1>o, <1>20 DEF FieldTypes, ActivationTypes, ExitProtocol,
       OneActivation, Outside, ActivateStartSync, Alive, Return, Failures
  <2> QED
    BY <2>0, <2>1, <2>2, <2>3, <2>4 DEF IInv, TypeOK
<1>21. CASE ActivateSync
  <2>0. FlagTypes'
    BY <1>b, <1>21 DEF FlagTypes, ActivateSync, Alive, Return, Failures
  <2>1. FieldTypes'
    BY <1>f, <1>21 DEF FieldTypes, ActivateSync, Alive, Return, Failures
  <2>2. ActivationTypes'
    BY <1>a, <1>21 DEF ActivationTypes, ActivateSync, Alive, Return, Failures
  <2>3. ExitProtocol'
    BY <1>f, <1>e, <1>21 DEF FieldTypes, ExitProtocol, Outside, ActivateSync, Alive, Return,
       Failures
  <2>4. OneActivation'
    BY <1>f, <1>a, <1>e, <1>o, <1>21 DEF FieldTypes, ActivationTypes, ExitProtocol,
       OneActivation, Outside, ActivateSync, Alive, Return, Failures
  <2> QED
    BY <2>0, <2>1, <2>2, <2>3, <2>4 DEF IInv, TypeOK
<1>22. CASE ActivateServices
  <2>0. FlagTypes'
    BY <1>b, <1>22 DEF FlagTypes, ActivateServices, Alive, Return, Failures
  <2>1. FieldTypes'
    BY <1>f, <1>22 DEF FieldTypes, ActivateServices, Alive, Return, Failures
  <2>2. ActivationTypes'
    BY <1>a, <1>22 DEF ActivationTypes, ActivateServices, Alive, Return, Failures
  <2>3. ExitProtocol'
    BY <1>f, <1>e, <1>22 DEF FieldTypes, ExitProtocol, Outside, ActivateServices, Alive,
       Return, Failures
  <2>4. OneActivation'
    BY <1>f, <1>a, <1>e, <1>o, <1>22 DEF FieldTypes, ActivationTypes, ExitProtocol,
       OneActivation, Outside, ActivateServices, Alive, Return, Failures
  <2> QED
    BY <2>0, <2>1, <2>2, <2>3, <2>4 DEF IInv, TypeOK
<1>23. CASE WaitCommandResult
  <2>0. FlagTypes'
    BY <1>b, <1>23 DEF FlagTypes, WaitCommandResult, Alive, Return
  <2>1. FieldTypes'
    BY <1>f, <1>23, <1>a, <1>e DEF FieldTypes, ActivationTypes, ExitProtocol, Outside,
       WaitCommandResult, Alive, Return
  <2>2. ActivationTypes'
    BY <1>a, <1>23 DEF ActivationTypes, WaitCommandResult, Alive, Return
  <2>3. ExitProtocol'
    BY <1>f, <1>e, <1>23 DEF FieldTypes, ExitProtocol, Outside, WaitCommandResult, Alive,
       Return
  <2>4. OneActivation'
    BY <1>f, <1>a, <1>e, <1>o, <1>23 DEF FieldTypes, ActivationTypes, ExitProtocol,
       OneActivation, Outside, WaitCommandResult, Alive, Return
  <2> QED
    BY <2>0, <2>1, <2>2, <2>3, <2>4 DEF IInv, TypeOK
<1>24. CASE WaitDisconnect
  <2>0. FlagTypes'
    BY <1>b, <1>24 DEF FlagTypes, WaitDisconnect, Alive, Failures, RetryLost, Return
  <2>1. FieldTypes'
    BY <1>f, <1>24 DEF FieldTypes, WaitDisconnect, Alive, Failures, RetryLost, Return
  <2>2. ActivationTypes'
    BY <1>a, <1>24 DEF ActivationTypes, WaitDisconnect, Alive, Failures, RetryLost, Return
  <2>3. ExitProtocol'
    BY <1>f, <1>e, <1>24 DEF FieldTypes, ExitProtocol, Outside, WaitDisconnect, Alive,
       Failures, RetryLost, Return
  <2>4. OneActivation'
    BY <1>f, <1>a, <1>e, <1>o, <1>24 DEF FieldTypes, ActivationTypes, ExitProtocol,
       OneActivation, Outside, WaitDisconnect, Alive, Failures, RetryLost, Return
  <2> QED
    BY <2>0, <2>1, <2>2, <2>3, <2>4 DEF IInv, TypeOK
<1>25. CASE DeferredCheck
  <2>0. FlagTypes'
    BY <1>b, <1>25 DEF FlagTypes, DeferredCheck, LoopGoto, Alive
  <2>1. FieldTypes'
    BY <1>f, <1>25 DEF FieldTypes, DeferredCheck, LoopGoto, Alive
  <2>2. ActivationTypes'
    BY <1>a, <1>25 DEF ActivationTypes, DeferredCheck, LoopGoto, Alive
  <2>3. ExitProtocol'
    BY <1>f, <1>e, <1>25 DEF FieldTypes, ExitProtocol, Outside, DeferredCheck, LoopGoto,
       Alive
  <2>4. OneActivation'
    BY <1>f, <1>a, <1>e, <1>o, <1>25 DEF FieldTypes, ActivationTypes, ExitProtocol,
       OneActivation, Outside, DeferredCheck, LoopGoto, Alive
  <2> QED
    BY <2>0, <2>1, <2>2, <2>3, <2>4 DEF IInv, TypeOK
<1>26. CASE DeferredCancel
  <2>0. FlagTypes'
    BY <1>b, <1>26 DEF FlagTypes, DeferredCancel, CancelContext, LoopGoto, Alive
  <2>1. FieldTypes'
    BY <1>f, <1>26 DEF FieldTypes, DeferredCancel, CancelContext, LoopGoto, Alive
  <2>2. ActivationTypes'
    BY <1>a, <1>26 DEF ActivationTypes, DeferredCancel, CancelContext, LoopGoto, Alive
  <2>3. ExitProtocol'
    BY <1>f, <1>e, <1>26 DEF FieldTypes, ExitProtocol, Outside, DeferredCancel,
       CancelContext, LoopGoto, Alive
  <2>4. OneActivation'
    BY <1>f, <1>a, <1>e, <1>o, <1>26, ConstantsAssumption DEF FieldTypes, ActivationTypes,
       ExitProtocol, OneActivation, Outside, DeferredCancel, CancelContext, LoopGoto, Alive,
       ConstantsAssumption, Index, Act
  <2> QED
    BY <2>0, <2>1, <2>2, <2>3, <2>4 DEF IInv, TypeOK
<1>27. CASE DeferredStop
  <2>0. FlagTypes'
    BY <1>b, <1>27 DEF FlagTypes, DeferredStop, StopSyncAndForwarder, LoopGoto, Alive
  <2>1. FieldTypes'
    BY <1>f, <1>27 DEF FieldTypes, DeferredStop, StopSyncAndForwarder, LoopGoto, Alive
  <2>2. ActivationTypes'
    BY <1>a, <1>27 DEF ActivationTypes, DeferredStop, StopSyncAndForwarder, LoopGoto, Alive
  <2>3. ExitProtocol'
    BY <1>f, <1>e, <1>27 DEF FieldTypes, ExitProtocol, Outside, DeferredStop,
       StopSyncAndForwarder, LoopGoto, Alive
  <2>4. OneActivation'
    BY <1>f, <1>a, <1>e, <1>o, <1>27 DEF FieldTypes, ActivationTypes, ExitProtocol,
       OneActivation, Outside, DeferredStop, StopSyncAndForwarder, LoopGoto, Alive
  <2> QED
    BY <2>0, <2>1, <2>2, <2>3, <2>4 DEF IInv, TypeOK
<1>28. CASE DeferredSend
  <2>0. FlagTypes'
    BY <1>b, <1>28 DEF FlagTypes, DeferredSend, SendShutdownCompleted, LoopGoto, Alive
  <2>1. FieldTypes'
    BY <1>f, <1>28 DEF FieldTypes, DeferredSend, SendShutdownCompleted, LoopGoto, Alive
  <2>2. ActivationTypes'
    BY <1>a, <1>28 DEF ActivationTypes, DeferredSend, SendShutdownCompleted, LoopGoto, Alive
  <2>3. ExitProtocol'
    BY <1>f, <1>e, <1>28 DEF FieldTypes, ExitProtocol, Outside, DeferredSend,
       SendShutdownCompleted, LoopGoto, Alive
  <2>4. OneActivation'
    BY <1>f, <1>a, <1>e, <1>o, <1>28 DEF FieldTypes, ActivationTypes, ExitProtocol,
       OneActivation, Outside, DeferredSend, SendShutdownCompleted, LoopGoto, Alive
  <2> QED
    BY <2>0, <2>1, <2>2, <2>3, <2>4 DEF IInv, TypeOK
<1>29. ASSUME NEW where \in {"deploy", "forwards", "startSync"}, NilSyncthing(where) PROVE IInv'
  <2>0. FlagTypes'
    BY <1>b, <1>29 DEF FlagTypes, NilSyncthing, ExitWith, Alive
  <2>1. FieldTypes'
    BY <1>f, <1>29 DEF FieldTypes, NilSyncthing, ExitWith, Alive
  <2>2. ActivationTypes'
    BY <1>a, <1>29 DEF ActivationTypes, NilSyncthing, ExitWith, Alive
  <2>3. ExitProtocol'
    BY <1>f, <1>e, <1>29 DEF FieldTypes, ExitProtocol, Outside, NilSyncthing, ExitWith,
       Alive
  <2>4. OneActivation'
    BY <1>f, <1>a, <1>e, <1>o, <1>29 DEF FieldTypes, ActivationTypes, ExitProtocol,
       OneActivation, Outside, NilSyncthing, ExitWith, Alive
  <2> QED
    BY <2>0, <2>1, <2>2, <2>3, <2>4 DEF IInv, TypeOK
<1>30. ASSUME NEW k \in Act, InitNew(k) PROVE IInv'
  <2>0. FlagTypes'
    BY <1>b, <1>30 DEF FlagTypes, InitNew, Alive
  <2>1. FieldTypes'
    BY <1>f, <1>30 DEF FieldTypes, InitNew, Alive
  <2>2. ActivationTypes'
    BY <1>a, <1>30 DEF ActivationTypes, InitNew, Alive
  <2>3. ExitProtocol'
    BY <1>f, <1>e, <1>30 DEF FieldTypes, ExitProtocol, Outside, InitNew, Alive
  <2>4. OneActivation'
    BY <1>f, <1>a, <1>e, <1>o, <1>30 DEF FieldTypes, ActivationTypes, ExitProtocol,
       OneActivation, Outside, InitNew, Alive
  <2> QED
    BY <2>0, <2>1, <2>2, <2>3, <2>4 DEF IInv, TypeOK
<1>31. ASSUME NEW k \in Act, InitHardTerminate(k) PROVE IInv'
  <2>0. FlagTypes'
    BY <1>b, <1>31 DEF FlagTypes, InitHardTerminate, Alive
  <2>1. FieldTypes'
    BY <1>f, <1>31 DEF FieldTypes, InitHardTerminate, Alive
  <2>2. ActivationTypes'
    BY <1>a, <1>31 DEF ActivationTypes, InitHardTerminate, Alive
  <2>3. ExitProtocol'
    BY <1>f, <1>e, <1>31 DEF FieldTypes, ExitProtocol, Outside, InitHardTerminate, Alive
  <2>4. OneActivation'
    BY <1>f, <1>a, <1>e, <1>o, <1>31 DEF FieldTypes, ActivationTypes, ExitProtocol,
       OneActivation, Outside, InitHardTerminate, Alive
  <2> QED
    BY <2>0, <2>1, <2>2, <2>3, <2>4 DEF IInv, TypeOK
<1>32. ASSUME NEW k \in Act, InitSend(k) PROVE IInv'
  <2>0. FlagTypes'
    BY <1>b, <1>32 DEF FlagTypes, InitSend, Alive
  <2>1. FieldTypes'
    BY <1>f, <1>32 DEF FieldTypes, InitSend, Alive
  <2>2. ActivationTypes'
    <3>1. PICK v \in {"nil", "fatal"} : hardTerminate' = [hardTerminate EXCEPT ![n] = v]
      BY <1>32 DEF InitSend
    <3> QED
      BY <1>a, <3>1, <1>32 DEF ActivationTypes, InitSend
  <2>3. ExitProtocol'
    BY <1>f, <1>e, <1>32 DEF FieldTypes, ExitProtocol, Outside, InitSend, Alive
  <2>4. OneActivation'
    BY <1>f, <1>a, <1>e, <1>o, <1>32 DEF FieldTypes, ActivationTypes, ExitProtocol,
       OneActivation, Outside, InitSend, Alive
  <2> QED
    BY <2>0, <2>1, <2>2, <2>3, <2>4 DEF IInv, TypeOK
<1>33. ASSUME NEW k \in Act, CleanSend(k) PROVE IInv'
  <2>0. FlagTypes'
    BY <1>b, <1>33 DEF FlagTypes, CleanSend, Alive
  <2>1. FieldTypes'
    BY <1>f, <1>33 DEF FieldTypes, CleanSend, Alive
  <2>2. ActivationTypes'
    BY <1>a, <1>33 DEF ActivationTypes, CleanSend, Alive
  <2>3. ExitProtocol'
    BY <1>f, <1>e, <1>33 DEF FieldTypes, ExitProtocol, Outside, CleanSend, Alive
  <2>4. OneActivation'
    BY <1>f, <1>a, <1>e, <1>o, <1>33 DEF FieldTypes, ActivationTypes, ExitProtocol,
       OneActivation, Outside, CleanSend, Alive
  <2> QED
    BY <2>0, <2>1, <2>2, <2>3, <2>4 DEF IInv, TypeOK
<1>34. ASSUME NEW k \in Act, CmdStart(k) PROVE IInv'
  <2>0. FlagTypes'
    BY <1>b, <1>34 DEF FlagTypes, CmdStart, Alive
  <2>1. FieldTypes'
    BY <1>f, <1>34 DEF FieldTypes, CmdStart, Alive
  <2>2. ActivationTypes'
    BY <1>a, <1>34, <1>f DEF ActivationTypes, FieldTypes, CmdStart, Alive
  <2>3. ExitProtocol'
    BY <1>f, <1>e, <1>34 DEF FieldTypes, ExitProtocol, Outside, CmdStart, Alive
  <2>4. OneActivation'
    BY <1>f, <1>a, <1>e, <1>o, <1>34 DEF FieldTypes, ActivationTypes, ExitProtocol,
       OneActivation, Outside, CmdStart, Alive
  <2> QED
    BY <2>0, <2>1, <2>2, <2>3, <2>4 DEF IInv, TypeOK
<1>35. ASSUME NEW k \in Act, CmdCleaned(k) PROVE IInv'
  <2>0. FlagTypes'
    BY <1>b, <1>35 DEF FlagTypes, CmdCleaned, Alive
  <2>1. FieldTypes'
    BY <1>f, <1>35 DEF FieldTypes, CmdCleaned, Alive
  <2>2. ActivationTypes'
    BY <1>a, <1>35 DEF ActivationTypes, CmdCleaned, Alive
  <2>3. ExitProtocol'
    BY <1>f, <1>e, <1>35 DEF FieldTypes, ExitProtocol, Outside, CmdCleaned, Alive
  <2>4. OneActivation'
    BY <1>f, <1>a, <1>e, <1>o, <1>35 DEF FieldTypes, ActivationTypes, ExitProtocol,
       OneActivation, Outside, CmdCleaned, Alive
  <2> QED
    BY <2>0, <2>1, <2>2, <2>3, <2>4 DEF IInv, TypeOK
<1>36. ASSUME NEW k \in Act, CmdResult(k) PROVE IInv'
  <2>0. FlagTypes'
    BY <1>b, <1>36 DEF FlagTypes, CmdResult, Alive
  <2>1. FieldTypes'
    BY <1>f, <1>36 DEF FieldTypes, CmdResult, Alive
  <2>2. ActivationTypes'
    <3>1. PICK e \in {"nil", "transient", "fatal"} :
            commandResult' = [commandResult EXCEPT ![n] = e]
      BY <1>36 DEF CmdResult
    <3> QED
      BY <1>a, <3>1, <1>36 DEF ActivationTypes, CmdResult
  <2>3. ExitProtocol'
    BY <1>f, <1>e, <1>36 DEF FieldTypes, ExitProtocol, Outside, CmdResult, Alive
  <2>4. OneActivation'
    BY <1>f, <1>a, <1>e, <1>o, <1>36 DEF FieldTypes, ActivationTypes, ExitProtocol,
       OneActivation, Outside, CmdResult, Alive
  <2> QED
    BY <2>0, <2>1, <2>2, <2>3, <2>4 DEF IInv, TypeOK
<1>37. CASE OktetoDown
  <2>0. FlagTypes'
    BY <1>b, <1>37 DEF FlagTypes, OktetoDown, Alive
  <2>1. FieldTypes'
    BY <1>f, <1>37 DEF FieldTypes, OktetoDown, Alive
  <2>2. ActivationTypes'
    BY <1>a, <1>37 DEF ActivationTypes, OktetoDown, Alive
  <2>3. ExitProtocol'
    BY <1>f, <1>e, <1>37 DEF FieldTypes, ExitProtocol, Outside, OktetoDown, Alive
  <2>4. OneActivation'
    BY <1>f, <1>a, <1>e, <1>o, <1>37 DEF FieldTypes, ActivationTypes, ExitProtocol,
       OneActivation, Outside, OktetoDown, Alive
  <2> QED
    BY <2>0, <2>1, <2>2, <2>3, <2>4 DEF IInv, TypeOK
<1>38. CASE PidTaken
  <2>0. FlagTypes'
    BY <1>b, <1>38 DEF FlagTypes, PidTaken, Alive
  <2>1. FieldTypes'
    BY <1>f, <1>38 DEF FieldTypes, PidTaken, Alive
  <2>2. ActivationTypes'
    BY <1>a, <1>38 DEF ActivationTypes, PidTaken, Alive
  <2>3. ExitProtocol'
    BY <1>f, <1>e, <1>38 DEF FieldTypes, ExitProtocol, Outside, PidTaken, Alive
  <2>4. OneActivation'
    BY <1>f, <1>a, <1>e, <1>o, <1>38 DEF FieldTypes, ActivationTypes, ExitProtocol,
       OneActivation, Outside, PidTaken, Alive
  <2> QED
    BY <2>0, <2>1, <2>2, <2>3, <2>4 DEF IInv, TypeOK
<1>39. CASE UNCHANGED vars
  BY <1>b, <1>f, <1>a, <1>e, <1>o, <1>39
     DEF IInv, TypeOK, FlagTypes, FieldTypes, ActivationTypes, ExitProtocol, OneActivation, vars
<1> QED
  BY <1>1, <1>2, <1>3, <1>4, <1>5, <1>6, <1>7, <1>8, <1>9, <1>10, <1>11, <1>12,
     <1>13, <1>14, <1>15, <1>16, <1>17, <1>18, <1>19, <1>20, <1>21, <1>22, <1>23,
     <1>24, <1>25, <1>26, <1>27, <1>28, <1>29, <1>30, <1>31, <1>32, <1>33, <1>34,
     <1>35, <1>36, <1>37, <1>38, <1>39
     DEF Next, MainStep, LoopStep, InitStep, CmdStep

\* The inductive invariant holds in every reachable state.
THEOREM SessionInvariance == Spec => []IInv
<1>1. Init => IInv
  BY InitEstablishes
<1>2. IInv /\ [Next]_vars => IInv'
  BY StepPreserves
<1> QED
  BY <1>1, <1>2, PTL DEF Spec

\* Unless the user interrupts, the contexts of all earlier activations are cancelled
\* and their forwarders closed, and a session that ends through up.Exit leaves no
\* forwarder and no context (up.go:522-603, 723-738, activate.go:66-75).
THEOREM SessionsAreSound == Spec => []SessionIsSound
<1>1. IInv => SessionIsSound
  BY DEF IInv, ExitProtocol, OneActivation, Outside, SessionIsSound,
         ActivationsAreSerial, ExitIsClean
<1> QED
  BY <1>1, SessionInvariance, PTL
=============================================================================
