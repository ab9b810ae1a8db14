----------------------------- MODULE UpSession -----------------------------
(***************************************************************************)
(* The session of `okteto up' (cmd/up/up.go, activate.go, syncthing.go,    *)
(* exec.go, forwards.go): the main goroutine, the activation loop, and the *)
(* goroutines each activation leaves behind.                               *)
(*                                                                         *)
(* Activations are numbered.  activate() replaces the fields Cancel,       *)
(* ShutdownCompleted, cleaned, CommandResult and hardTerminate, so index n *)
(* of a function below is what the field holds now and a smaller index is  *)
(* a channel only old goroutines still know.  A goroutine that sends to    *)
(* `up.X' loads the field when it sends: goroutines of an old activation   *)
(* reach the channels of the current one.                                  *)
(*                                                                         *)
(* Errors are classes: "lost" is ErrLostSyncthing (and ErrApplyToApp, which*)
(* shouldRetry maps to it), "transient" what isTransient accepts, "fatal"  *)
(* the rest.  The monitors, watchers and signals that only ever reach the  *)
(* activation that started them are choices of the wait.                   *)
(***************************************************************************)
EXTENDS Naturals

CONSTANTS
  MaxActivations,   \* bound: activations of one session
  PersistentVolume, \* dev.PersistentVolumeEnabled()
  AutoDown,         \* OKTETO_AUTO_DOWN_ENABLED
  Events            \* what the environment may do to the session

ASSUME ConstantsAssumption ==
  /\ MaxActivations \in Nat \ {0}
  /\ {PersistentVolume, AutoDown} \subseteq BOOLEAN
  /\ Events \subseteq {"interrupt", "down", "takeover", "stateFileFails", "syncthingFails"}

VARIABLES
  main,        \* where start() is
  result,      \* how start() ended
  interrupted, \* up.interruptReceived
  mainCh,      \* the ShutdownCompleted that main's shutdown sends to
  loop,        \* where activateLoop and activate are
  err,         \* the error activate is returning
  isTransient, \* activateLoop's isTransientError
  isRetry, success,  \* fields of upContext
  n,           \* the activation the fields belong to, 0 before the first
  unregistered, \* the last activate() returned before it registered its shutdown (a
               \* history variable)
  ctxDone,     \* ctxDone[k]: the context of activation k is cancelled
  shutdownCompleted, cleaned, commandResult, hardTerminate, \* channels of capacity 1
  exitCh,      \* up.Exit
  sy,          \* up.Sy: the activation whose goroutine made it, 0 for nil
  proc,        \* proc[i]: activation that started the process of instance i, 0 when none
  forwarder,   \* up.Forwarder: the activation that made it, 0 for nil
  fwdOpen,     \* activations whose forwarder listens
  init, clean, cmd,  \* goroutines of each activation
  cmdCh,       \* the `cleaned' channel the command goroutine loaded
  devOn,       \* cluster: the application is in dev mode
  pidOwned     \* the pid file holds this process' pid

mainVars  == <<main, result, interrupted, mainCh>>
loopVars  == <<loop, err, isTransient, isRetry, success>>
actVars   == <<n, unregistered>>
chanVars  == <<shutdownCompleted, cleaned, commandResult, hardTerminate>>
syncVars  == <<sy, proc>>
fwdVars   == <<forwarder, fwdOpen>>
goVars    == <<init, clean, cmd, cmdCh>>
envVars   == <<devOn, pidOwned>>
vars == <<mainVars, loopVars, actVars, ctxDone, chanVars, exitCh, syncVars, fwdVars, goVars, envVars>>

Act == 1 .. MaxActivations
Index == 0 .. MaxActivations

Errs == {"nil", "lost", "transient", "fatal"}

FlagTypes ==
  /\ interrupted \in BOOLEAN
  /\ isTransient \in BOOLEAN /\ isRetry \in BOOLEAN /\ success \in BOOLEAN
  /\ devOn \in BOOLEAN /\ pidOwned \in BOOLEAN /\ unregistered \in BOOLEAN

\* The positions of the two main goroutines and the fields of upContext.
FieldTypes ==
  /\ main \in {"provide", "select", "cancel", "stop", "send", "autoDown", "exited"}
  /\ result \in {"none", "interrupt", "exit", "pid", "error", "panic"}
  /\ mainCh \in Index
  /\ loop \in {"top", "waitShutdown", "pid", "stateFile", "setup", "prepare",
               "hardTerminate", "deploy", "podWait", "forwards", "startSync", "sync", "services",
               "wait", "return", "cancel", "stop", "send", "token", "done"}
  /\ err \in Errs
  /\ n \in Index
  /\ exitCh \in {"empty", "nil", "fatal"}
  /\ sy \in Index /\ forwarder \in Index /\ fwdOpen \subseteq Act

\* The channels and the goroutines of each activation.
ActivationTypes ==
  /\ ctxDone \in [Act -> BOOLEAN]
  /\ shutdownCompleted \in [Act -> {"empty", "true"}]
  /\ cleaned \in [Act -> {"empty", "out"}]
  /\ commandResult \in [Act -> {"empty"} \cup Errs]
  /\ hardTerminate \in [Act -> {"empty", "nil", "fatal"}]
  /\ proc \in [Act -> Index]
  /\ init \in [Act -> {"none", "new", "kill", "send", "failed", "done"}]
  /\ clean \in [Act -> {"none", "exec", "done"}]
  /\ cmd \in [Act -> {"none", "start", "waitCleaned", "run", "done"}]
  /\ cmdCh \in [Act -> Index]

TypeOK == FlagTypes /\ FieldTypes /\ ActivationTypes

Init ==
  /\ main = "provide" /\ result = "none" /\ interrupted = FALSE /\ mainCh = 0
  /\ loop = "top" /\ err = "nil" /\ isTransient = FALSE /\ isRetry = FALSE /\ success = FALSE
  /\ n = 0 /\ unregistered = FALSE /\ ctxDone = [k \in Act |-> FALSE]
  /\ shutdownCompleted = [k \in Act |-> "empty"] /\ cleaned = [k \in Act |-> "empty"]
  /\ commandResult = [k \in Act |-> "empty"] /\ hardTerminate = [k \in Act |-> "empty"]
  /\ exitCh = "empty"
  /\ sy = 0 /\ proc = [k \in Act |-> 0]
  /\ forwarder = 0 /\ fwdOpen = {}
  /\ init = [k \in Act |-> "none"] /\ clean = [k \in Act |-> "none"]
  /\ cmd = [k \in Act |-> "none"] /\ cmdCh = [k \in Act |-> 0]
  /\ devOn \in BOOLEAN /\ pidOwned = TRUE

\* The goroutines run until start() returns and the process ends.
Alive == main # "exited"

-----------------------------------------------------------------------------
(* shutdown(): executed by the main goroutine after CTRL+C and, deferred, by *)
(* activate.  It cancels, stops syncthing and the forwarder, and sends.      *)

CancelContext == ctxDone' = IF n = 0 THEN ctxDone ELSE [ctxDone EXCEPT ![n] = TRUE]

\* Variant: the forwarder is left to the cancelled context.
StopSyncOnly ==
  /\ proc' = IF sy = 0 THEN proc ELSE [proc EXCEPT ![sy] = 0]
  /\ UNCHANGED <<sy, fwdVars>>

StopSyncAndForwarder ==
  /\ proc' = IF sy = 0 THEN proc ELSE [proc EXCEPT ![sy] = 0]
  /\ fwdOpen' = fwdOpen \ {forwarder}
  /\ UNCHANGED <<sy, forwarder>>

\* A send to a channel of capacity 1; nobody can send to the nil channel.
SendShutdownCompleted(ch) ==
  /\ ch # 0 /\ shutdownCompleted[ch] = "empty"
  /\ shutdownCompleted' = [shutdownCompleted EXCEPT ![ch] = "true"]

-----------------------------------------------------------------------------
(* start(): the main goroutine. *)

ExitWith(r) == main' = "exited" /\ result' = r

MainProvide ==
  /\ main = "provide"
  /\ \/ main' = "select" /\ UNCHANGED result
     \/ ExitWith("error")
  /\ UNCHANGED <<interrupted, mainCh, loopVars, actVars, ctxDone, chanVars, exitCh, syncVars, fwdVars, goVars, envVars>>

MainInterrupt ==
  /\ main = "select" /\ "interrupt" \in Events
  /\ main' = "cancel" /\ interrupted' = TRUE
  /\ UNCHANGED <<result, mainCh, loopVars, actVars, ctxDone, chanVars, exitCh, syncVars, fwdVars, goVars, envVars>>

MainCancel ==
  /\ main = "cancel"
  /\ CancelContext
  /\ main' = "stop"
  /\ UNCHANGED <<result, interrupted, mainCh, loopVars, actVars, chanVars, exitCh, syncVars, fwdVars, goVars, envVars>>

\* The last step of shutdown loads up.ShutdownCompleted.
MainStop ==
  /\ main = "stop"
  /\ StopSyncAndForwarder
  /\ main' = "send" /\ mainCh' = n
  /\ UNCHANGED <<result, interrupted, loopVars, actVars, ctxDone, chanVars, exitCh, goVars, envVars>>

MainSend ==
  /\ main = "send"
  /\ SendShutdownCompleted(mainCh)
  /\ main' = "autoDown"
  /\ UNCHANGED <<result, interrupted, mainCh, loopVars, actVars, ctxDone, cleaned, commandResult, hardTerminate,
                 exitCh, syncVars, fwdVars, goVars, envVars>>

MainAutoDown ==
  /\ main = "autoDown"
  /\ \/ AutoDown /\ devOn' = FALSE
     \/ UNCHANGED devOn
  /\ ExitWith(IF interrupted THEN "interrupt" ELSE "exit")
  /\ UNCHANGED <<interrupted, mainCh, loopVars, actVars, ctxDone, chanVars, exitCh, syncVars, fwdVars, goVars, pidOwned>>

MainExit ==
  /\ main = "select" /\ exitCh # "empty"
  /\ \/ exitCh = "nil" /\ main' = "autoDown" /\ UNCHANGED result
     \/ exitCh # "nil" /\ ExitWith("exit")
  /\ exitCh' = "empty"
  /\ UNCHANGED <<interrupted, mainCh, loopVars, actVars, ctxDone, chanVars, syncVars, fwdVars, goVars, envVars>>

\* notifyIfPIDFileChange reported another owner.
MainPidChanged ==
  /\ main = "select" /\ ~pidOwned
  /\ ExitWith("pid")
  /\ UNCHANGED <<interrupted, mainCh, loopVars, actVars, ctxDone, chanVars, exitCh, syncVars, fwdVars, goVars, envVars>>

-----------------------------------------------------------------------------
(* activateLoop() *)

LoopGoto(from, to) ==
  /\ Alive /\ loop = from /\ loop' = to

LoopTop ==
  /\ LoopGoto("top", IF isRetry \/ isTransient THEN "waitShutdown" ELSE "stateFile")
  /\ UNCHANGED <<mainVars, err, isTransient, isRetry, success, actVars, ctxDone, chanVars, exitCh,
                 syncVars, fwdVars, goVars, envVars>>

LoopWaitShutdown ==
  /\ LoopGoto("waitShutdown", "pid")
  /\ n # 0 /\ shutdownCompleted[n] = "true"
  /\ shutdownCompleted' = [shutdownCompleted EXCEPT ![n] = "empty"]
  /\ UNCHANGED <<mainVars, err, isTransient, isRetry, success, actVars, ctxDone, cleaned, commandResult,
                 hardTerminate, exitCh, syncVars, fwdVars, goVars, envVars>>

LoopCheckPid ==
  /\ \/ LoopGoto("pid", "stateFile") /\ pidOwned /\ UNCHANGED exitCh
     \/ LoopGoto("pid", "done") /\ ~pidOwned /\ exitCh' = "fatal"
  /\ UNCHANGED <<mainVars, err, isTransient, isRetry, success, actVars, ctxDone, chanVars,
                 syncVars, fwdVars, goVars, envVars>>

\* Variant: a session that ends without error is not announced.
LoopTokenSilentNil ==
  /\ Alive /\ loop = "token"
  /\ \/ err \in {"lost", "transient"} /\ loop' = "top" /\ isTransient' = (err # "lost") /\ UNCHANGED exitCh
     \/ err = "nil" /\ loop' = "done" /\ UNCHANGED <<isTransient, exitCh>>
     \/ err = "fatal" /\ loop' = "done" /\ exitCh' = err /\ UNCHANGED isTransient
  /\ err' = "nil"
  /\ UNCHANGED <<mainVars, isRetry, success, actVars, ctxDone, chanVars, syncVars, fwdVars, goVars, envVars>>

\* What the loop does with the error activate returned.  The token update of
\* an okteto context may fail.
LoopToken ==
  /\ Alive /\ loop = "token"
  /\ \/ err # "nil" /\ loop' = "top" /\ isTransient' = TRUE /\ UNCHANGED exitCh
     \/ err = "lost" /\ loop' = "top" /\ isTransient' = FALSE /\ UNCHANGED exitCh
     \/ err = "transient" /\ loop' = "top" /\ isTransient' = TRUE /\ UNCHANGED exitCh
     \/ err \in {"nil", "fatal"} /\ loop' = "done" /\ exitCh' = err /\ UNCHANGED isTransient
  /\ err' = "nil"
  /\ UNCHANGED <<mainVars, isRetry, success, actVars, ctxDone, chanVars, syncVars, fwdVars, goVars, envVars>>

-----------------------------------------------------------------------------
(* activate() *)

\* activate returns e: the deferred function decides on the shutdown.
Return(e) == loop' = "return" /\ err' = e

Failures == {"transient", "fatal"}

\* The state file comes first: if it cannot be written activate returns before
\* it makes a context and registers the shutdown.  Otherwise the fields are
\* replaced.
ActivateBegin ==
  /\ Alive /\ loop = "stateFile"
  /\ \/ /\ "stateFileFails" \in Events
        /\ loop' = "token" /\ err' = "fatal"
        /\ unregistered' = TRUE
        /\ UNCHANGED <<n, sy, forwarder>>
     \/ /\ n < MaxActivations
        /\ n' = n + 1 /\ unregistered' = FALSE
        /\ sy' = 0 /\ forwarder' = 0
        /\ loop' = "setup" /\ UNCHANGED err
  /\ UNCHANGED <<mainVars, isTransient, isRetry, success, ctxDone, chanVars, exitCh,
                 proc, fwdOpen, goVars, envVars>>

\* From the clients to ValidateMountPaths; a retry that finds dev mode off ends
\* the session without error.
ActivateSetup ==
  /\ Alive /\ loop = "setup"
  /\ \/ \E e \in Failures : Return(e) /\ UNCHANGED init
     \/ isRetry /\ ~devOn /\ Return("nil") /\ UNCHANGED init
     \/ /\ ~(isRetry /\ ~devOn)
        /\ loop' = "prepare" /\ UNCHANGED err
        /\ init' = [init EXCEPT ![n] = "new"]
  /\ UNCHANGED <<mainVars, isTransient, isRetry, success, actVars, ctxDone, chanVars, exitCh,
                 syncVars, fwdVars, clean, cmd, cmdCh, envVars>>

\* From setDevContainer to the translations of createDevContainer.
ActivatePrepare ==
  /\ Alive /\ loop = "prepare"
  /\ \/ \E e \in Failures : Return(e)
     \/ loop' = "hardTerminate" /\ UNCHANGED err
  /\ UNCHANGED <<mainVars, isTransient, isRetry, success, actVars, ctxDone, chanVars, exitCh,
                 syncVars, fwdVars, goVars, envVars>>

AwaitHardTerminate ==
  /\ Alive /\ loop = "hardTerminate" /\ hardTerminate[n] # "empty"
  /\ hardTerminate' = [hardTerminate EXCEPT ![n] = "empty"]
  /\ \/ hardTerminate[n] = "nil" /\ loop' = "deploy" /\ UNCHANGED err
     \/ hardTerminate[n] = "fatal" /\ Return("fatal")
  /\ UNCHANGED <<mainVars, isTransient, isRetry, success, actVars, ctxDone, shutdownCompleted, cleaned,
                 commandResult, exitCh, syncVars, fwdVars, goVars, envVars>>

\* A nil up.Sy is dereferenced: the process panics.
NilSyncthing(where) ==
  /\ Alive /\ loop = where /\ sy = 0
  /\ ExitWith("panic")
  /\ UNCHANGED <<interrupted, mainCh, loopVars, actVars, ctxDone, chanVars, exitCh, syncVars, fwdVars, goVars, envVars>>

\* Secrets, deployment of the dev application, wait for its pod.  The deployment
\* may have happened when a later step fails.
ActivateDeploy ==
  /\ Alive /\ loop = "deploy" /\ sy # 0
  /\ \/ \E e \in Failures : Return(e) /\ devOn' \in {devOn, TRUE}
     \/ loop' = "podWait" /\ devOn' = TRUE /\ UNCHANGED err
  /\ UNCHANGED <<mainVars, isTransient, isRetry, success, actVars, ctxDone, chanVars, exitCh,
                 syncVars, fwdVars, goVars, pidOwned>>

\* The pod runs, or it is deleted, cannot be scheduled, or the wait is cancelled.
\* From here on the session only reconnects.
ActivatePodWait ==
  /\ Alive /\ loop = "podWait"
  /\ \/ \E e \in Failures : Return(e) /\ UNCHANGED isRetry
     \/ loop' = "forwards" /\ isRetry' = TRUE /\ UNCHANGED err
  /\ UNCHANGED <<mainVars, isTransient, success, actVars, ctxDone, chanVars, exitCh,
                 syncVars, fwdVars, goVars, envVars>>

\* A forwarder is made for the ports of up.Sy and started.
ActivateForwards ==
  /\ Alive /\ loop = "forwards" /\ sy # 0
  /\ \/ \E e \in Failures : Return(e) /\ UNCHANGED <<fwdVars, clean>>
     \/ /\ forwarder' = n /\ fwdOpen' = fwdOpen \cup {n}
        /\ \/ \E e \in Failures : Return(e) /\ UNCHANGED clean
           \/ loop' = "startSync" /\ clean' = [clean EXCEPT ![n] = "exec"] /\ UNCHANGED err
  /\ UNCHANGED <<mainVars, isTransient, isRetry, success, actVars, ctxDone, chanVars, exitCh,
                 syncVars, init, cmd, cmdCh, envVars>>

\* Sy.Run starts the local process of the instance up.Sy holds.
ActivateStartSync ==
  /\ Alive /\ loop = "startSync" /\ sy # 0
  /\ \/ \E e \in Failures : Return(e) /\ UNCHANGED proc
     \/ loop' = "sync" /\ proc' = [proc EXCEPT ![sy] = n] /\ UNCHANGED err
  /\ UNCHANGED <<mainVars, isTransient, isRetry, success, actVars, ctxDone, chanVars, exitCh, sy,
                 fwdVars, goVars, envVars>>

\* The file synchronization.  A remote syncthing that does not answer is worth
\* a retry only when the session was successful before.
ActivateSync ==
  /\ Alive /\ loop = "sync"
  /\ \/ \E e \in Failures \cup {"lost"} : Return(e)
     \/ Return(IF success THEN "transient" ELSE "fatal")
     \/ loop' = "services" /\ UNCHANGED err
  /\ UNCHANGED <<mainVars, isTransient, isRetry, success, actVars, ctxDone, chanVars, exitCh,
                 syncVars, fwdVars, goVars, envVars>>

ActivateServices ==
  /\ Alive /\ loop = "services"
  /\ \/ \E e \in Failures : Return(e) /\ UNCHANGED <<success, cmd>>
     \/ /\ loop' = "wait" /\ success' = TRUE /\ UNCHANGED err
        /\ cmd' = [cmd EXCEPT ![n] = "start"]
  /\ UNCHANGED <<mainVars, isTransient, isRetry, actVars, ctxDone, chanVars, exitCh,
                 syncVars, fwdVars, init, clean, cmdCh, envVars>>

\* shouldRetry: a lost syncthing or a modified application is retried; without
\* a volume the pod is destroyed first, which may fail.
RetryLost ==
  \/ Return("lost")
  \/ ~PersistentVolume /\ \E e \in Failures : Return(e)

\* waitUntilExitOrInterruptOrApply: the command's result, or a disconnect, a
\* failing global forward, a background signal or a watched application.
WaitCommandResult ==
  /\ Alive /\ loop = "wait" /\ commandResult[n] # "empty"
  /\ Return(commandResult[n])
  /\ commandResult' = [commandResult EXCEPT ![n] = "empty"]
  /\ UNCHANGED <<mainVars, isTransient, isRetry, success, actVars, ctxDone, shutdownCompleted, cleaned,
                 hardTerminate, exitCh, syncVars, fwdVars, goVars, envVars>>

WaitDisconnect ==
  /\ Alive /\ loop = "wait"
  /\ RetryLost \/ \E e \in Failures : Return(e)
  /\ UNCHANGED <<mainVars, isTransient, isRetry, success, actVars, ctxDone, chanVars, exitCh,
                 syncVars, fwdVars, goVars, envVars>>

\* The deferred function: no shutdown when the main goroutine is doing it.
DeferredCheck ==
  /\ LoopGoto("return", IF interrupted THEN "token" ELSE "cancel")
  /\ UNCHANGED <<mainVars, err, isTransient, isRetry, success, actVars, ctxDone, chanVars, exitCh,
                 syncVars, fwdVars, goVars, envVars>>

DeferredCancel ==
  /\ LoopGoto("cancel", "stop")
  /\ CancelContext
  /\ UNCHANGED <<mainVars, err, isTransient, isRetry, success, actVars, chanVars, exitCh,
                 syncVars, fwdVars, goVars, envVars>>

DeferredStop ==
  /\ LoopGoto("stop", "send")
  /\ StopSyncAndForwarder
  /\ UNCHANGED <<mainVars, err, isTransient, isRetry, success, actVars, ctxDone, chanVars, exitCh, goVars, envVars>>

DeferredSend ==
  /\ LoopGoto("send", "token")
  /\ SendShutdownCompleted(n)
  /\ UNCHANGED <<mainVars, err, isTransient, isRetry, success, actVars, ctxDone, cleaned, commandResult,
                 hardTerminate, exitCh, syncVars, fwdVars, goVars, envVars>>

-----------------------------------------------------------------------------
(* Goroutines of activation k *)

\* initializeSyncthing: New, then up.Sy is replaced.  When New fails nothing is ever
\* sent to up.hardTerminate.
InitNew(k) ==
  /\ Alive /\ init[k] = "new"
  /\ \/ sy' = k /\ init' = [init EXCEPT ![k] = "kill"]
     \/ "syncthingFails" \in Events /\ init' = [init EXCEPT ![k] = "failed"] /\ UNCHANGED sy
  /\ UNCHANGED <<mainVars, loopVars, actVars, ctxDone, chanVars, exitCh, proc, fwdVars, clean, cmd, cmdCh, envVars>>

\* HardTerminate kills every syncthing of this dev home.
InitHardTerminate(k) ==
  /\ Alive /\ init[k] = "kill"
  /\ proc' = [i \in Act |-> 0]
  /\ init' = [init EXCEPT ![k] = "send"]
  /\ UNCHANGED <<mainVars, loopVars, actVars, ctxDone, chanVars, exitCh, sy, fwdVars, clean, cmd, cmdCh, envVars>>

\* Variant: a failed termination is only logged.
InitSendOnSuccess(k) ==
  /\ Alive /\ init[k] = "send" /\ hardTerminate[n] = "empty"
  /\ \/ hardTerminate' = [hardTerminate EXCEPT ![n] = "nil"]
     \/ UNCHANGED hardTerminate
  /\ init' = [init EXCEPT ![k] = "done"]
  /\ UNCHANGED <<mainVars, loopVars, actVars, ctxDone, shutdownCompleted, cleaned, commandResult, exitCh,
                 syncVars, fwdVars, clean, cmd, cmdCh, envVars>>

InitSend(k) ==
  /\ Alive /\ init[k] = "send" /\ hardTerminate[n] = "empty"
  /\ \E v \in {"nil", "fatal"} : hardTerminate' = [hardTerminate EXCEPT ![n] = v]
  /\ init' = [init EXCEPT ![k] = "done"]
  /\ UNCHANGED <<mainVars, loopVars, actVars, ctxDone, shutdownCompleted, cleaned, commandResult, exitCh,
                 syncVars, fwdVars, clean, cmd, cmdCh, envVars>>

\* cleanCommand: when the client cannot be made nothing is sent.
CleanSend(k) ==
  /\ Alive /\ clean[k] = "exec"
  /\ \/ cleaned[n] = "empty" /\ cleaned' = [cleaned EXCEPT ![n] = "out"]
     \/ UNCHANGED cleaned
  /\ clean' = [clean EXCEPT ![k] = "done"]
  /\ UNCHANGED <<mainVars, loopVars, actVars, ctxDone, shutdownCompleted, commandResult, hardTerminate, exitCh,
                 syncVars, fwdVars, init, cmd, cmdCh, envVars>>

\* The command goroutine loads up.cleaned, waits for it, and runs the command.
CmdStart(k) ==
  /\ Alive /\ cmd[k] = "start"
  /\ cmd' = [cmd EXCEPT ![k] = "waitCleaned"] /\ cmdCh' = [cmdCh EXCEPT ![k] = n]
  /\ UNCHANGED <<mainVars, loopVars, actVars, ctxDone, chanVars, exitCh, syncVars, fwdVars, init, clean, envVars>>

CmdCleaned(k) ==
  /\ Alive /\ cmd[k] = "waitCleaned" /\ cleaned[cmdCh[k]] = "out"
  /\ cleaned' = [cleaned EXCEPT ![cmdCh[k]] = "empty"]
  /\ cmd' = [cmd EXCEPT ![k] = "run"]
  /\ UNCHANGED <<mainVars, loopVars, actVars, ctxDone, shutdownCompleted, commandResult, hardTerminate, exitCh,
                 syncVars, fwdVars, init, clean, cmdCh, envVars>>

\* RunCommand ends; the result goes to what up.CommandResult holds then.
CmdResult(k) ==
  /\ Alive /\ cmd[k] = "run" /\ commandResult[n] = "empty"
  /\ \E e \in {"nil", "transient", "fatal"} : commandResult' = [commandResult EXCEPT ![n] = e]
  /\ cmd' = [cmd EXCEPT ![k] = "done"]
  /\ UNCHANGED <<mainVars, loopVars, actVars, ctxDone, shutdownCompleted, cleaned, hardTerminate, exitCh,
                 syncVars, fwdVars, init, clean, cmdCh, envVars>>

-----------------------------------------------------------------------------
(* Environment: `okteto down' is run elsewhere, another `okteto up' takes over. *)

OktetoDown ==
  /\ Alive /\ "down" \in Events /\ devOn /\ devOn' = FALSE
  /\ UNCHANGED <<mainVars, loopVars, actVars, ctxDone, chanVars, exitCh, syncVars, fwdVars, goVars, pidOwned>>

PidTaken ==
  /\ Alive /\ "takeover" \in Events /\ pidOwned /\ pidOwned' = FALSE
  /\ UNCHANGED <<mainVars, loopVars, actVars, ctxDone, chanVars, exitCh, syncVars, fwdVars, goVars, devOn>>

-----------------------------------------------------------------------------
MainStep ==
  MainProvide \/ MainInterrupt \/ MainCancel \/ MainStop \/ MainSend \/ MainAutoDown
  \/ MainExit \/ MainPidChanged

LoopStep ==
  \/ LoopTop \/ LoopWaitShutdown \/ LoopCheckPid \/ LoopToken
  \/ ActivateBegin \/ ActivateSetup \/ ActivatePrepare \/ AwaitHardTerminate \/ ActivateDeploy
  \/ ActivatePodWait \/ ActivateForwards \/ ActivateStartSync \/ ActivateSync \/ ActivateServices
  \/ WaitCommandResult \/ WaitDisconnect
  \/ DeferredCheck \/ DeferredCancel \/ DeferredStop \/ DeferredSend
  \/ \E where \in {"deploy", "forwards", "startSync"} : NilSyncthing(where)

InitStep(k) == InitNew(k) \/ InitHardTerminate(k) \/ InitSend(k)
CmdStep(k) == CleanSend(k) \/ CmdStart(k) \/ CmdCleaned(k) \/ CmdResult(k)

Next ==
  \/ MainStep \/ LoopStep
  \/ \E k \in Act : InitStep(k) \/ CmdStep(k)
  \/ OktetoDown \/ PidTaken

Spec == Init /\ [][Next]_vars

\* The Go scheduler runs every goroutine that can run, and the calls the loop
\* makes (cluster API, processes, files) return.  Nothing obliges the user, the
\* other processes, or a disconnect to happen.
Fairness ==
  /\ WF_vars(MainProvide \/ MainCancel \/ MainStop \/ MainSend \/ MainAutoDown \/ MainExit)
  /\ WF_vars(LoopStep /\ loop # "wait")
  /\ \A k \in Act : WF_vars(InitStep(k))

FairSpec == Spec /\ Fairness

-----------------------------------------------------------------------------
(* Properties *)

\* Unless the user interrupts, activations are serial: whatever a retry leaves
\* behind, the contexts of all earlier activations are cancelled and their
\* forwarders no longer listen on the local ports (up.go:559, 723, 735-738,
\* activate.go:66-75).
ActivationsAreSerial ==
  ~interrupted => fwdOpen \subseteq {n} /\ \A k \in Act : k < n => ctxDone[k]

\* When the session ends through up.Exit nothing of it is left: the last
\* context is cancelled and no forwarder listens (up.go:522-533).
ExitIsClean == result = "exit" => fwdOpen = {} /\ (n # 0 => ctxDone[n])

\* The session keeps its types, its activations are serial, and its end is clean,
\* whatever fails or interrupts it (up.go:522-603).
SessionIsSound == TypeOK /\ ActivationsAreSerial /\ ExitIsClean

\* What the loop does outside activate: nothing of the last activation is left.
Outside == {"top", "waitShutdown", "pid", "stateFile", "token", "done"}

\* Who ends the session: up.Exit is written when the loop ends and not before, and
\* the main goroutine leaves its select for the shutdown only when interrupted.
ExitProtocol ==
  /\ loop \notin Outside => n # 0
  /\ exitCh # "empty" => loop = "done"
  /\ result # "none" => main = "exited"
  /\ result = "exit" => ~interrupted /\ loop = "done"
  /\ interrupted => main \in {"cancel", "stop", "send", "autoDown", "exited"}
  /\ ~interrupted => main \notin {"cancel", "stop", "send"} /\ (main = "autoDown" => loop = "done")

\* What makes activations serial: without an interrupt the loop returns from
\* activate only through the deferred shutdown, which finds the forwarder and the
\* context of its own activation in the fields.
OneActivation ==
  ~interrupted =>
    /\ \A k \in Act : k < n => ctxDone[k]
    /\ fwdOpen \subseteq {n} /\ (fwdOpen # {} => forwarder = n)
    /\ loop \in Outside \cup {"stop", "send"} => (n # 0 => ctxDone[n])
    /\ loop \in Outside \cup {"send"} => fwdOpen = {}

\* The inductive invariant behind SessionIsSound.
IInv == TypeOK /\ ExitProtocol /\ OneActivation

\* The loop is stuck on a handshake with another goroutine only where the code has no
\* sender for it.  Without an interrupt, whatever else fails or happens, the shutdown
\* it waits for at up.go:559 is announced, unless the last activate() failed before it
\* registered its shutdown (activate.go:61); the termination of the previous syncthing
\* at activate.go:296 is announced, unless syncthing.New failed (syncthing.go:35-38);
\* and its own announcement finds room in the channel (up.go:746).
LoopNeverStuck ==
  /\ loop = "waitShutdown" ~> (loop # "waitShutdown" \/ unregistered \/ ~Alive)
  /\ loop = "hardTerminate" ~> (loop # "hardTerminate" \/ (n # 0 /\ init[n] = "failed") \/ ~Alive)
  /\ loop = "send" ~> (loop # "send" \/ ~Alive)

\* Whatever the loop ends with, start() hears of it and returns (up.go:522).
ExitIsHeard == loop = "done" ~> ~Alive

\* What the comment at up.go:708 promises of CTRL+C: the shutdown sequence ends.
\* It does not when activate has already announced its own shutdown and the loop
\* is about to exit: the channel of capacity 1 is full and has no reader.
InterruptEnds == interrupted ~> ~Alive
=============================================================================
