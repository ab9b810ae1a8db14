---------------------------- MODULE WaitCommands ----------------------------
(***************************************************************************)
(* The commands that ask the Okteto backend for an operation and wait for  *)
(* it while they stream its logs: `okteto pipeline deploy' and `destroy',  *)
(* `okteto preview deploy' and `destroy', `okteto namespace delete' and    *)
(* `okteto destroy --all'.  Each starts a goroutine that polls and one     *)
(* that streams, and selects between a channel of interrupts and one of    *)
(* results; they differ in who closes the channels, who is waited for and  *)
(* what is cancelled.                                                      *)
(***************************************************************************)
CONSTANT CommandKinds   \* the commands to consider, of the ones below

AllKinds == {"pipelineDeploy", "pipelineDestroy", "previewDeploy", "previewDestroy",
             "namespaceDelete", "destroyAll"}

ASSUME KindsAssumption == CommandKinds \subseteq AllKinds

VARIABLES
  command,  \* the command
  srv,      \* the operation in the cluster: pending, running, finished, failed, gone
  main,     \* the main goroutine
  waiter,   \* the polling goroutine: off, poll, resources, send, done
  early,    \* waitForNamespaceDestroyAllToComplete: jobNotFoundAfterXSeconds
  begun,    \* the same function: hasBeenDestroyingAll
  logs,     \* the streaming goroutine: off, progress, stream, send, done
  sendErr,  \* the result the waiter is about to send is an error
  exit,     \* the channel of results, of capacity 1: "none", "ok" or "err"
  stop,     \* the channel of interrupts holds a signal
  closed,   \* the channels that were closed
  cancelled,\* the context of both goroutines is cancelled
  pressed,  \* CTRL+C was pressed
  panic,    \* a goroutine used a closed channel
  res       \* what the command returned

waitVars == <<command, srv, main, waiter, early, begun, logs, sendErr, exit, stop, closed,
              cancelled, pressed, panic, res>>

WaitInit ==
  /\ command \in CommandKinds
  /\ srv = "pending" /\ main = "start" /\ waiter = "off" /\ logs = "off"
  /\ early = FALSE /\ begun = FALSE /\ sendErr = FALSE
  /\ exit = "none" /\ stop = FALSE /\ closed = {} /\ cancelled = FALSE
  /\ pressed = FALSE /\ panic = FALSE /\ res = "none"

Running == main \notin {"exited"} /\ ~panic

\* The channels a deferred call closes when the function returns.
DeferredClose == IF command \in {"previewDestroy", "namespaceDelete", "destroyAll"}
                 THEN {"stop", "exit"} ELSE {}

Finish(r) == main' = "returned" /\ res' = r

-----------------------------------------------------------------------------
(* The request *)

\* ExecuteDeployPipeline with --skip-if-exists, on what the config map says: an
\* environment that is deployed, or scheduled without --wait, is left alone; one
\* that a pipeline action is deploying is waited for as if it were this command's,
\* one that a command line is deploying by its status.
SkipIfExists ==
  /\ Running /\ main = "start" /\ command = "pipelineDeploy"
  /\ \/ srv' = "finished" /\ Finish("ok") /\ UNCHANGED <<waiter, logs>>
     \/ srv' = "running" /\ Finish("scheduled") /\ UNCHANGED <<waiter, logs>>
     \/ srv' = "running" /\ main' = "waiting" /\ waiter' = "poll" /\ logs' = "progress"
        /\ UNCHANGED res
     \/ srv' = "running" /\ main' = "pollStatus" /\ UNCHANGED <<waiter, logs, res>>
  /\ UNCHANGED <<command, early, begun, sendErr, exit, stop, closed, cancelled, pressed, panic>>

\* configmaps.WaitForStatus: only the deployed status, a missing map or the
\* time-out end it; it has no handler for CTRL+C.
WaitForStatus ==
  /\ Running /\ main = "pollStatus"
  /\ \/ srv = "finished" /\ Finish("ok")
     \/ srv = "gone" /\ Finish("err")
     \/ Finish("timeout")
     \/ Finish("err")
  /\ UNCHANGED <<command, srv, waiter, early, begun, logs, sendErr, exit, stop, closed,
                 cancelled, pressed, panic>>

\* What a command does when the backend has accepted: the goroutines are started.
StartWaiting ==
  /\ main' = "waiting" /\ waiter' = "poll"
  /\ logs' = IF command \in {"pipelineDeploy", "pipelineDestroy", "previewDeploy"}
               THEN "progress" ELSE "stream"
  /\ UNCHANGED res

\* deployPipeline, and the requests that no interrupt is handled for (the process
\* ends by itself then).
Request ==
  /\ Running /\ main = "start" /\ command # "pipelineDestroy"
  /\ \/ Finish("err") /\ UNCHANGED <<srv, waiter, logs>>
     \/ command = "pipelineDeploy" /\ pressed /\ Finish("interrupted") /\ UNCHANGED <<srv, waiter, logs>>
     \/ srv' = "running" /\ StartWaiting
     \/ command \in {"pipelineDeploy", "previewDeploy", "previewDestroy"}
        /\ srv' = "running" /\ Finish("scheduled") /\ UNCHANGED <<waiter, logs>>
     \/ command \in {"previewDestroy", "namespaceDelete"}
        /\ srv' = "gone" /\ Finish("ok") /\ UNCHANGED <<waiter, logs>>
  /\ UNCHANGED <<command, early, begun, sendErr, exit, stop, closed, cancelled, pressed, panic>>

\* destroyPipeline: an interrupt only stops the spinner; without an answer there
\* is nothing to wait for and the command succeeds.
RequestDestroy ==
  /\ Running /\ main = "start" /\ command = "pipelineDestroy"
  /\ \/ Finish("err") /\ UNCHANGED <<srv, waiter, logs>>
     \/ pressed /\ srv' \in {"pending", "running"} /\ Finish("ok") /\ UNCHANGED <<waiter, logs>>
     \/ srv' = "running" /\ StartWaiting
     \/ srv' = "running" /\ Finish("scheduled") /\ UNCHANGED <<waiter, logs>>
     \/ srv' = "gone" /\ Finish("ok") /\ UNCHANGED <<waiter, logs>>
  /\ UNCHANGED <<command, early, begun, sendErr, exit, stop, closed, cancelled, pressed, panic>>

-----------------------------------------------------------------------------
(* The cluster, the terminal *)

\* The operation goes on in the cluster (external).
Operation ==
  /\ srv = "running"
  /\ srv' \in {"finished", "failed", "gone"}
  /\ UNCHANGED <<command, main, waiter, early, begun, logs, sendErr, exit, stop, closed,
                 cancelled, pressed, panic, res>>

\* CTRL+C (external): the runtime sends the signal to the registered channel
\* without blocking, also after the channel was closed.
PressInterrupt ==
  /\ Running
  /\ pressed' = TRUE
  /\ IF "stop" \in closed THEN panic' = TRUE /\ UNCHANGED stop
     ELSE stop' = (main \notin {"start", "pollStatus"}) /\ UNCHANGED panic
  /\ UNCHANGED <<command, srv, main, waiter, early, begun, logs, sendErr, exit, closed,
                 cancelled, res>>

-----------------------------------------------------------------------------
(* The polling goroutine *)

Answer(isErr, next) == sendErr' = isErr /\ waiter' = next

\* WaitForActionToFinish: time-out, failed request, or the status of the action.
WaitForActionToFinish ==
  /\ Running /\ waiter = "poll"
  /\ command \in {"pipelineDeploy", "pipelineDestroy", "previewDeploy"}
  /\ \/ Answer(TRUE, "send")
     \/ srv = "failed" /\ Answer(TRUE, "send")
     \/ srv \in {"finished", "gone"}
        /\ Answer(FALSE, IF command = "pipelineDestroy" THEN "send" ELSE "resources")
  /\ UNCHANGED <<command, srv, main, early, begun, logs, exit, stop, closed, cancelled,
                 pressed, panic, res>>

\* waitForResourcesToBeRunning: time-out, failed request, a resource in error, or
\* all running.
WaitForResourcesToBeRunning ==
  /\ Running /\ waiter = "resources"
  /\ Answer(TRUE, "send") \/ Answer(FALSE, "send")
  /\ UNCHANGED <<command, srv, main, early, begun, logs, exit, stop, closed, cancelled,
                 pressed, panic, res>>

\* waitForPreviewDestroyed and waitForNamespaceDeleted: the namespace is gone, its
\* label says that the operation has failed, the time-out or a failed request.
WaitForNamespaceGone ==
  /\ Running /\ waiter = "poll" /\ command \in {"previewDestroy", "namespaceDelete"}
  /\ \/ Answer(TRUE, "send")
     \/ srv = "failed" /\ Answer(TRUE, "send")
     \/ srv \in {"finished", "gone"} /\ Answer(FALSE, "send")
  /\ UNCHANGED <<command, srv, main, early, begun, logs, exit, stop, closed, cancelled,
                 pressed, panic, res>>

\* waitForNamespaceDestroyAllToComplete: one look at the label of the namespace.
\* Once it was Active in the first seconds with resources left, resources left
\* never end the wait; later they end it with an error if the operation was seen,
\* and without one if it was not.
WaitForDestroyAll ==
  /\ Running /\ waiter = "poll" /\ command = "destroyAll"
  /\ \/ Answer(TRUE, "send") /\ UNCHANGED <<early, begun>>
     \/ srv = "failed" /\ Answer(TRUE, "send") /\ UNCHANGED <<early, begun>>
     \/ srv = "running" /\ begun' = TRUE /\ UNCHANGED <<early, waiter, sendErr>>
     \/ \E soon, left \in BOOLEAN :
          /\ srv \in {"running", "finished"} /\ (left \/ srv = "finished")
          /\ early' = (early \/ (~begun /\ soon))
          /\ UNCHANGED begun
          /\ IF left /\ early' THEN UNCHANGED <<waiter, sendErr>>
             ELSE Answer(left /\ begun, "send")
  /\ UNCHANGED <<command, srv, main, logs, exit, stop, closed, cancelled, pressed, panic, res>>

\* The send; destroy --all gives up when its context is cancelled, if the select
\* does not take the other case.
WaiterSend ==
  /\ Running /\ waiter = "send"
  /\ \/ /\ "exit" \in closed /\ panic' = TRUE /\ UNCHANGED <<exit, waiter>>
     \/ /\ "exit" \notin closed /\ exit = "none"
        /\ exit' = IF sendErr THEN "err" ELSE "ok"
        /\ waiter' = "done" /\ UNCHANGED panic
     \/ /\ command = "destroyAll" /\ cancelled
        /\ waiter' = "done" /\ UNCHANGED <<exit, panic>>
  /\ cancelled' = (cancelled \/ (command = "previewDeploy" /\ waiter' = "done"))
  /\ UNCHANGED <<command, srv, main, early, begun, logs, sendErr, stop, closed, pressed, res>>

-----------------------------------------------------------------------------
(* The streaming goroutine *)

\* WaitForActionProgressing; its error is a result only of pipeline deploy.
WaitForActionProgressing ==
  /\ Running /\ logs = "progress"
  /\ logs' \in {"stream", IF command = "pipelineDeploy" THEN "send" ELSE "done"}
  /\ UNCHANGED <<command, srv, main, waiter, early, begun, sendErr, exit, stop, closed,
                 cancelled, pressed, panic, res>>

LogsSend ==
  /\ Running /\ logs = "send"
  /\ exit = "none" /\ exit' = "err" /\ logs' = "done"
  /\ UNCHANGED <<command, srv, main, waiter, early, begun, sendErr, stop, closed, cancelled,
                 pressed, panic, res>>

\* PipelineLogs, DestroyAllLogs: the last line, the time-out, a lost connection or
\* the end of the context; an error is only shown.
StreamLogs ==
  /\ Running /\ logs = "stream"
  /\ logs' = "done"
  /\ UNCHANGED <<command, srv, main, waiter, early, begun, sendErr, exit, stop, closed,
                 cancelled, pressed, panic, res>>

\* waitUntilRunning of pipelines: a third goroutine closes both channels after the
\* other two; the one of pipeline destroy waits for a Done that never comes.
CloseChannels ==
  /\ Running /\ command = "pipelineDeploy" /\ waiter = "done" /\ logs = "done" /\ closed = {}
  /\ closed' = {"stop", "exit"}
  /\ UNCHANGED <<command, srv, main, waiter, early, begun, logs, sendErr, exit, stop,
                 cancelled, pressed, panic, res>>

-----------------------------------------------------------------------------
(* The main goroutine's select *)

\* A signal, or the closed channel.
SelectStop ==
  /\ Running /\ main = "waiting" /\ (stop \/ "stop" \in closed)
  /\ stop' = FALSE /\ cancelled' = TRUE
  /\ res' = "interrupted"
  /\ IF command = "previewDeploy"
       THEN main' = "join" /\ UNCHANGED closed
       ELSE main' = "returned" /\ closed' = closed \cup DeferredClose
  /\ UNCHANGED <<command, srv, waiter, early, begun, logs, sendErr, exit, pressed, panic>>

\* Variant: the result is not looked at.
SelectExitIgnored ==
  /\ Running /\ main = "waiting" /\ exit # "none"
  /\ res' = "ok" /\ exit' = "none"
  /\ cancelled' = TRUE
  /\ main' = "join"
  /\ UNCHANGED <<command, srv, waiter, early, begun, logs, sendErr, stop, closed, pressed, panic>>

\* The result; preview commands cancel the context before they wait for the
\* goroutines, pipelines when they return.
SelectExit ==
  /\ Running /\ main = "waiting" /\ exit # "none"
  /\ res' = exit /\ exit' = "none"
  /\ cancelled' = (cancelled \/ command \notin {"namespaceDelete", "destroyAll"})
  /\ main' = IF command \in {"pipelineDeploy", "pipelineDestroy"} THEN "returned" ELSE "join"
  /\ UNCHANGED <<command, srv, waiter, early, begun, logs, sendErr, stop, closed, pressed, panic>>

\* wg.Wait(): the streaming goroutine, and the polling one where it is counted.
Join ==
  /\ Running /\ main = "join" /\ logs = "done"
  /\ command = "previewDeploy" \/ waiter = "done"
  /\ main' = "returned" /\ closed' = closed \cup DeferredClose
  /\ UNCHANGED <<command, srv, waiter, early, begun, logs, sendErr, exit, stop, cancelled,
                 pressed, panic, res>>

\* The rest of the command (analytics, the next namespace) and the end of the process.
ProcessExit ==
  /\ Running /\ main = "returned"
  /\ main' = "exited"
  /\ UNCHANGED <<command, srv, waiter, early, begun, logs, sendErr, exit, stop, closed,
                 cancelled, pressed, panic, res>>

-----------------------------------------------------------------------------
Waiter == \/ WaitForActionToFinish \/ WaitForResourcesToBeRunning
          \/ WaitForNamespaceGone \/ WaitForDestroyAll
Logs == WaitForActionProgressing \/ LogsSend \/ StreamLogs
Select == SelectStop \/ SelectExit

WaitNext ==
  \/ SkipIfExists \/ WaitForStatus \/ Request \/ RequestDestroy
  \/ Operation \/ PressInterrupt
  \/ Waiter \/ WaiterSend \/ Logs \/ CloseChannels
  \/ Select \/ Join \/ ProcessExit

WaitSpec == WaitInit /\ [][WaitNext]_waitVars

-----------------------------------------------------------------------------
(* Properties *)

WaitFlags ==
  /\ early \in BOOLEAN /\ begun \in BOOLEAN /\ sendErr \in BOOLEAN /\ stop \in BOOLEAN
  /\ cancelled \in BOOLEAN /\ pressed \in BOOLEAN /\ panic \in BOOLEAN

WaitFields ==
  /\ command \in CommandKinds /\ srv \in {"pending", "running", "finished", "failed", "gone"}
  /\ main \in {"start", "pollStatus", "waiting", "join", "returned", "exited"}
  /\ waiter \in {"off", "poll", "resources", "send", "done"}
  /\ logs \in {"off", "progress", "stream", "send", "done"}
  /\ exit \in {"none", "ok", "err"} /\ closed \in SUBSET {"stop", "exit"}
  /\ res \in {"none", "ok", "err", "scheduled", "timeout", "interrupted"}
  /\ main = "start" => waiter = "off" /\ logs = "off"

WaitTypeOK == WaitFlags /\ WaitFields

\* A command that waited and reports success did see its operation end well:
\* whatever the goroutines, the time-outs and CTRL+C do, no failure turns into a
\* success.  Two exceptions are in the code: pipeline destroy interrupted during
\* its request, and destroy --all when the namespace was never seen destroying.
SuccessMeansDone ==
  res = "ok" =>
    \/ srv \in {"finished", "gone"}
    \/ command = "pipelineDestroy" /\ pressed /\ waiter = "off"
    \/ command = "destroyAll" /\ ~begun

\* Only pipeline deploy, whose third goroutine closes the channel of interrupts,
\* can report an interrupt that did not happen; for every other command "the
\* interrupt signal" means that CTRL+C was pressed.
InterruptIsReal == res = "interrupted" => pressed \/ command = "pipelineDeploy"

\* Nobody uses a closed channel as long as CTRL+C is not pressed, and a preview
\* deploy or a pipeline destroy not even then.
PanicNeedsInterrupt ==
  panic => pressed /\ command \notin {"previewDeploy", "pipelineDestroy"}

\* No failure of an operation turns into a success of the command, an interrupt is
\* reported only after one, and a closed channel is written to only after one (the
\* select of each command, its goroutines and its deferred calls).
WaitsTellTheTruth == WaitTypeOK /\ SuccessMeansDone /\ InterruptIsReal /\ PanicNeedsInterrupt

\* Every command ends, with its goroutines, its time-outs and CTRL+C in any order.
CommandEnds == <>(main = "exited" \/ panic)

-----------------------------------------------------------------------------
(* Why they hold                                                              *)

\* What an answer without an error stands on: the operation is over, or nobody saw
\* destroy --all begin.
EndedWell == srv \in {"finished", "gone"} \/ (command = "destroyAll" /\ ~begun)

\* The polling goroutine and what it sent.
AnswersAreTrue ==
  /\ waiter = "resources" => srv \in {"finished", "gone"} /\ command # "destroyAll"
  /\ waiter \in {"send", "done"} => sendErr \/ EndedWell
  /\ exit = "ok" => waiter = "done" /\ ~sendErr
  /\ res = "ok" =>
       \/ waiter = "done" /\ ~sendErr
       \/ waiter = "off" /\ (srv \in {"finished", "gone"} \/ (command = "pipelineDestroy" /\ pressed))

\* Nothing is answered before the request, and nobody polls beside WaitForStatus.
MainIsFirst ==
  /\ main = "start" => res = "none" /\ exit = "none"
  /\ main = "pollStatus" => waiter = "off"
  /\ res = "ok" => main \notin {"start", "pollStatus"}

\* Who has closed the channels, and when.
ClosedLast ==
  /\ stop => pressed
  /\ closed # {} => command \notin {"previewDeploy", "pipelineDestroy"}
  /\ closed # {} /\ command # "pipelineDeploy" => main \in {"returned", "exited"}
  /\ "exit" \in closed => pressed \/ waiter = "done"

WaitIInv == WaitsTellTheTruth /\ AnswersAreTrue /\ MainIsFirst /\ ClosedLast
=============================================================================
