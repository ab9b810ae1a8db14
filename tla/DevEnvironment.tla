--------------------------- MODULE DevEnvironment ---------------------------
(***************************************************************************)
(* `okteto deploy' and `okteto destroy' commands working on one            *)
(* development environment at the same time (cmd/deploy, cmd/destroy,      *)
(* pkg/deployable, pkg/cmd/pipeline).  The environment's record is a       *)
(* config map that commands read, check and write in separate calls, with  *)
(* Kubernetes' optimistic concurrency: an update carries the version that  *)
(* was read and is refused when the map has changed since.  An object that *)
(* was only built locally carries no version, and overwrites.              *)
(*                                                                         *)
(* A deploy runs in a goroutine; the main goroutine waits for it or for    *)
(* CTRL+C, runs the clean-ups registered so far and ends the process.      *)
(***************************************************************************)
CONSTANTS Deploys, Destroys,   \* the commands
          NoMap                \* the config map does not exist

Cmds == Deploys \cup Destroys

Statuses == {"progressing", "deployed", "error", "destroying"}
Maps == [status : Statuses, by : Cmds \cup {NoMap}, lock : BOOLEAN, shadow : BOOLEAN]

ASSUME CommandsAssumption == Deploys \cap Destroys = {} /\ NoMap \notin Cmds \cup Maps

VARIABLES
  cm,     \* the config map: NoMap or [status, by, lock, shadow]
  copy,   \* copy[c]: the config map object c holds: none, new, fresh or stale
  call,   \* call[c]: the config-map call in progress: first, status or aux
  want,   \* want[c]: the status that call writes
  k,      \* k[c]: where that call is; ok or err when it has returned
  pc,     \* pc[c]: where the command is
  main,   \* main[c]: the main goroutine: off, wait, cleaning, leaving, exited
  res,    \* res[c]: how the command ended
  files,  \* files[c]: which of kube (temporary kubeconfig) and proxy exist
  reg,    \* reg[c]: the deployer's CleanUp is in onCleanUp
  objs,   \* resources with the environment's label: none, some, or left by a destroy
  overlap \* a command has started while another one was running

vars == <<cm, copy, call, want, k, pc, main, res, files, reg, objs, overlap>>
kvars == <<cm, copy, call, want, k>>
lvars == <<files, reg, objs>>

Pcs == {"idle", "load", "first", "deps", "build", "recreate", "getDeployer", "remote",
        "modify", "driver", "run", "phaseErr", "phase", "envs", "external", "cleanUpErr",
        "cleanUp", "compose", "composePhase", "endpoints", "divert", "lookup", "wait",
        "status", "errStatus", "commands", "volumes", "helm", "label", "destroyMap", "done"}
Calling == {"get", "create", "look", "put", "recreate"}

Init ==
  /\ cm \in {NoMap} \cup {[status |-> s, by |-> NoMap, lock |-> FALSE, shadow |-> FALSE] :
                            s \in {"deployed", "error"}}
  /\ copy = [c \in Cmds |-> "none"] /\ call = [c \in Cmds |-> "first"]
  /\ want = [c \in Cmds |-> "error"] /\ k = [c \in Cmds |-> "ok"]
  /\ pc = [c \in Cmds |-> "idle"] /\ main = [c \in Cmds |-> "off"]
  /\ res = [c \in Cmds |-> "none"]
  /\ files = [c \in Cmds |-> {}] /\ reg = [c \in Cmds |-> FALSE]
  /\ objs = (IF cm = NoMap THEN "none" ELSE "some") /\ overlap = FALSE

-----------------------------------------------------------------------------
(* The config map (pkg/k8s/configmaps, pkg/cmd/pipeline/translate.go) *)

Alive(c) == main[c] \in {"wait", "cleaning", "leaving"}

\* Every copy that was read from the API server is outdated by a write.
Outdate(c) ==
  copy' = [d \in Cmds |-> CASE d = c -> "none"
                            [] copy[d] = "fresh" -> "stale"
                            [] OTHER -> copy[d]]

\* A call: continue at pc `next' when it returns.
Start(c, what, status, next) ==
  /\ call' = [call EXCEPT ![c] = what]
  /\ want' = [want EXCEPT ![c] = status]
  /\ k' = [k EXCEPT ![c] = "get"]
  /\ pc' = [pc EXCEPT ![c] = next]
  /\ UNCHANGED <<cm, copy>>

Return(c, result) == k' = [k EXCEPT ![c] = result]

\* The calls, named after the functions: the first write of a command, the
\* status, and what a deploy adds to the map on its way.
TranslateConfigMapAndDeploy(c, status) == Start(c, "first", status, "first")
UpdateConfigMap(c, status) ==
  Start(c, "status", status, IF status = "error" THEN "errStatus" ELSE "status")
SetErrorStatus(c) == Start(c, "status", "error", "errStatus")
SetBuildEnvVars(c, next) == Start(c, "aux", "error", next)
AddPhaseDuration(c, next) == Start(c, "aux", "error", next)
UpdateEnvs(c, next) == Start(c, "aux", "error", next)

\* updateCmap: another action has the map; calls that only add data do not look.
Locked(c) == call[c] # "aux" /\ cm.lock

CmapGet(c) ==
  /\ Alive(c) /\ k[c] = "get"
  /\ \/ Return(c, "err") /\ UNCHANGED copy
     \/ /\ cm = NoMap
        /\ Return(c, IF call[c] = "first" THEN "create" ELSE "err")
        /\ UNCHANGED copy
     \/ /\ cm # NoMap
        /\ copy' = [copy EXCEPT ![c] = "fresh"]
        /\ Return(c, IF Locked(c) THEN "err" ELSE "look")
  /\ UNCHANGED <<cm, call, want, pc, main, res, files, reg, objs, overlap>>

\* The object built by translateConfigMapSandBox; its version stays empty.
CmapCreate(c) ==
  /\ Alive(c) /\ k[c] = "create"
  /\ IF cm = NoMap
       THEN /\ cm' = [status |-> want[c], by |-> c, lock |-> FALSE, shadow |-> FALSE]
            /\ copy' = [d \in Cmds |-> CASE d = c -> "new"
                                         [] copy[d] = "fresh" -> "stale"
                                         [] OTHER -> copy[d]]
            /\ Return(c, "look")
       ELSE Return(c, "err") /\ UNCHANGED <<cm, copy>>
  /\ UNCHANGED <<call, want, pc, main, res, files, reg, objs, overlap>>

\* configmaps.Deploy reads the map again: a map of a running installer is left
\* alone without an error.
CmapLook(c) ==
  /\ Alive(c) /\ k[c] = "look"
  /\ \/ Return(c, "err")
     \/ cm = NoMap /\ Return(c, "recreate")
     \/ cm # NoMap /\ cm.shadow /\ Return(c, "ok")
     \/ cm # NoMap /\ ~cm.shadow /\ Return(c, "put")
  /\ UNCHANGED <<cm, copy, call, want, pc, main, res, files, reg, objs, overlap>>

\* What the update writes: the whole object c holds.
Written(c) ==
  IF call[c] = "aux" THEN cm
  ELSE [status |-> want[c], by |-> c, shadow |-> FALSE,
        lock |-> IF copy[c] = "new" THEN FALSE ELSE cm.lock]

\* Variant: the update carries no version.
CmapPutBlind(c) ==
  /\ Alive(c) /\ k[c] = "put"
  /\ IF cm # NoMap
       THEN cm' = Written(c) /\ Outdate(c) /\ Return(c, "ok")
       ELSE Return(c, "err") /\ UNCHANGED <<cm, copy>>
  /\ UNCHANGED <<call, want, pc, main, res, files, reg, objs, overlap>>

\* The update is refused when the map is gone or has changed.
CmapPut(c) ==
  /\ Alive(c) /\ k[c] = "put"
  /\ \/ /\ cm # NoMap /\ copy[c] # "stale"
        /\ cm' = Written(c) /\ Outdate(c) /\ Return(c, "ok")
     \/ Return(c, "err") /\ UNCHANGED <<cm, copy>>
  /\ UNCHANGED <<call, want, pc, main, res, files, reg, objs, overlap>>

\* Variant: any object can be created again.
CmapRecreateAny(c) ==
  /\ Alive(c) /\ k[c] = "recreate"
  /\ IF cm = NoMap
       THEN /\ cm' = [status |-> want[c], by |-> c, lock |-> FALSE, shadow |-> FALSE]
            /\ Outdate(c) /\ Return(c, "ok")
       ELSE Return(c, "err") /\ UNCHANGED <<cm, copy>>
  /\ UNCHANGED <<call, want, pc, main, res, files, reg, objs, overlap>>

\* configmaps.Deploy creates a map that is gone; the API server refuses an
\* object that carries a version.
CmapRecreate(c) ==
  /\ Alive(c) /\ k[c] = "recreate"
  /\ IF cm = NoMap /\ copy[c] = "new"
       THEN /\ cm' = [status |-> want[c], by |-> c, lock |-> FALSE, shadow |-> FALSE]
            /\ Outdate(c) /\ Return(c, "ok")
       ELSE Return(c, "err") /\ UNCHANGED <<cm, copy>>
  /\ UNCHANGED <<call, want, pc, main, res, files, reg, objs, overlap>>

\* The backend (external): a pipeline action takes the lock of the map, or
\* writes the map of an installer, and gives it back.
BackendLock ==
  /\ cm' \in IF cm = NoMap
               THEN {[status |-> "progressing", by |-> NoMap, lock |-> TRUE, shadow |-> TRUE]}
               ELSE {[cm EXCEPT !.lock = ~@, !.shadow = FALSE]}
  /\ copy' = [d \in Cmds |-> IF copy[d] = "fresh" THEN "stale" ELSE copy[d]]
  /\ UNCHANGED <<call, want, k, pc, main, res, files, reg, objs, overlap>>

-----------------------------------------------------------------------------
(* The processes *)

At(c, s) == Alive(c) /\ pc[c] = s /\ k[c] \in {"ok", "err"}
Goto(c, s) == pc' = [pc EXCEPT ![c] = s]
Finish(c, r) == Goto(c, "done") /\ res' = [res EXCEPT ![c] = r]

\* A step of the command: to one of several places, with nothing else changed.
Step(c, from, targets) ==
  /\ At(c, from)
  /\ \E s \in targets : Goto(c, s)
  /\ UNCHANGED <<kvars, main, res, lvars, overlap>>

StartProcess(c) ==
  /\ main[c] = "off"
  /\ main' = [main EXCEPT ![c] = "wait"]
  /\ overlap' = (overlap \/ \E d \in Cmds : Alive(d))
  /\ UNCHANGED <<kvars, lvars>>

\* The command lines: flags, manifest path, context and namespace.
BeginDeploy(c) ==
  /\ c \in Deploys /\ StartProcess(c)
  /\ Finish(c, "err") \/ (Goto(c, "load") /\ UNCHANGED res)

BeginDestroy(c) ==
  /\ c \in Destroys /\ StartProcess(c)
  /\ Finish(c, "err") \/ (Goto(c, "load") /\ UNCHANGED res)

\* The process ends when the command has returned.
Exit(c) ==
  /\ main[c] = "wait" /\ pc[c] = "done"
  /\ main' = [main EXCEPT ![c] = "exited"]
  /\ UNCHANGED <<kvars, pc, res, lvars, overlap>>

\* The process is killed (external); `okteto destroy' has no handler for CTRL+C
\* of its own.
Kill(c) ==
  /\ Alive(c) /\ pc[c] # "done"
  /\ main' = [main EXCEPT ![c] = "exited"]
  /\ res' = [res EXCEPT ![c] = "killed"]
  /\ UNCHANGED <<kvars, pc, lvars, overlap>>

\* CTRL+C during a deploy; the proxy closes itself on the same signal.
Interrupt(c) ==
  /\ c \in Deploys /\ main[c] = "wait" /\ pc[c] # "done"
  /\ main' = [main EXCEPT ![c] = "cleaning"]
  /\ files' = [files EXCEPT ![c] = @ \ {"proxy"}]
  /\ UNCHANGED <<kvars, pc, res, reg, objs, overlap>>

\* cleanUp: the functions registered by now; the deploying goroutine goes on
\* until the process ends.
CleanUpOnInterrupt(c) ==
  /\ main[c] = "cleaning"
  /\ files' = [files EXCEPT ![c] = IF reg[c] THEN {} ELSE @]
  /\ main' = [main EXCEPT ![c] = "leaving"]
  /\ UNCHANGED <<kvars, pc, res, reg, objs, overlap>>

LeaveOnInterrupt(c) ==
  /\ main[c] = "leaving"
  /\ main' = [main EXCEPT ![c] = "exited"]
  /\ res' = [res EXCEPT ![c] = "interrupted"]
  /\ UNCHANGED <<kvars, pc, lvars, overlap>>

-----------------------------------------------------------------------------
(* okteto deploy: Command.Run *)

\* The manifest, the options and the data of the map.
LoadManifest(c) ==
  /\ c \in Deploys /\ At(c, "load")
  /\ \/ Finish(c, "err") /\ UNCHANGED kvars
     \/ TranslateConfigMapAndDeploy(c, "progressing") /\ UNCHANGED res
  /\ UNCHANGED <<main, lvars, overlap>>

AfterFirst(c) ==
  /\ c \in Deploys /\ At(c, "first")
  /\ IF k[c] = "err" THEN Finish(c, "refused") ELSE Goto(c, "deps") /\ UNCHANGED res
  /\ UNCHANGED <<kvars, main, lvars, overlap>>

\* Variant: the error of a dependency is returned with the status as it is.
DeployDependenciesNoStatus(c) ==
  /\ c \in Deploys /\ At(c, "deps")
  /\ Finish(c, "err") \/ (Goto(c, "build") /\ UNCHANGED res)
  /\ UNCHANGED <<kvars, main, lvars, overlap>>

\* The dependencies' pipelines; a manifest with nothing else to deploy is done
\* after them, with the status as it is.
DeployDependencies(c) ==
  /\ c \in Deploys /\ At(c, "deps")
  /\ \/ UpdateConfigMap(c, "error") /\ UNCHANGED res
     \/ Finish(c, "onlyDependencies") /\ UNCHANGED kvars
     \/ Goto(c, "build") /\ UNCHANGED <<kvars, res>>
  /\ UNCHANGED <<main, lvars, overlap>>

\* buildImages: nothing to build, a failed build, or images whose variables are
\* stored in the map (an error of that is ignored).
BuildImages(c) ==
  /\ At(c, "build")
  /\ \/ UpdateConfigMap(c, "error")
     \/ Goto(c, "recreate") /\ UNCHANGED kvars
     \/ SetBuildEnvVars(c, "recreate")
  /\ UNCHANGED <<main, res, lvars, overlap>>

\* recreateFailedPods, whose error is ignored.
RecreateFailedPods(c) == Step(c, "recreate", {"getDeployer"})

\* The deployer, with its CleanUp registered; the remote one cleans nothing.
GetDeployer(c) ==
  /\ At(c, "getDeployer")
  /\ \/ UpdateConfigMap(c, "error") /\ UNCHANGED reg
     \/ reg' = [reg EXCEPT ![c] = TRUE] /\ Goto(c, "modify") /\ UNCHANGED kvars
     \/ Goto(c, "remote") /\ UNCHANGED <<kvars, reg>>
  /\ UNCHANGED <<main, res, files, objs, overlap>>

\* The same runner inside a build in the cluster, when there is anything to run.
DeployRemote(c) ==
  /\ At(c, "remote")
  /\ \/ UpdateConfigMap(c, "error") /\ UNCHANGED res
     \/ Finish(c, "interrupted") /\ UNCHANGED kvars
     \/ (Goto(c, "run") \/ Goto(c, "compose")) /\ UNCHANGED <<kvars, res>>
  /\ UNCHANGED <<main, lvars, overlap>>

\* RunDeploy: the temporary kubeconfig.
ModifyKubeconfig(c) ==
  /\ At(c, "modify")
  /\ \/ UpdateConfigMap(c, "error") /\ UNCHANGED files
     \/ /\ files' = [files EXCEPT ![c] = @ \cup {"kube"}]
        /\ Goto(c, "driver") /\ UNCHANGED kvars
  /\ UNCHANGED <<main, res, reg, objs, overlap>>

\* RunDeploy: the divert driver is created before the clean-up is deferred.
StartProxy(c) ==
  /\ At(c, "driver")
  /\ \/ UpdateConfigMap(c, "error") /\ UNCHANGED files
     \/ /\ files' = [files EXCEPT ![c] = @ \cup {"proxy"}]
        /\ Goto(c, "run") /\ UNCHANGED kvars
  /\ UNCHANGED <<main, res, reg, objs, overlap>>

\* runCommandsSection: the commands, up to the first that fails.
RunCommands(c) ==
  /\ At(c, "run")
  /\ objs' \in {objs, "some"}
  /\ AddPhaseDuration(c, "phaseErr") \/ AddPhaseDuration(c, "phase")
  /\ UNCHANGED <<main, res, files, reg, overlap>>

\* AddPhaseDuration has returned, with or without an error.
AfterPhase(c) ==
  /\ Alive(c) /\ k[c] \in {"ok", "err"} /\ pc[c] \in {"phase", "phaseErr"}
  /\ \/ pc[c] = "phaseErr" /\ Goto(c, "cleanUpErr") /\ UNCHANGED kvars
     \/ pc[c] = "phase" /\ UpdateEnvs(c, "envs")
  /\ UNCHANGED <<main, res, lvars, overlap>>

\* UpdateEnvsFromCommands, whose error is one of the deploy.
AfterEnvs(c) ==
  /\ At(c, "envs")
  /\ Goto(c, IF k[c] = "err" THEN "cleanUpErr" ELSE "external")
  /\ UNCHANGED <<kvars, main, res, lvars, overlap>>

DeployExternals(c) == Step(c, "external", {"cleanUp", "cleanUpErr"})

\* The deferred CleanUp of RunDeploy.
RunnerCleanUp(c) ==
  /\ Alive(c) /\ pc[c] \in {"cleanUp", "cleanUpErr"} /\ k[c] \in {"ok", "err"}
  /\ files' = [files EXCEPT ![c] = {}]
  /\ \/ pc[c] = "cleanUp" /\ Goto(c, "compose") /\ UNCHANGED kvars
     \/ pc[c] = "cleanUpErr" /\ UpdateConfigMap(c, "error")
  /\ UNCHANGED <<main, res, reg, objs, overlap>>

\* deployStack, when the manifest has a compose section; its duration is stored
\* before its error is looked at, and an interrupt leaves the status as it is.
DeployStack(c) ==
  /\ At(c, "compose")
  /\ \/ Goto(c, "endpoints") /\ UNCHANGED <<kvars, objs>>
     \/ AddPhaseDuration(c, "composePhase") /\ objs' \in {objs, "some"}
  /\ UNCHANGED <<main, res, files, reg, overlap>>

AfterComposePhase(c) ==
  /\ At(c, "composePhase")
  /\ \/ Goto(c, "endpoints") /\ UNCHANGED <<kvars, res>>
     \/ UpdateConfigMap(c, "error") /\ UNCHANGED res
     \/ Finish(c, "interrupted") /\ UNCHANGED kvars
  /\ UNCHANGED <<main, lvars, overlap>>

DeployEndpoints(c) ==
  /\ At(c, "endpoints")
  /\ \/ UpdateConfigMap(c, "error") /\ UNCHANGED objs
     \/ Goto(c, "divert") /\ objs' \in {objs, "some"} /\ UNCHANGED kvars
  /\ UNCHANGED <<main, res, files, reg, overlap>>

DeployDivert(c) ==
  /\ c \in Deploys /\ At(c, "divert")
  /\ UpdateConfigMap(c, "error") \/ (Goto(c, "lookup") /\ UNCHANGED kvars)
  /\ UNCHANGED <<main, res, lvars, overlap>>

\* HasDeployedSomething: its error is returned with the status as it is.
HasDeployedSomething(c) ==
  /\ At(c, "lookup")
  /\ \/ Finish(c, "lookupFailed") /\ UNCHANGED kvars
     \/ Goto(c, "wait") /\ UNCHANGED <<kvars, res>>
     \/ UpdateConfigMap(c, "deployed") /\ UNCHANGED res
  /\ UNCHANGED <<main, lvars, overlap>>

\* DeployWaiter.wait, with a time-out and its own handling of CTRL+C.
WaitForResourcesToBeRunning(c) ==
  /\ At(c, "wait")
  /\ UpdateConfigMap(c, "error") \/ UpdateConfigMap(c, "deployed")
  /\ UNCHANGED <<main, res, lvars, overlap>>

\* The end of a deploy, or of an error of either command.
AfterStatus(c) ==
  /\ Alive(c) /\ k[c] \in {"ok", "err"} /\ pc[c] \in {"status", "errStatus"}
  /\ Finish(c, IF k[c] = "err" THEN "statusNotWritten"
               ELSE IF pc[c] = "status" THEN "ok" ELSE "err")
  /\ UNCHANGED <<kvars, main, lvars, overlap>>

DeployRun(c) ==
  \/ LoadManifest(c) \/ AfterFirst(c) \/ DeployDependencies(c) \/ BuildImages(c)
  \/ RecreateFailedPods(c) \/ GetDeployer(c) \/ DeployRemote(c) \/ ModifyKubeconfig(c)
  \/ StartProxy(c) \/ RunCommands(c) \/ AfterPhase(c) \/ AfterEnvs(c)
  \/ DeployExternals(c) \/ RunnerCleanUp(c) \/ DeployStack(c) \/ AfterComposePhase(c)
  \/ DeployEndpoints(c) \/ DeployDivert(c) \/ HasDeployedSomething(c)
  \/ WaitForResourcesToBeRunning(c)

-----------------------------------------------------------------------------
(* okteto destroy: destroyCommand.destroy *)

\* The image of the commands, the variables of the map, and the first write.
PrepareDestroy(c) ==
  /\ c \in Destroys /\ At(c, "load")
  /\ \/ Finish(c, "err") /\ UNCHANGED kvars
     \/ TranslateConfigMapAndDeploy(c, "destroying") /\ UNCHANGED res
  /\ UNCHANGED <<main, lvars, overlap>>

\* The dependencies' pipelines, when asked for.
DestroyDependencies(c) ==
  /\ c \in Destroys /\ At(c, "first")
  /\ IF k[c] = "err" THEN Finish(c, "refused") /\ UNCHANGED kvars
     ELSE \/ SetErrorStatus(c) /\ UNCHANGED res
          \/ Goto(c, "divert") /\ UNCHANGED <<kvars, res>>
  /\ UNCHANGED <<main, lvars, overlap>>

\* A divert that cannot be destroyed ends the command with the status as it is.
DestroyDivert(c) ==
  /\ c \in Destroys /\ At(c, "divert")
  /\ Finish(c, "divertFailed") \/ (Goto(c, "commands") /\ UNCHANGED res)
  /\ UNCHANGED <<kvars, main, lvars, overlap>>

\* destroyer.Destroy: the commands in a goroutine, against CTRL+C; with --force
\* a failure is remembered for the end.
RunDestroyCommands(c) ==
  /\ At(c, "commands")
  /\ \/ SetErrorStatus(c) /\ UNCHANGED res
     \/ \E r \in {"none", "commandErr"} :
          res' = [res EXCEPT ![c] = r] /\ Goto(c, "volumes") /\ UNCHANGED kvars
  /\ UNCHANGED <<main, lvars, overlap>>

\* destroyK8sResources: the volumes of the stateful sets, the Helm releases
\* (their errors are ignored with --force), everything with the label.
DestroySFSVolumes(c) ==
  /\ At(c, "volumes")
  /\ SetErrorStatus(c) \/ (Goto(c, "helm") /\ UNCHANGED kvars)
  /\ UNCHANGED <<main, res, lvars, overlap>>

DestroyHelmReleases(c) ==
  /\ At(c, "helm")
  /\ SetErrorStatus(c) \/ (Goto(c, "label") /\ UNCHANGED kvars)
  /\ UNCHANGED <<main, res, lvars, overlap>>

\* Variant: an error of the discovery is only logged, like those of the objects.
DestroyWithLabelLogged(c) ==
  /\ At(c, "label")
  /\ objs' \in {objs, "none"} /\ Goto(c, "destroyMap")
  /\ UNCHANGED <<kvars, main, res, files, reg, overlap>>

\* Every object is visited; one that cannot be listed or deleted, or is to be
\* kept, is left without an error.
DestroyWithLabel(c) ==
  /\ At(c, "label")
  /\ \/ SetErrorStatus(c) /\ UNCHANGED objs
     \/ /\ objs' \in {"none", IF objs = "none" THEN "none" ELSE "left"}
        /\ Goto(c, "destroyMap") /\ UNCHANGED kvars
  /\ UNCHANGED <<main, res, files, reg, overlap>>

\* destroyConfigMap: whatever map is there by now.
DestroyConfigMap(c) ==
  /\ At(c, "destroyMap")
  /\ \/ Finish(c, "notDeleted") /\ UNCHANGED <<cm, copy>>
     \/ /\ cm' = NoMap
        /\ copy' = [d \in Cmds |-> IF copy[d] = "fresh" THEN "stale" ELSE copy[d]]
        /\ Finish(c, IF res[c] = "none" THEN "ok" ELSE "err")
  /\ UNCHANGED <<call, want, k, main, lvars, overlap>>

DestroyRun(c) ==
  \/ PrepareDestroy(c) \/ DestroyDependencies(c) \/ DestroyDivert(c)
  \/ RunDestroyCommands(c) \/ DestroySFSVolumes(c) \/ DestroyHelmReleases(c)
  \/ DestroyWithLabel(c) \/ DestroyConfigMap(c)

-----------------------------------------------------------------------------
CmapCall(c) ==
  CmapGet(c) \/ CmapCreate(c) \/ CmapLook(c) \/ CmapPut(c) \/ CmapRecreate(c)

Next ==
  \/ BackendLock
  \/ \E c \in Cmds :
       \/ BeginDeploy(c) \/ BeginDestroy(c) \/ Exit(c) \/ Kill(c) \/ Interrupt(c)
       \/ CleanUpOnInterrupt(c) \/ LeaveOnInterrupt(c)
       \/ CmapCall(c) \/ DeployRun(c) \/ AfterStatus(c) \/ DestroyRun(c)

Spec == Init /\ [][Next]_vars

-----------------------------------------------------------------------------
(* Properties *)

\* The types, and that only the deploy that wrote them has temporary files.
TypeOK ==
  /\ cm \in Maps \cup {NoMap}
  /\ copy \in [Cmds -> {"none", "new", "fresh", "stale"}]
  /\ call \in [Cmds -> {"first", "status", "aux"}]
  /\ want \in [Cmds -> Statuses]
  /\ k \in [Cmds -> Calling \cup {"ok", "err"}]
  /\ pc \in [Cmds -> Pcs]
  /\ main \in [Cmds -> {"off", "wait", "cleaning", "leaving", "exited"}]
  /\ res \in [Cmds -> {"none", "ok", "err", "refused", "onlyDependencies", "interrupted",
                        "killed", "lookupFailed", "divertFailed", "commandErr",
                        "notDeleted", "statusNotWritten"}]
  /\ files \in [Cmds -> SUBSET {"kube", "proxy"}] /\ reg \in [Cmds -> BOOLEAN]
  /\ objs \in {"none", "some", "left"} /\ overlap \in BOOLEAN
  /\ \A c \in Destroys : files[c] = {} /\ main[c] \notin {"cleaning", "leaving"}

\* An environment that was destroyed does not come back: the map is created by
\* the first call of a command (TranslateConfigMapAndDeploy) or by the backend,
\* never by the status, the variables or the durations that a command still
\* running writes later, although configmaps.Deploy creates what it cannot find.
NotResurrected ==
  [][ cm = NoMap /\ cm' # NoMap =>
        cm'.by = NoMap \/ (cm'.by \in Cmds /\ pc[cm'.by] = "first") ]_vars

\* While a pipeline action holds the lock of the map no command changes its
\* status, whatever it had read before the lock was taken; only a command that
\* created the map may, with the update that follows the creation.
LockIsHonoured ==
  [][ cm # NoMap /\ cm.lock /\ cm' # NoMap /\ cm' # cm =>
        \/ cm'.by = cm.by /\ cm'.status = cm.status
        \/ cm'.by \in Cmds /\ copy[cm'.by] = "new" /\ pc[cm'.by] = "first" ]_vars

Settled(c) == main[c] = "exited" /\ cm # NoMap /\ cm.by = c

\* What the map says and what the last command that wrote it returned agree:
\* success is "deployed", an error of any step "error", and a status that stays
\* "progressing" or "destroying" comes from a process that was stopped, from a
\* write that failed, or from one of the returns that write no status.
StatusMatchesResult ==
  \A c \in Cmds : Settled(c) =>
    /\ res[c] = "ok" => cm.status = "deployed"
    /\ res[c] = "err" => cm.status = "error"
    /\ cm.status = "deployed" => res[c] \in {"ok", "killed", "interrupted"}
    /\ cm.status \in {"progressing", "destroying"} =>
         res[c] \in {"killed", "interrupted", "refused", "statusNotWritten",
                    "onlyDependencies", "lookupFailed", "divertFailed", "notDeleted"}

\* A deploy that was not stopped leaves no proxy, and a successful one no
\* kubeconfig with the proxy's token (an error of the divert driver leaves it).
CleanEnd ==
  \A c \in Deploys : main[c] = "exited" /\ res[c] \notin {"killed", "interrupted"} =>
    /\ "proxy" \notin files[c]
    /\ res[c] = "ok" => files[c] = {}

\* As long as commands do not overlap, an environment without a record has no
\* resources but those a destroy has tried to delete: the map is written before
\* anything is deployed, and deleted after everything was visited, wherever a
\* command stops.
NoOrphans == ~overlap /\ cm = NoMap => objs # "some"

\* Wherever a command stops, nothing is left behind that nobody will find again:
\* no proxy or kubeconfig of a deploy, and no resources without a record (see
\* CleanEnd and NoOrphans); the types hold too.
NothingIsLeftBehind == TypeOK /\ CleanEnd /\ NoOrphans

-----------------------------------------------------------------------------
(* The inductive invariant *)

\* A config-map call belongs to the place its command waits at and writes that
\* place's status; an object without a version is only held by the first call, and
\* one that is still current was read from a map nobody had locked.
Calls ==
  \A c \in Cmds :
    /\ k[c] \in Calling =>
         /\ pc[c] \in {"first", "status", "errStatus", "recreate", "phaseErr", "phase", "envs",
                      "composePhase"}
         /\ call[c] = "first" <=> pc[c] = "first"
         /\ call[c] = "status" <=> pc[c] \in {"status", "errStatus"}
         /\ pc[c] = "first" => want[c] \in {"progressing", "destroying"}
         /\ pc[c] = "status" => want[c] = "deployed"
         /\ pc[c] = "errStatus" => want[c] = "error"
    /\ k[c] = "create" => call[c] = "first"
    /\ k[c] \in {"look", "put", "recreate"} =>
         copy[c] # "none" /\ (copy[c] = "new" => call[c] = "first")
    /\ k[c] \in {"look", "put"} /\ copy[c] = "fresh" =>
         cm # NoMap /\ (call[c] # "aux" => ~cm.lock)

\* The places of the two commands, and how a process ends.
DestroyPcs == {"commands", "volumes", "helm", "label", "destroyMap"}
Places ==
  \A c \in Cmds :
    /\ c \in Deploys => pc[c] \notin DestroyPcs
    /\ c \in Destroys =>
         pc[c] \in DestroyPcs \cup {"idle", "load", "first", "divert", "errStatus", "done"}
    /\ main[c] = "off" => pc[c] = "idle"
    /\ main[c] = "exited" => pc[c] = "done" \/ res[c] \in {"killed", "interrupted"}

\* What the map says while the command that wrote it last is on its way.
InProgress == {"progressing", "destroying"}
Told ==
  cm # NoMap =>
    /\ cm.shadow => cm.by = NoMap
    /\ \A c \in Cmds : cm.by = c =>
         /\ pc[c] \notin {"idle", "load"}
         /\ pc[c] = "status" /\ k[c] = "ok" => cm.status = "deployed"
         /\ pc[c] = "errStatus" /\ k[c] = "ok" => cm.status = "error"
         /\ pc[c] = "done" =>
              \/ res[c] = "ok" /\ cm.status = "deployed"
              \/ res[c] = "err" /\ cm.status = "error"
              \/ /\ cm.status \in InProgress
                 /\ res[c] \in {"refused", "statusNotWritten", "onlyDependencies", "lookupFailed",
                               "divertFailed", "notDeleted"}
              \/ res[c] \in {"killed", "interrupted"}
         /\ ~(pc[c] = "done" \/ (pc[c] \in {"status", "errStatus"} /\ k[c] = "ok")) =>
              cm.status \in InProgress

\* Where a deploy may have temporary files.
RunnerPcs == {"run", "phaseErr", "phase", "envs", "external", "cleanUpErr", "cleanUp"}
Temporary ==
  \A c \in Cmds :
    /\ "proxy" \in files[c] => pc[c] \in RunnerPcs
    /\ files[c] # {} =>
         /\ pc[c] \in RunnerPcs \cup {"driver", "errStatus", "done"}
         /\ pc[c] = "done" => res[c] # "ok"

\* A command that runs alone has its record from its first write to its end, and
\* a destroy deletes the record when there is nothing left to visit.
RecordedPcs ==
  {"deps", "build", "recreate", "getDeployer", "remote", "modify", "driver", "run", "phaseErr",
   "phase", "envs", "external", "cleanUp", "compose", "composePhase", "endpoints"}
Recorded ==
  ~overlap =>
    /\ \A c, d \in Cmds : Alive(c) /\ Alive(d) => c = d
    /\ \A c \in Cmds : Alive(c) =>
         /\ pc[c] \in RecordedPcs \/ (pc[c] = "first" /\ k[c] = "ok") => cm # NoMap
         /\ pc[c] = "destroyMap" => objs # "some"
    /\ cm = NoMap => objs # "some"

IInv == TypeOK /\ Calls /\ Places /\ Told /\ Temporary /\ Recorded
=============================================================================
