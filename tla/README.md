# Verification of the okteto CLI

This directory holds TLA+ models of the okteto CLI, the TLC configurations that
check them on small instances, and TLAPS proofs of the main safety invariants for
every value of the constants. Paths below are relative to the root of the
repository. `PROJECT.json` records, for every definition, the lines it models.

    tlc -workers 2 -config UpSession.cfg UpSession      # one run
    tlapm Supervisor_proofs.tla                         # the proofs of a module

The project has three kinds of models:

* **concurrent programs**: goroutines, commands and the cluster as processes whose
  steps interleave, with failures, interrupts and kills between any two of them;
* **rules**: what the CLI computes from files, flags and answers without another
  process in between. A behaviour takes one input and computes its result; the
  instance enumerates all small inputs, and the properties relate the result to
  the input, or the results of two inputs, by what they are for;
* **an abstract specification**, `CacheCheck`, with the refinement that shows
  `SmartBuild` implements it.

## 1. Inventory

okteto is a command-line program. What is hard in it is, first, the long-lived
part: `okteto up`, which keeps a development container, a file synchronization and
a set of tunnels alive across failures, and the connection to the BuildKit service
that every build shares. Second, commands that work on the same things at the same
time: two deployments of one environment, an `up` and a `down`, two commands that
write the file of contexts. Third, a large body of translation, from manifests and
compose files to Kubernetes objects and requests, in which every field has several
spellings and defaults.

**The session of `okteto up`** (`cmd/up/up.go`, `activate.go`, `syncthing.go`,
`exec.go`). *State:* the fields of `upContext`, among them five channels that
`activate` replaces on every attempt (`Cancel`, `ShutdownCompleted`, `cleaned`,
`CommandResult`, `hardTerminate`), the syncthing and forwarder objects, and
`Exit`. *Hard:* goroutines of an activation survive it and reach the channels of
the next one, because they load the field when they send; the user may interrupt
between any two steps. *Correct when* activations do not overlap, no handshake is
waited for that nobody will make, and every way to end the session ends it and
leaves nothing listening.

**The pid file** (`cmd/up/pid.go`), shared by the `up` commands of one container.
*Hard:* creating is several system calls, a watch belongs to an inode and not to a
path. *Correct when* the command that is not in charge any more is told so, and no
command leaves by mistake.

**Synchronization and tunnels** (`pkg/syncthing`, `pkg/ssh`, `pkg/k8s/forward`,
`cmd/up/forwards.go`). *State:* counters and caches of Syncthing's answers, the
`connected` flag of each tunnel, the active forward, the ports in the manager.
*Hard:* Syncthing answers late or not at all; one counter serves two checks; the
goroutine that waits for the context races with the accept loop; the goroutine of
an earlier start reports through a field of a later one. *Correct when* "synced"
means that the remote side has the files, every tunnel ends with its context, a
forward that is given up is stopped, and ports are neither lost nor used twice.

**The supervisor** (`tools/supervisor`), the first process of the development
container. *Hard:* state written by three goroutines without a lock, a bounded
channel read only between rounds. *Correct when* no process runs twice, an ended
process is noticed and restarted within the limit, and a signal ends everything.

**Development mode** (`pkg/k8s/apps`, `cmd/up/devdeployer.go`, `pkg/cmd/down`,
`pkg/k8s/{deployments,statefulsets,secrets,volumes,services}`). *State:* the
application, its clone and their annotations in the cluster. *Hard:* a command may
be cut at every call, and works on a copy read some calls before. *Correct when*
what `up` changed is remembered and `down` restores it.

**Builds** (`cmd/build/v2`, `pkg/build`, `pkg/cmd/build`, `pkg/registry`,
`pkg/repository`). *State:* the channels of the cache check's goroutines, the
connector with its mutex, the request with its dispatcher and displays, hashes
and references. *Hard:* every goroutine waits for others; an error must end all of
them and be the one that is told; a hash that is equal for different sources reuses
a wrong image. *Correct when* builds follow the graph, every build returns, success
is real, and an image is reused only for the same sources and options.

**Deploy and destroy** (`cmd/deploy`, `cmd/destroy`, `pkg/deployable`,
`pkg/cmd/pipeline`, `pkg/k8s/configmaps`). *State:* the config map of the
environment with its status and the lock of a pipeline action, the objects with
its label, temporary files. *Hard:* the config map is read, checked and written in
separate calls by commands that run at once. *Correct when* the record tells the
truth, the lock is honoured and nothing is left behind.

**Diverts** (`pkg/divert`): the traffic of a shared namespace goes to that of a
developer. *State:* with istio the annotations of the shared virtual service and
the copy of a host; with nginx the ingress, services and divert resources of the
developer's namespace. *Hard:* the environments of all developers write the same
object; a deploy works on lists it read at its start. *Correct when* no developer's
divert is lost, what belongs to the user stays, and a service of the user is diverted.

**Commands that wait for the backend** (`cmd/pipeline`, `cmd/preview`,
`cmd/namespace`, `cmd/destroy`). *Hard:* who closes which channel, and what an
interrupt cancels. *Correct when* a failure never becomes a success and every
command ends.

**Compose** (`pkg/cmd/stack`, `pkg/model/stack*.go`). *Hard:* pods start, restart
and fail while the loop decides whether a dependency is met; short syntaxes,
override files, and an object per field. *Correct when* `depends_on` is about this
deployment, what belongs to others stays, and the objects fit together.

**The manifest** (`pkg/model`, `pkg/discovery`, `pkg/env`, `pkg/deps`) and **the pods of
development containers** (`pkg/k8s/apps/translate.go`). *Correct when* every
spelling keeps what it says, names and folders do not collide, and the pod that is
translated has the volumes, secrets and selectors it refers to.

**The platform** (`pkg/okteto`, `cmd/context`, `pkg/k8s/kubeconfig`). *State:* the file
of contexts. *Hard:* servers of every age; commands that write the same file.
*Correct when* requests are sent once with what the server knows, and a token is
never given to another cluster.

**Remote execution** (`pkg/remote`, `cmd/remoterun`, `cmd/test`, `tools/remote`,
`tools/clean`). *Correct when* commands run remotely as they would on the machine,
and nothing with a token is left.

The hazards of the code, line by line, are the `hazards` of `PROJECT.json`; section
6 names those that are not in that list.

## 2. Modules

| module | models | instance | proved in |
|---|---|---|---|
| `UpSession` | the session of `okteto up` | itself | `UpSession_proofs` |
| `PidFile` | the hand-over between commands | `MCSupervisor` | `Supervisor_proofs` |
| `AgentForward` | the SSH agent forwarder of remote commands | `MCSupervisor` | `Supervisor_proofs` |
| `Supervisor` | the supervisor | `MCSupervisor` | `Supervisor_proofs` |
| `BuildkitForward` | port-forward connector and build runner | itself | `Forwards_proofs` |
| `K8sForward` | k8s forward manager under the SSH manager's loop | itself | `Forwards_proofs` |
| `SyncDriver` | start-up waits, completion loop and monitors of Syncthing | `MCTunnels` | `Tunnels_proofs` |
| `SshTunnels` | forwards and reverses over SSH | `MCTunnels` | - |
| `ForwardSetup` | which ports are forwarded, over reconnections | `MCTunnels` | `Tunnels_proofs` |
| `DevEnvironment` | deploy and destroy over one config map | itself | `DevEnvironment_proofs` |
| `WaitCommands` | six commands that wait for the backend | `MCDeployments` | `Deployments_proofs` |
| `StackDeploy` | deployment of a compose file | `MCDeployments` | `Deployments_proofs` |
| `SmartBuild` | selection, cache check and order of builds | `MCBuild` | `Build_proofs` |
| `CacheCheck` | what the cache check promises (abstract) | through `SmartBuild` | `Build_proofs` |
| `SolveBuild` | one BuildKit request and its displays | `MCBuild` | `Build_proofs` |
| `DevMode` | `okteto up` and `down` on the cluster's objects | `MCCommands` | `Commands_proofs` |
| `Contexts` | commands sharing the file of contexts | `MCCommands` | `Commands_proofs` |
| `Divert` | diverting a shared namespace, both drivers | `MCCommands` | `Commands_proofs` |
| `StackLoad` | compose files and their objects | `ComposeRules` | - |
| `ManifestLoad` | the manifest, its development containers | `ManifestRules` | - |
| `ManifestSyntax` | short forms, read and written | `ManifestRules` | - |
| `PodTranslate` | the pod of a development container | `ManifestRules` | - |
| `ApiClient` | API requests; options, tokens, kubeconfigs | `PlatformRules` | - |
| `RepoHash` | git, ignore files, hashes of builds | `RepoRules` | `Build_proofs` |
| `BuildRequest` | build requests and registry | `RepoRules` | - |
| `RemoteRun` | remote execution; tools of the container | `RemoteRules` | - |

`RuleCase` is the case that the `*Rules` modules share (one input, one result);
`MCRules` joins them into one run and groups their properties by subject.
`MCSupervisor`, `MCTunnels`, `MCBuild`, `MCDeployments` and `MCCommands` each join
models that share nothing: `part` selects the one whose behaviours are explored, the
others stay in their initial states.

In a concurrent model an action is one stretch of a goroutine between two points
where another goroutine can be noticed: a channel operation, a lock, a call that
blocks or leaves the process, a shared field read without a lock. A definition
whose comment starts with *Variant* or *Mutant* is a small mistake in the definition
that follows it; no specification uses it, and each exists to show that a property
notices the mistake.

### UpSession
Activations are numbered; `n` is the activation the fields belong to. A
per-activation channel is a function of the activation: `shutdownCompleted[n]`
is what `up.ShutdownCompleted` holds now, `shutdownCompleted[k]` for `k < n` a
channel only old goroutines know. A goroutine that sends to `up.X` indexes with
the current `n`, one that loaded the channel keeps its own index (`mainCh`,
`cmdCh`).

| code | actions |
|---|---|
| `start`, up.go:477-542 | `MainProvide`, `MainInterrupt`, `MainCancel`, `MainStop`, `MainSend`, `MainAutoDown`, `MainExit`, `MainPidChanged` |
| `activateLoop`, up.go:544-614 | `LoopTop`, `LoopWaitShutdown`, `LoopCheckPid`, `LoopToken` |
| `activate`, activate.go | `ActivateBegin` to `ActivateServices`, `AwaitHardTerminate`, `NilSyncthing`, `WaitCommandResult`, `WaitDisconnect`, `Deferred*` |
| `initializeSyncthing` | `InitNew`, `InitHardTerminate`, `InitSend` |
| `cleanCommand`, the command goroutine | `CleanSend`, `CmdStart`, `CmdCleaned`, `CmdResult` |
| other commands (external) | `OktetoDown`, `PidTaken` |

Errors are classes: what `shouldRetry` maps to a reconnection (`lost`), what
`isTransient` accepts, and the rest. The monitors and watchers that only reach
their own activation are one choice, `WaitDisconnect`. `Events` restricts what
the environment may do, so that a question can be asked with or without it.

### PidFile
`file` is the content at the path. Opening truncates it (`OpenTruncate`), the pid
is written in a second step (`WritePid`), and the opened file may have been
removed meanwhile (`fd`). `watch[p]` is true while the watch of `p` is on the file
that is now at the path. `pendW` and `pendR` are the events still to be read,
writes before removes, as inotify queues them. `Start`, `StartWrite` and
`AddWatch` are `create` called by `start`; `Delete` and `DeleteRemove` the
deferred `delete`; `NotifyWrite`, `NotifyRemove` and `RecreateWrite` the notifier.
The operating system's part is derived from how the code uses it.

### BuildkitForward
Every forward attempt is numbered and owns its `stopChan`, `readyChan` and
`errChan`; `cur` is the attempt whose channels the connector's fields hold. The
mutex is held exactly while `st # "out"`, i.e. from the entry of `Start` to its
return; the other critical sections never block and are one step each.
`StartEnter`, `AssignBuildkitPod`, `EstablishPortForward`, `SelectReady`,
`SelectError`, `SelectCancelled` are `Start`; `WaitUntilIsUp`, `Prepare`,
`GetBuildkitClient`, `Solve*`, `CheckIfImageIsPushed`, `DeferredStop` are `Run`;
`ForwardListens`, `ForwardFails`, `ForwardStopped` the goroutine around
`ForwardPorts`, and `HandlerSends`, `HandlerClearsPod`, `HandlerStops` its error
handler, which waits for the mutex between the send and the rest.

### K8sForward
Starts are numbered; `activeDev` is the start that `p.activeDev` belongs to. As
in the code nothing is locked, so `StartRead` finds the field and the channel in
it as they are: present, set to nil, or gone with the whole `activeDev`, which is
the panic state. `ErrorSeen`, `CloseReady` and `SetErr` are lines 144-151 of the
manager in their order. `ServiceTest` to `ServiceLost` are `forwardService` for one
service; `PoolConnects`, `PoolFails` and `RetryStop` the loop of
`ForwardManager.Start`. `StopReads`, `StopCloses` and `StopClears` are `Stop` by the
loop's side (`PoolFails` and `ManagerStop` begin it) or by the main goroutine
(`Interrupt`, the forwarder's part of `up.shutdown`); both may be in it at a time.

### Supervisor
`check[p]` is the goroutine of `checkState` in the current round, `watcher[p]` the
goroutine of `monitor`, `stopping[p]` that of `stop`. `ProcessEnds` and `Signal` are
the outside world; an ended process may leave a child behind (`orphan`), which
`KillAllByName` ends, or not: then it is remembered in `missed`, and the start goes on. `MonitorWakes` and `MonitorWrites` are separate because `stop`
is woken by the same channel and clears `p.cmd` in between.

### AgentForward
The listener, the accept loop, and per connection the handler (dial, token,
acknowledgment, copies), two copying goroutines and the one that waits for the
context. A question of the client and the answer of the agent travel through it;
either peer may close.

### SyncDriver, SshTunnels, ForwardSetup
`SyncDriver`: `pc` is `up.sync` from the first ping to the restart in both
directions; `LoopHealth`, `Overwrite`, `GetCompletionLocal`, `GetCompletionRemote`
and `Decide` are one turn of `WaitForCompletion`; `Monitor` and `MonitorStatus` the
two goroutines afterwards, which share `healthRetries`. That counter and `cachedStatus`
belong to the package, so `Init` has any value of them that an earlier activation of the
session leaves, and a remote Syncthing that may have scanned already; `stale` are the sides
whose `idle` is of that time. Both Syncthings are external:
every question may be answered, late or fail. `SshTunnels`: the accept loop and the
context's goroutine of a forward and of a reverse, `connected` between them, and one
connection. `ForwardSetup`: `AddForward`, `ForwardsTurnEnds` and `AddReverse` are
`addToForwarder`'s turns, `adder` the goroutine of the global forwards, `Reconnect`
the next activation, which keeps `isAdded`. `addGlobalForwards` visits any of the missing
globals before one that fails (a label without service, a port listed twice, a privileged
port); what it added until then stays, and is not started.

### DevEnvironment
Every config-map call is split at its requests (`CmapGet`, `CmapCreate`, `CmapLook`,
`CmapPut`, `CmapRecreate`); `copy[c]` says whether the object in the hands of command
`c` is current, which decides whether its update is refused. `DeployRun` and
`DestroyRun` are the steps of the two commands with every early return, `main` the
goroutine that waits for the result or CTRL+C, `Kill` the end of the process,
`BackendLock` the pipeline action of the backend.

### WaitCommands, StackDeploy
`WaitCommands` has the request, the waiter, the log stream and the select, with
`closed` for the channels that were closed and `panic` for the use of one; the kinds
differ in who closes and who is waited for. `StackDeploy` has the goroutine of the
deployment (`VisitService`, `Apply`, `Destroy*`, the wait), the select of the main
goroutine and the pods of the cluster; `fresh` tells the pods of this deployment
from older ones, and an object's label tells to whom it belongs.

### SmartBuild, CacheCheck, SolveBuild
In `SmartBuild` every graph is an initial state; one with a cycle is refused by
`BuildGraph`. Parallel:
`WaitDependency`, `IsCached`, `CloneGlobalImageToDev` and `Collect` per service.
Sequential: `SequentialCheck` to `SequentialEnd` with the recursion of
`addDependentsToNotCached` as a stack. `BuildServiceImages` is the loop that builds.
`CacheCheck` gives each service one verdict, allows "cached" only when all the
dependencies are, and reports a plan or an error; `ImplementsCacheCheck` maps `isCached`,
`failed` and `result` to it. `SolveBuild` has the request, the dispatcher, the display
and the writer with their unbuffered channels and the channel of one error.

### DevMode, Contexts, Divert
`DevMode`: an activation reads the applications (`UpGetApp`), translates them and
writes the secret, the clone, the application and the service in separate steps;
`down` reads and undoes. `UpCut` and `DownCut` end a command after any call; `Scale`,
`Redeploy` and `Sleep` are the user and the platform. `Contexts`: a command loads
the store once, chooses a context, asks the cluster and writes the whole store back
in two steps (`Truncate`, `Write`); another command, or a kill, may come between. A token
is a record of the cluster that gave it and of its age, the empty text is `NoName`.
`Divert`: a command per environment, one step per request. With istio, `VsGet` and
`VsPut` are the retries on the shared virtual service, whose resource version is
`vs.rev`, and `HostGet` to `HostPut` those on the copy of a host. With nginx,
`ListIngresses` to `ListDiverts` are `initCache`, and the steps up to `DivertedIngress`
work on that `cache`. `OtherWrites`, `UserHost`, `UserService` and `UserPutsIngress` are what
others do; `unseen`, `gone` and `touched` record what changed since a command read it.
The driver that changes the pods themselves is in `RemoteRun` (`UpdatePod`).

### The rules
An operator per function of the code, from records of what a file says to records of
what is made of it: a path is the sequence of its parts, a command the sequence of
its words, a text with references the sequence of its tokens, a hash the value that
is hashed, a file of ignore rules what it leaves out, a function whose steps may fail the list of its steps. Libraries (YAML,
git, the registry, Kubernetes) are external and stand as far as the code uses them.
`ManifestLoad` includes what `okteto up` does before its session: whether it deploys
and builds first, the flags that override the manifest, its checks, and the
environment of hybrid mode.

## 3. Runs

| run | bounds | what it shows |
|---|---|---|
| `buildkit_forward` | 2 builds, 2 attempts each, 5 forwards; fair | `ErrorsStayWithTheirAttempt`, `ForwardsAreSound` (an active forward is open, none is orphaned, nothing is closed twice), `RunLeavesNothingOpen`; `RunTerminates`: every build returns although `Start` blocks with the lock held |
| `up_session` | 2 activations, all events | `SessionIsSound`: earlier contexts are cancelled and earlier forwarders closed unless the user interrupts; a session that ends through `up.Exit` leaves nothing open |
| `up_session_live` | 2 activations, failures and a takeover, no interrupt; fair | `LoopNeverStuck`: each handshake the loop waits for is made, except the two that section 5 names; `ExitIsHeard`: the end of the loop ends the command |
| `up_session_interrupt` | 1 activation; fair; **violation** | `InterruptEnds`, see section 5 |
| `supervisor` | 2 processes, limit 3; 3 pid-file commands; 1 agent connection; fair | `ProcessesAreSound`, `StopStopsAll`; `PidFileHandsOver`: an empty file is one that is being written, a command leaves only for another; `AgentForwards`: nothing passes before the acknowledgment and a handler leaves nothing open; `ProgramsGoOn`: processes are restarted or stopped (unless the round is blocked, section 5), a takeover is seen, a closed side ends the handler, an answer is delivered however late |
| `k8s_forward` | 3 starts, interrupt anywhere; fair | `ForwardsAreStopped` (given up or ended: told to stop; with an interrupt, those it meets), `StoppedForwardEnds` |
| `dev_environment` | a deploy and a destroy, from every initial record | `StatusMatchesResult`; `NothingIsLeftBehind`: temporary files, and resources without a record; `NotResurrected`: a deploy that was overtaken does not bring back a destroyed record; `LockIsHonoured` |
| `build` | 3 images with every graph, 3 strategies; one request with 3 output modes; fair | `BuildsFollowTheGraph`, `ImplementsCacheCheck`; `SolveTellsTheTruth`: success is real and the error of the command is the one that is returned; `BuildsEnd` |
| `deployments` | six commands; compose files of 2 services over the objects of earlier and other ones; fair | `WaitsTellTheTruth`, `ComposeTellsTheTruth`, `ComposeForeignWorkloadsStay`, `DeploymentsEnd` |
| `tunnels` | 2 folders, retries 1, fresh or left caches; 2 tunnels; 2 activations of ports, 3 global; fair | `SyncTellsTheTruth`, `PortsAreServed`, `LoopGoesOn`, `TunnelsEnd` |
| `commands` | 2 ups, 1 down, 1 cut, 1 change; 2 context commands, 1 kill; 2 environments, 2 retries, istio with 2 commands each and 1 change, nginx with 1 and 2 | `DevModeIsUndone`, `UserAppsStay`, `ContextsStayWhole`; `DivertsHold`: updates of the shared virtual service are not lost, a command that says so has diverted, hosts of the user stay, orphans have no service, the user's services and the ingress are diverted |
| `rules` | all small inputs of 92 subjects, about 738,000 | the six groups below |

The groups of `rules`, each a conjunction of properties stated and explained in
the module named:

| group | modules | about |
|---|---|---|
| `ComposeIsFaithful` | `ComposeRules` | names, volumes, limits, ports and variables are kept through short forms and overrides; cycles are found, what is accepted has an order; ports route to containers, mounts have their claims, selectors find their pods, pods that share a volume share a node |
| `ManifestIsRead` | `ManifestRules` | no file is passed over, every spelling of a field agrees, what is written is read again, names and folders do not collide; flags win over the file, a session starts on what was checked, deployed and built, hybrid mode sees the variables of the container |
| `DevPodsHoldTogether` | `ManifestRules` | every mount has one volume, secrets have their keys, activations agree, a clone is not taken for the application |
| `PlatformIsTold` | `PlatformRules` | requests are sent once, fallbacks keep their meaning, failures are told, options and tokens are of one context |
| `BuildsAreReusedSafely` | `RepoRules` | equal hashes mean equal builds, what is unknown is built, a request has what was asked for, needed images are there |
| `RemoteRunsAreFaithful` | `RemoteRules` | commands see their environment, go through the proxy, are labelled; failures are reported, nothing with a token is left |

A property that does not hold in general states the condition under which it does
(for example "unless two processes give up in one round"), and section 5 says what
happens otherwise.

### Bounds, and why they are enough
* Two activations: what crosses activations is a goroutine of one meeting the
  fields of the next; a third adds no new pair. The bound stops `ActivateBegin`,
  not the shutdown of the last one.
  `up_session_live` has no interrupt, because one may block the main goroutine (the
  subject of `up_session_interrupt`), and no `okteto down`, which only makes `activate`
  return earlier.
* Two attempts per build: the second one re-establishes what the handler of the
  first is about to tear down. Two builds: the second one inherits a connector
  that was used and stopped. Five forwards are enough for a forward lost in each
  attempt and for the next build to start with the handlers of the first still to
  run. Where the instance runs out of forwards, and only there (`BoundReached`),
  `RunTerminates` asks nothing. The proofs cover any number of all three.
* Three commands on the pid file: one that owns it, one taking over, and one whose
  `delete` or recreation interferes with both. One connection of the agent
  forwarder: connections share only the listener and the context.
* Two processes are all the supervisor ever has, in remote mode. The limit of 3
  admits a first start, a restart, and a restart after a restart.
* Three starts of the connection loop: the current one, the previous one whose
  goroutine is late, and one earlier still.
* A deploy and a destroy: every conflict on the config map is between two commands,
  and the backend's lock is a third party.
* Three images: a dependency, a dependent and one with both, or a diamond's sides.
* Syncthing's counters: the limits (360, 50, 40 turns) are constants of the model,
  and every value of the code passes through the same two steps as limit 1 or 2:
  counting and being reset.
* Two ups, one down, one cut: a command that was cut, the one that meets what it
  left, and one that runs at the same time (two downs, one after a cut one, only in the
  proof). Two commands and a kill for the file of
  contexts, likewise.
* Two environments that divert: one writes what the other has read. Two retries: one
  conflict that is tried again, one that ends the retries. Two istio commands of one
  environment (a deploy and a destroy), one nginx command with two changes by users
  around it. The proofs cover any number of all of these.
* Inputs of the rules: two or three of everything that can collide (names, ports,
  folders, volumes, tags, variables), and every combination of switches.

Deadlock checking is off where the system ends: the command returns, the supervisor
exits. That nothing stops *early* is what the liveness properties say. It is on in
`tunnels`.

### Fairness
Weak fairness, per goroutine, on the steps a goroutine can take by itself: the
Go scheduler runs what is runnable, and calls to the cluster, to the file system
and to processes return. No fairness on what nobody owes: the user's interrupt,
another command, a lost connection, a process that ends by itself, a pod that
becomes ready. Details that differ: in `UpSession` the loop's wait for the command
(`loop = "wait"`) may last for ever; in `BuildkitForward` a context cancellation may
never come and an established forward may live for ever; in `Supervisor` a process
that was sent a signal by `stop` ends; in `PidFile` only a command that was told to
leave is obliged to; in `WaitCommands` the polling and the streaming end because
the code gives them a time-out; in `StackDeploy` a deployment may wait for a
dependency until its time-out, which `--wait` and `depends_on` have. Strong fairness is
assumed once: a polling goroutine of `WaitCommands` leaves its loop (`SF` of a step of
`Waiter` to another place than "poll"), because its time-out ends a loop that would
otherwise turn for ever. The models that are joined have their fairness in the module
that joins them (`MCSupervisor`, `MCBuild`, `MCDeployments`, `MCTunnels`), for the part
that runs. `DevEnvironment`, `DevMode`, `Contexts`, `Divert` and the rules
state safety only.

## 4. Proofs

Each proof follows one argument: an inductive invariant, the lemmas that `Init`
implies it and that every action preserves it (one lemma per group of actions, one
case per action), the temporal theorem, and a corollary per property. The inductive
invariants were checked by TLC on the bounds above before they were proved. A leaf
that names `SMTT` or `ZenonT` is slow, and is given the time it takes on a loaded machine.

* `Forwards_proofs` (assumption: positive bounds on forwards, builds and starts). For
  `BuildkitForward` the safety properties are not inductive: `NoOrphanForward` needs that
  a running forward is the current one, which needs that attempts not yet made have fresh
  channels; `CancelNeverClosesTwice` needs that the connector is inactive while
  `Start` runs. `Support` states these facts. Theorems: `TypeCorrect`,
  `ErrorsAreBound`, `ActiveIsOpen`, `NothingOrphaned`, `CloseOnce`, `RunIsClean`, and
  `ForwardsStaySound`, which is `ForwardsAreSound` of the run. For `K8sForward`, until an
  interrupt every forward is the active one or was told to stop (`BeforeInterrupt`), and
  since then those it met were, or are about to be (`SinceInterrupt`). Theorems: `ForwardTypes`,
  `NoForwardLeaks`.
* `Supervisor_proofs` (assumption: `Synced` is a subset of `Processes`, the
  limit is a positive natural; `Processes` is any set; a missing and an empty pid file are
  no pids). `Support` ties the state of a process to the goroutine responsible for it:
  started processes have a watcher, a process to be verified has no child left unless the
  kill before its start missed it, a stopped one does not run. Theorems: `SupervisorTypes`, `OneInstance`, `RestartsAreBounded`,
  `EndsAreNoticed`, `NothingRunsAfterStop`, and `ProcessesStaySound`, which is
  `ProcessesAreSound` of the run. `HandOverIsSafe`, for any number of commands on one pid
  file: the file holds what its last writer wrote (`FileIsWriters`) and it is empty only
  between two steps of a command (`EmptyIsUnfinished`), and a notifier starts when its
  command has set everything up (`NotifierFollows`). `ForwarderIsSafe`, for any number of
  connections to the SSH agent: `Sound` says of a connection what its copies, its
  sides and its bytes can be, given where its handler is.
* `UpSession_proofs` (assumption: a positive bound on the activations). That earlier
  forwarders are closed is not inductive: the deferred shutdown stops the forwarder
  that the field holds, so an open forwarder must be the one in the field, and the
  loop must leave `activate` with its context cancelled (`ExitProtocol` and the parts
  of `IInv` beside it). Theorem: `SessionsAreSound`, for any number of activations.
* `DevEnvironment_proofs` (assumption: deploys and destroys are disjoint sets of any
  size, and the constant that stands for a missing map is none of the commands and
  maps). `Told` says what the map holds at every place of the command that wrote it last; it needs
  `Calls`, which call a command is in, what it may still write and whether its object
  is current. Theorems: `StatusesMatch`, `NothingLeft`, and the action properties
  `NeverResurrected` and `LocksAreHonoured`. The run has one deploy and one destroy, the
  theorems any number.
* `Tunnels_proofs` (assumptions: each forward is by label or not, positive bounds and
  periods; the manifest's ports are any sets). `ForwardsSoFar` and `ReversesSoFar` say
  what the marks of earlier turns mean; `CacheIsFirst` in which order the cache of a
  side, its events and its scans change, `CounterIsReset` who has reset the shared
  counter; both hold for whatever an earlier activation left in the cache and the counter
  (the run has a first activation and one after a complete wait). Theorems:
  `PortsStayServed`, `SyncIsTruthful`, for the limits of the code
  (360, 50, 40) as for any others.
* `Build_proofs` (assumptions: finitely many services, the three strategies, any number
  of statuses). `SolveIsTruthful` rests on what each display and goroutine has yet to
  report. `StrategiesImplementCheck` is the refinement: `RefInv` is inductive
  (`RefStart`, `RefStep`), an initial state maps to an initial state (`StartRefines`),
  and every step to `Ask`, `Decide`, `Report` or a stutter (`StepRefines`, with a lemma
  per group of actions). The parallel strategy needs that a goroutine counts only
  closed channels; the sequential one the order of the list, that its two lists stay
  apart, and that the dependents of an image to build are added before the loop goes
  on. `PlansAreSound` carries the invariant of the interface through the mapping.
  `BuildsAlwaysFollow` needs `BuildIInv`: the list of what is to be built names a service
  once (`ListsAreSets`) and after all that it is built from, or after one of these with
  the sequential strategy (`ListIsOrdered`); the images built are the first of the
  list. The hashes of `RepoHash` are functions, so their theorems speak of any two calls:
  `EqualHashesMeanEqualFiles`, `UnknownIsAlwaysBuilt` and `CommitsAreOnDisk` hold for any
  files and contents, any state of git and any part of its answers that is late. They rest
  on `HashIsTold` (a hash without a random part was told all of it) and
  `PartsAreTheContent`. Their hypotheses are that the two processes start at different
  moments, of which their random parts are made, and that neither has the service in its
  own cache yet; `HashIsBlind` names what the rules of an ignore file hide (section 5).
* `Deployments_proofs` (assumptions: the commands are among the six; finitely many names,
  "none" not one of them; the dependencies of a scenario are its services, and one whose
  completion is waited for is a job; a bound on restarts).
  `WaitsAreTruthful`: an answer without an error stands on what the polling goroutine
  read (`AnswersAreTrue`), and who closes which channel when (`ClosedLast`). `StackInvariance`: a job among the deployed services was created by this
  command (`JobsAreNew`), so that one that was seen to succeed is the one that was asked
  for (`NextIsReady`, `DeployedInOrder`); services stand until the clean-up
  (`ServicesStand`), workloads of another kind are met only there (`OtherKindsStay`), and
  success is the last thing that the goroutine says (`StackPhases`). From it
  `ComposeIsTruthful` and the action property `ForeignWorkloadsAlwaysStay`, for any
  compose file over any objects of the cluster.
* `Commands_proofs` (assumptions: at least one environment and one retry; what a context
  command is asked for is one of its requests, and the namespaces include the user's own).
  `DevModeIsAlwaysUndone` and the action property `UserAppsAlwaysStay`: an
  application, and every copy of it that a command read and will write, knows the
  replicas of the user (`AppsAreSane`, with the lemmas `OffIs` and `TranslationIs`
  about `DevModeOff` and `translate`); a clone is made before and removed after its
  application is switched; `DownSoFar` and `UpSoFar` say what each place of a command
  has behind it. No bound on commands, cuts and changes.
  `DivertsAlwaysHold`: with istio, what was read is what is there or an older version
  (`VsReads`, `HostReads`), and each failed try is an update of another since the
  command began (`VsTries`). With nginx, `OwnServicesAreDiverted` speaks of the moment
  when all commands are over; `DivertIsDue` says of every moment that a service of the
  user has its divert resource, or some command has not seen it, or some command has
  yet to come to it. `CacheIsOld` says what a list is still worth once the cluster
  moves on. For any number of environments, services and retries.
  `ContextsAreAlwaysWhole`: the current context is known, tokens stay with their cluster,
  the file is empty only while a command writes it or after it was killed at that.
  `CommandIsSound` says of each command what its own copy may hold at every place of it,
  among others that a token is of the cluster it was given by; `WriterIsEntitled` ties the
  file to the command that wrote it last. For any number of commands, kills, retries and
  namespaces.

The bounds `MaxForwards`, `MaxBuilds`, `MaxStarts`, `MaxActivations`, `MaxKills`,
`MaxRestarts` and those of `DevMode` and `Divert` are arbitrary in the theorems, so they
hold for behaviours of any length.

Only model-checked:

* every liveness property: TLAPS does not reason about fairness;
* the rules, but for the hashes: they are results of folds and filters over sequences, and
  what these keep for every input needs induction over the sequence.

Every safety property that a run checks of a concurrent model has its theorem.

## 5. Where the code and its comments, tests or intentions differ

One is the subject of a run that must fail:

* `up_session_interrupt`: up.go:708 promises a shutdown within a bounded time. CTRL+C
  after `activate` has announced its own shutdown finds the channel full and no
  reader; the main goroutine blocks at `cmd/up/up.go:746`.

The others are in the models as the code has them; the properties state the
condition that excludes them.

*Concurrent parts.* A late failure of a buildkit forward clears the pod and closes the
`stopChan` of a newer attempt (portforward.go:349, against the comment at 317). A
goroutine left by an early failure releases the next activation's wait, and that
activation's own goroutine kills the syncthing just started (`cmd/up/syncthing.go:40`,
49; `pkg/syncthing/syncthing.go:891`). `activate` waits for ever at `cmd/up/activate.go:296`
when `syncthing.New` has failed, because the goroutine then returns without sending
(syncthing.go:35); and `activateLoop` waits for ever at up.go:559 when `activate` failed
before it registered its shutdown (activate.go:61) and the loop tries again because the
token could not be updated (up.go:594). The pid file a command recreates after a
removal has no watch (pid.go:92, against 138). Two processes giving up in one round block
on `m.err`, and signals are not handled any more (monitor.go:104, 122). A process is
started beside a child of the one before when `killAllByName` could not end it, which is
only logged (process.go:165, 193). Nothing is ever
put into `activeServices`, so `Stop` leaves service forwards (`pkg/k8s/forward/manager.go:175`,
against 170), and a forward that the connection loop starts while the interrupt's `Stop`
runs, or after it, is left without a stop signal: `p.activeDev` is read, and set to nil
later (`pkg/k8s/forward/manager.go:141`, 172, 180). A healthy local side resets the count of the remote side's errors
(`pkg/syncthing/syncthing.go:583`, against monitor.go:48). The cached status of a side is
never emptied (syncthing.go:46-52, 634): after a reconnection an `idle` of the earlier
activation ends the wait for the scan of every folder that has not changed its state since,
so that `FirstFolderScanned` holds only of a side whose cache was not `idle` from the start.
A global forward that is added before one that fails counts as added and is never
started (forwards.go:206-212, 263). With the sequential strategy,
dependents of an uncached image are built before other dependencies of theirs
(sequential.go:133; the parallel one keeps the order). `RunDeploy` leaves the proxy's
kubeconfig when `divert.New` fails.

*Development mode.* `okteto down` after an `up` that was cut between the clone and the application
finds no development mode and leaves the clone (`cmd/down.go:138`); the automatic down of an autocreated container
deletes it; finding a statefulset among clones only panics (statefulsets/crud.go:148); the secret names
ignore files that the pod does not mount (secrets/crud.go:90, translate.go:678); an
affinity is changed in place (translate.go:704); `readOnlyRootFilesystem` is dropped
(translate.go:511). The error of the last try to write the shared virtual service is
that of an inner scope: after as many conflicts as retries the command goes on as if it
had been written (istio/divert.go:93, 142). `deleteOrphanDiverts` takes the services
listed at the start, so the divert resource of a service that another command deployed
meanwhile is deleted (nginx/divert.go:202); writing the header into an ingress without
annotations panics. In hybrid mode `envFrom` wins over `env`, which is the opposite of
Kubernetes, and `-e =x` is accepted.

*Builds.* `GetDiff` compares with the index (local_git.go:437, git.go:574), and a file
that was staged and reverted is missed. In a project that is a directory of its repository, a
rule of `.dockerignore` for the directory's own name hides every change on disk from the hash
(local_git.go:490, 509). Secrets are hashed in the order of a Go map.
Context defaults and `--build-arg` are merged by the larger text (pkg/cmd/build/build.go:338).
The copies of several tags are looked up as one name (image_cache.go:55). Secret keys differ
in case (command.go:257, opt.go:379). A registry with a port gets no shared copy
(tagger.go:28) and is taken for docker.io. `IsGlobalRegistry` does not know the default
namespace. A cache mount that is a prefix of an earlier one keeps no id
(translator.go). The translated Dockerfile and its ignore file are left when a later
step fails. The in-cluster connector's `Stop` does nothing though its comment says
that it forgets the pod, and the reason of its metrics is never reset.

*Platform and remote execution.* A preview's last fallback alone translates its errors
(preview.go); a license error is never recognized (auth.go:98); `context delete` loses
the scheme (delete.go:36); `kubetoken` prefers the store to the variable. A Kubernetes
context that belongs to an Okteto cluster, by its host or by the annotation of its
namespace, is replaced by the URL of the cluster, while the namespace that was stored with
the Kubernetes context is kept (`cmd/context/create.go:110`, `options.go:69`); a namespace
with Okteto's label and without the annotation makes an Okteto context with an empty name
(`pkg/okteto/context.go:225`). Quoting is
changed in place (remote.go:690); the supervisor's copy dereferences nil when a file
cannot be opened (copy.go:25); the directory of variables stays when helm fails
(test.go:60); `okteto test` with a name and a manifest without tests succeeds.

## 6. What the models leave out

* Data: file names, ports, images, messages and timings, beyond what a rule is
  about. A timeout is a step that may happen; the length of a tick is not modelled.
* `UpSession` takes the start-up of syncthing and of the forwards as steps that
  succeed or fail, and a lost connection as something that may happen while the
  loop waits; `SyncDriver`, `ForwardSetup` and `K8sForward` model those parts by
  themselves. The local process of hybrid mode is left out.
* Syncthing is taken to answer a question about the changes of one folder with that folder's
  (the `folder` parameter of `GetSyncthingStatus`), and to have scanned once what it
  calls idle. The ports of Syncthing itself are not among those of `ForwardSetup`.
* `K8sForward` has one service, which stands for each of them because they share
  nothing.
* Three behaviours are in the models without a property of their own: the panic
  of `Process.monitor` when `stop` cleared `p.cmd` first (process.go:130), a
  `Start` that reads a channel set to nil or misses an error stored after the
  channel was closed (`pkg/k8s/forward/manager.go:148-162`), and the panic of a `Stop`
  whose channel the other one has closed since its check (line 61).
* Hazards that are not in `PROJECT.json` because another entry stands for the same
  mechanism: a failing clone beside running goroutines (parallel.go:118, see 85), the
  result of an old command sent to the current activation (activate.go:216, see syncthing.go:40),
  a second error for a channel of one (buildkit.go:78, see 162), secrets hashed in map
  order (hasher.go:151, see 106), a failure before the shutdown is registered
  (activate.go:61, see syncthing.go:40), the wait for services that are not deployed yet
  (stack/deploy.go:386, see 555), the retries of a divert (istio/divert.go:160, see 152).

### Not modelled
* **Log, displayer, analytics, insights, doctor**: output only.
* **Compose**: the list of unsupported fields (warnings only), the expansion of
  variables in the YAML text, ingresses and annotations (copies).
* **Manifest**: affinities and quantities are conversions of Kubernetes' libraries;
  writing a manifest is used by no command.
* **Pods**: tolerations, service account, priority class and node selector are copied.
* **API**: HTTP transports, and copies of answers into other types.
* **SSH server**: the ssh and sftp protocols are libraries. **Syncthing**: its download
  and its configuration file.
* **Command lines**: flags, help, questions to the user (`cmd/**` constructors of cobra
  commands), external commands such as `kubectl`, and the installation of binaries.
* Generated code, schemas, charts and samples carry no logic.

## 7. Plan

1. Proofs: what is left needs induction over sequences (the rules that fold lists of
   services, ports or environment variables), and can be had for one element at a time.
2. Compositions: `UpSession` over `PidFile` (two sessions, one file) and over
   `K8sForward`; one abstract connector for the three of buildkit.
3. Rules: ingresses and endpoints of compose, the request rewriting of the proxy
   with every kind of workload.
