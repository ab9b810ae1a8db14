---------------------------- MODULE StackDeploy -----------------------------
(***************************************************************************)
(* The deployment of a compose file (pkg/cmd/stack): the services that are *)
(* asked for, the goroutine that creates the objects of every service in   *)
(* the order of depends_on, the clean-up of what left the compose file,    *)
(* the wait for the pods, and the main goroutine that writes the status in *)
(* the config map and listens to CTRL+C.  The cluster runs at the same     *)
(* time: pods start, become ready, restart, succeed and fail.              *)
(***************************************************************************)
EXTENDS Naturals, FiniteSets

CONSTANTS
  Names,       \* the names of services, in the compose file or left in the cluster
  Scenarios,   \* the compose files, requests and clusters to start from
  MaxRestarts  \* bound on the restarts of a pod

Kinds == {"deployment", "statefulset", "job"}
\* The label of an object: no object, no label, this compose, another one, and
\* "okteto", the label that old versions of the CLI wrote.
Owners == {"absent", "unlabelled", "this", "other", "okteto"}

\* A compose file that the command has read: the services it depends on are in it,
\* and only a job can be waited for until it is completed (stack.go:600).
IsScenario(x) ==
  LET services == DOMAIN x.kind IN
  /\ services \subseteq Names /\ x.kind \in [services -> Kinds]
  /\ \A s \in services : DOMAIN x.dependsOn[s] \subseteq services
  /\ \A s \in services : \A d \in DOMAIN x.dependsOn[s] :
       x.dependsOn[s][d] = "completed" => x.kind[d] = "job"
  /\ x.requested \subseteq Names /\ x.ports \subseteq Names
  /\ x.wait \in BOOLEAN /\ x.inside \in BOOLEAN /\ x.gateway \in BOOLEAN
  /\ x.obj \in [Names -> [Kinds -> Owners]] /\ x.svc \in [Names -> Owners]
  /\ x.ends \in [{"ingress", "httproute"} -> SUBSET Names]

ASSUME NamesAssumption == IsFiniteSet(Names) /\ "none" \notin Names
ASSUME ScenariosAssumption == \A x \in Scenarios : IsScenario(x)
ASSUME RestartsAssumption == MaxRestarts \in Nat

VARIABLES
  scen,      \* the compose file and the request (see the fields below)
  toDeploy,  \* options.ServicesToDeploy
  stackMain,      \* the main goroutine: deployCompose and the select of deploy
  go,        \* the goroutine of deploy
  deployed,  \* deployedSvcs
  cur,       \* the service the loop is about to deploy, or "none"
  firstSeen, \* restartsPerSvc: the restarts a pod had at the first look
  status,    \* the status in the config map
  result,    \* what the command returns
  stackExit,      \* the channel from the goroutine to the select
  interrupt, \* CTRL+C was pressed
  obj,       \* obj[s][k]: the stack label of the workload of kind k called s
  svc,       \* svc[s]: the stack label of the Kubernetes service called s
  ends,      \* the endpoints of each type that carry the label of this compose
  pod,       \* the state of the pod of s
  fresh,     \* the pod of s comes from what this command deployed
  restarts,  \* its restarts
  counted    \* the services whose pods the last poll of the wait counted

progVars == <<toDeploy, stackMain, go, deployed, cur, firstSeen, status, result, stackExit, counted>>
clusterVars == <<obj, svc, ends, pod, fresh, restarts>>
stackVars == <<scen, progVars, interrupt, clusterVars>>

PodStates == {"none", "starting", "ready", "unready", "succeeded", "failed"}

Stack == DOMAIN scen.kind
\* DependsOn(s)[d] is the condition of s on d.
DependsOn(s) == scen.dependsOn[s]
Kind(s) == scen.kind[s]

-----------------------------------------------------------------------------
\* What the loop reads of the cluster.

IsFailed(s) == obj[s]["job"] # "absent" /\ pod[s] = "failed"
IsSucceeded(s) == obj[s]["job"] # "absent" /\ pod[s] = "succeeded"

\* A deployment or a statefulset is running with a ready replica, a job as soon
\* as it has an active pod.  The label of the object is not looked at.
isSvcRunning(s) ==
  /\ obj[s][Kind(s)] # "absent"
  /\ IF Kind(s) = "job" THEN pod[s] \in {"starting", "ready", "unready", "succeeded"}
                        ELSE pod[s] = "ready"

isSvcReady(s, condition, portOpen) ==
  CASE condition = "running" -> isSvcRunning(s)
    [] condition = "healthy" -> isSvcRunning(s) /\ (scen.healthcheck[s] \/ portOpen)
    [] condition = "completed" -> IsSucceeded(s)

canSvcBeDeployed(s, portOpen) ==
  \A d \in DOMAIN DependsOn(s) : isSvcReady(d, DependsOn(s)[d], portOpen)

getDependingFailedJobs(s) ==
  {d \in DOMAIN DependsOn(s) : Kind(d) = "job" /\ IsFailed(d)}

\* The dependencies with a health check that is failing.
getServicesWithFailedProbes(s) ==
  {d \in DOMAIN DependsOn(s) : /\ scen.healthcheck[d]
                               /\ DependsOn(s)[d] = "healthy"
                               /\ pod[d] = "unready" \/ restarts[d] > 0}

\* restartsPerSvc after a look at the dependencies of s.
LookAtRestarts(s) ==
  [d \in Names |-> IF d \in DOMAIN DependsOn(s) /\ pod[d] # "none" /\ firstSeen[d] > MaxRestarts
                   THEN restarts[d] ELSE firstSeen[d]]
getErrorDueToRestartLimit(s) ==
  \E d \in DOMAIN DependsOn(s) :
     pod[d] # "none" /\ restarts[d] - LookAtRestarts(s)[d] >= scen.backOffLimit

-----------------------------------------------------------------------------
StackInit ==
  /\ scen \in Scenarios
  /\ toDeploy = scen.requested
  /\ stackMain = "validate" /\ go = "not started"
  /\ deployed = {} /\ cur = "none"
  /\ firstSeen = [s \in Names |-> MaxRestarts + 1]   \* more than any pod has: not looked at
  /\ status = "none" /\ result = "none" /\ stackExit = "empty"
  /\ interrupt = FALSE /\ counted = {}
  /\ obj = scen.obj /\ svc = scen.svc /\ ends = scen.ends
  /\ pod = [s \in Names |-> IF obj[s]["job"] # "absent" THEN "succeeded"
                           ELSE IF \E k \in Kinds : obj[s][k] # "absent" THEN "ready" ELSE "none"]
  /\ fresh = [s \in Names |-> FALSE]
  /\ restarts = [s \in Names |-> 0]

Return(r) == stackMain' = "done" /\ result' = r

\* One pass of the loop of addDependentServices: the dependencies of the list
\* that are not in it and do not run.
AddOnce(S) == S \cup {d \in Stack : /\ \E s \in S : d \in DOMAIN DependsOn(s)
                                     /\ ~isSvcRunning(d)}

\* addDependentServices calls itself until nothing is added.
addDependentServices(S) ==
  {d \in Stack : \A T \in SUBSET Stack : S \subseteq T /\ AddOnce(T) = T => d \in T}

\* validateServicesToDeploy.  Inside `okteto deploy` the caller has extended the
\* list the same way.
Validate ==
  /\ stackMain = "validate"
  /\ IF scen.requested \subseteq Stack
     THEN /\ toDeploy' = addDependentServices(scen.requested)
          /\ stackMain' = IF scen.inside THEN "progressing" ELSE "build"
          /\ UNCHANGED result
     ELSE Return("err") /\ UNCHANGED toDeploy
  /\ UNCHANGED <<scen, go, deployed, cur, firstSeen, status, stackExit, counted, interrupt, clusterVars>>

buildStackImages ==
  /\ stackMain = "build"
  /\ \/ stackMain' = "progressing" /\ UNCHANGED result
     \/ Return("err")
  /\ UNCHANGED <<scen, toDeploy, go, deployed, cur, firstSeen, status, stackExit, counted, interrupt, clusterVars>>

StartDeploy ==
  /\ stackMain = "progressing"
  /\ \/ status' = "progressing" /\ stackMain' = "select" /\ go' = "services" /\ UNCHANGED result
     \/ Return("err") /\ UNCHANGED <<status, go>>
  /\ UNCHANGED <<scen, toDeploy, deployed, cur, firstSeen, stackExit, counted, interrupt, clusterVars>>

\* The select of deploy: CTRL+C, or what the goroutine sent.
StackSelectStop ==
  /\ stackMain = "select" /\ interrupt
  /\ stackMain' = "final" /\ result' = "interrupted"
  /\ UNCHANGED <<scen, toDeploy, go, deployed, cur, firstSeen, status, stackExit, counted, interrupt, clusterVars>>

StackSelectExit ==
  /\ stackMain = "select" /\ stackExit # "empty"
  /\ stackMain' = "final" /\ result' = stackExit /\ stackExit' = "empty"
  /\ UNCHANGED <<scen, toDeploy, go, deployed, cur, firstSeen, status, counted, interrupt, clusterVars>>

\* The end of deployCompose: the status of the config map, whose own error
\* replaces the one of the deployment.
WriteStatus ==
  /\ stackMain = "final"
  /\ \/ /\ status' = IF result = "ok" THEN "deployed" ELSE "error"
        /\ stackMain' = "done" /\ UNCHANGED result
     \/ Return("err") /\ UNCHANGED status
  /\ UNCHANGED <<scen, toDeploy, go, deployed, cur, firstSeen, stackExit, counted, interrupt, clusterVars>>

-----------------------------------------------------------------------------
\* The goroutine of deploy.  It dies with the process.

Alive(pc) == go = pc /\ stackMain # "done"
Goto(pc) == go' = pc /\ UNCHANGED stackExit
Exit(r) == go' = "ended" /\ stackExit' = r

\* deployK8sService and the endpoint of a service, for the services with ports.
\* A service of this name that is not of this compose is skipped with a warning.
deployK8sService(owner) == IF owner \in {"absent", "this"} THEN "this" ELSE owner

\* The type of endpoints this command uses; "bad" is a gateway that is asked for
\* and not configured.
ShouldUseHTTPRoute ==
  LET named(v) == IF v = "ingress" THEN "ingress"
                  ELSE IF scen.gateway THEN "httproute" ELSE "bad"
  IN IF scen.endpointsType # "unset" THEN named(scen.endpointsType)
     ELSE IF scen.defaultType # "unset" THEN named(scen.defaultType)
     ELSE IF scen.gateway THEN "httproute" ELSE "ingress"

DeployK8sServices ==
  /\ Alive("services")
  /\ LET ported == toDeploy \cap scen.ports
         type == ShouldUseHTTPRoute
     IN \/ type = "bad" /\ Exit("err") /\ UNCHANGED <<svc, ends>>
        \/ /\ type # "bad" /\ Goto("volumes")
           /\ svc' = [s \in Names |-> IF s \in ported THEN deployK8sService(svc[s]) ELSE svc[s]]
           /\ ends' = [ends EXCEPT ![type] = @ \cup (ported \cap scen.public)]
        \/ \E s \in ported :   \* the services after s are not reached
             /\ type # "bad" /\ Exit("err") /\ UNCHANGED ends
             /\ svc' = [svc EXCEPT ![s] = deployK8sService(@)]
  /\ UNCHANGED <<scen, toDeploy, stackMain, deployed, cur, firstSeen, status, result, counted, interrupt,
                 obj, pod, fresh, restarts>>

\* deployVolume for every volume: an error ends the goroutine, a collision is
\* skipped.
DeployVolumes ==
  /\ Alive("volumes")
  /\ Goto("tick") \/ Exit("err")
  /\ UNCHANGED <<scen, toDeploy, stackMain, deployed, cur, firstSeen, status, result, counted, interrupt, clusterVars>>

\* The select of deployServices: the ticker or, if it is as early, the timeout.
Tick ==
  /\ Alive("tick")
  /\ Goto("loop") \/ Exit("err")
  /\ UNCHANGED <<scen, toDeploy, stackMain, deployed, cur, firstSeen, status, result, counted, interrupt, clusterVars>>

DependenciesDeployed(s) == DOMAIN DependsOn(s) \subseteq deployed

\* One turn of the loop of deployServices for a service whose dependencies are
\* deployed.  There is no way to the timeout from here.
VisitService(s) ==
  /\ Alive("loop") /\ cur = "none"
  /\ s \in toDeploy \ deployed /\ DependenciesDeployed(s)
  /\ \E portOpen \in BOOLEAN :
       IF canSvcBeDeployed(s, portOpen)
       THEN cur' = s /\ Goto("loop") /\ UNCHANGED firstSeen
       ELSE /\ UNCHANGED cur
            /\ IF getDependingFailedJobs(s) # {} THEN Exit("err") /\ UNCHANGED firstSeen
               ELSE \/ /\ getServicesWithFailedProbes(s) # {}   \* a liveness probe failed
                       /\ Exit("err") /\ UNCHANGED firstSeen
                    \/ /\ firstSeen' = LookAtRestarts(s)
                       /\ IF getErrorDueToRestartLimit(s) THEN Exit("err") ELSE Goto("loop")
  /\ UNCHANGED <<scen, toDeploy, stackMain, deployed, status, result, counted, interrupt, clusterVars>>

\* Variant: the label of another compose is not looked at.
MineAny(owner) == owner # "unlabelled"

\* An object that the command may overwrite.
Mine(owner) == owner \in {"absent", "this", "okteto"}

\* Variant: an existing job is updated in place.
RecreatedButJobs(s) ==
  \/ obj[s][Kind(s)] = "absent"
  \/ Kind(s) = "deployment" /\ obj[s][Kind(s)] = "okteto"

\* deployJob destroys and creates an existing job, deployDeployment one that
\* carries the old label; otherwise the running pods stay until the controller
\* replaces them.
Recreated(s) ==
  \/ Kind(s) = "job" \/ obj[s][Kind(s)] = "absent"
  \/ Kind(s) = "deployment" /\ obj[s][Kind(s)] = "okteto"

Apply(s) ==
  /\ obj' = [obj EXCEPT ![s][Kind(s)] = "this"]
  /\ IF Recreated(s)
     THEN /\ pod' = [pod EXCEPT ![s] = "starting"]
          /\ fresh' = [fresh EXCEPT ![s] = TRUE]
          /\ restarts' = [restarts EXCEPT ![s] = 0]
     ELSE UNCHANGED <<pod, fresh, restarts>>

\* deploySvc: an object of somebody else is skipped with a warning, and the
\* service counts as deployed.
deploySvc(s) ==
  /\ Alive("loop") /\ cur = s
  /\ cur' = "none"
  /\ \/ /\ deployed' = deployed \cup {s} /\ Goto("loop")
        /\ IF Mine(obj[s][Kind(s)]) THEN Apply(s) ELSE UNCHANGED <<obj, pod, fresh, restarts>>
     \/ Exit("err") /\ UNCHANGED <<deployed, obj, pod, fresh, restarts>>
     \/ /\ \/ obj[s][Kind(s)] = "okteto" /\ Kind(s) # "statefulset"
           \/ obj[s][Kind(s)] = "this" /\ Kind(s) # "deployment"
        /\ Exit("err")   \* destroyed to be replaced, and not created again
        /\ obj' = [obj EXCEPT ![s][Kind(s)] = "absent"]
        /\ pod' = [pod EXCEPT ![s] = "none"] /\ UNCHANGED <<deployed, fresh, restarts>>
  /\ UNCHANGED <<scen, toDeploy, stackMain, firstSeen, status, result, counted, interrupt, svc, ends>>

\* Variant: the loop waits for every service of the compose file.
LoopEndsAll ==
  /\ Alive("loop") /\ cur = "none" /\ deployed = Stack
  /\ Goto("destroy") \/ Exit("err")
  /\ UNCHANGED <<scen, toDeploy, stackMain, deployed, cur, firstSeen, status, result, counted, interrupt, clusterVars>>

\* len(deployedSvcs) = len(options.ServicesToDeploy); then the endpoints of the
\* compose file, which are created as the ones of the services were.
LoopEnds ==
  /\ Alive("loop") /\ cur = "none" /\ deployed = toDeploy
  /\ Goto("destroy") \/ Exit("err")
  /\ UNCHANGED <<scen, toDeploy, stackMain, deployed, cur, firstSeen, status, result, counted, interrupt, clusterVars>>

\* The workloads of this compose that the compose file does not have any more,
\* or has as another kind.
Leftover(k) == {s \in Names : obj[s][k] = "this" /\ ~(s \in Stack /\ Kind(s) = k)}
Leftovers == UNION {Leftover(k) : k \in Kinds}

\* destroyDeployments, destroyStatefulsets and destroyJobs: with the workload
\* goes the Kubernetes service of its name, whoever it belongs to.
DestroyWorkloads(S) ==
  /\ obj' = [s \in Names |-> [k \in Kinds |-> IF s \in S /\ s \in Leftover(k) THEN "absent" ELSE obj[s][k]]]
  /\ svc' = [s \in Names |-> IF s \in S THEN "absent" ELSE svc[s]]
  /\ pod' = [s \in Names |-> IF s \in S /\ ~(s \in Stack /\ obj[s][Kind(s)] # "absent")
                             THEN "none" ELSE pod[s]]
  /\ UNCHANGED <<fresh, restarts>>

\* destroyIngresses and destroyHTTPRoutes: every endpoint of the type that is
\* not used, and of the other those of no public service.
DestroyEndpoints ==
  LET type == ShouldUseHTTPRoute
  IN ends' = [t \in {"ingress", "httproute"} |->
                IF t # type THEN {} ELSE ends[t] \cap (Stack \cap scen.ports \cap scen.public)]

destroyServicesNotInStack ==
  /\ Alive("destroy")
  /\ \/ /\ DestroyWorkloads(Leftovers) /\ DestroyEndpoints
        /\ IF scen.wait THEN Goto("wait") ELSE Exit("ok")
     \/ \E S \in SUBSET Leftovers : DestroyWorkloads(S) /\ UNCHANGED ends /\ Exit("err")
  /\ UNCHANGED <<scen, toDeploy, stackMain, deployed, cur, firstSeen, status, result, counted, interrupt>>

\* Pods that carry the label of this compose.
StackPods == {s \in Names : pod[s] # "none" /\ \E k \in Kinds : obj[s][k] = "this"}
RunningPods == {s \in StackPods : pod[s] \in {"ready", "unready", "succeeded"}}

\* A poll of waitForPodsToBeRunning: as many running pods of the compose as
\* services were asked for.
waitForPodsToBeRunning ==
  /\ Alive("wait")
  /\ counted' = RunningPods
  /\ \/ (\E s \in StackPods : pod[s] = "failed") /\ Exit("err")
     \/ /\ \A s \in StackPods : pod[s] # "failed"
        /\ Cardinality(RunningPods) = Cardinality(toDeploy) /\ Exit("ok")
     \/ Exit("err")   \* a failed call, or the end of the 600 seconds
  /\ UNCHANGED <<scen, toDeploy, stackMain, deployed, cur, firstSeen, status, result, interrupt, clusterVars>>

-----------------------------------------------------------------------------
\* The cluster and the user.

HasWorkload(s) == \E k \in Kinds : obj[s][k] # "absent"
IsJobPod(s) == s \in Stack /\ Kind(s) = "job"

SetPod(s, from, to) == pod[s] \in from /\ pod' = [pod EXCEPT ![s] = to]

PodStep(s) ==
  /\ stackMain = "select" /\ HasWorkload(s)
  /\ \/ SetPod(s, {"starting"}, "ready") /\ UNCHANGED <<fresh, restarts>>
     \/ SetPod(s, {"starting", "ready"}, "unready") /\ UNCHANGED <<fresh, restarts>>
     \/ SetPod(s, {"unready"}, "ready") /\ UNCHANGED <<fresh, restarts>>
     \/ /\ IsJobPod(s) /\ SetPod(s, {"ready", "unready"}, "succeeded") /\ UNCHANGED <<fresh, restarts>>
     \/ /\ IsJobPod(s) /\ SetPod(s, {"starting", "ready", "unready"}, "failed") /\ UNCHANGED <<fresh, restarts>>
     \/ /\ restarts[s] < MaxRestarts /\ SetPod(s, {"ready", "unready"}, "starting")
        /\ restarts' = [restarts EXCEPT ![s] = @ + 1] /\ UNCHANGED fresh
     \/ /\ s \in deployed /\ ~fresh[s] /\ Mine(obj[s][Kind(s)])   \* the rollout of an update
        /\ pod' = [pod EXCEPT ![s] = "starting"] /\ fresh' = [fresh EXCEPT ![s] = TRUE]
        /\ restarts' = [restarts EXCEPT ![s] = 0]
  /\ go \in {"tick", "loop", "wait"}   \* nothing reads the pods at other times
  /\ UNCHANGED <<scen, progVars, interrupt, obj, svc, ends>>

\* Outside the select CTRL+C ends the process, or is read by nobody.
PressStackInterrupt ==
  /\ stackMain = "select" /\ ~interrupt
  /\ interrupt' = TRUE
  /\ UNCHANGED <<scen, progVars, clusterVars>>

Main == Validate \/ buildStackImages \/ StartDeploy \/ StackSelectStop \/ StackSelectExit \/ WriteStatus
Deploy ==
  \/ DeployK8sServices \/ DeployVolumes \/ Tick \/ LoopEnds
  \/ destroyServicesNotInStack \/ waitForPodsToBeRunning
Loop(s) == VisitService(s) \/ deploySvc(s)

Done == stackMain = "done" /\ UNCHANGED stackVars

StackNext ==
  \/ Main \/ Deploy \/ PressStackInterrupt \/ Done
  \/ \E s \in Stack : Loop(s) \/ PodStep(s)   \* the pods of leftovers stay as they are

StackSpec == StackInit /\ [][StackNext]_stackVars

-----------------------------------------------------------------------------
StackTypeOK ==
  /\ toDeploy \subseteq Names /\ deployed \subseteq toDeploy
  /\ stackMain \in {"validate", "build", "progressing", "select", "final", "done"}
  /\ go \in {"not started", "services", "volumes", "tick", "loop", "destroy", "wait", "ended"}
  /\ cur \in Names \cup {"none"}
  /\ firstSeen \in [Names -> 0..MaxRestarts + 1]
  /\ status \in {"none", "progressing", "deployed", "error"}
  /\ result \in {"none", "ok", "err", "interrupted"}
  /\ stackExit \in {"empty", "ok", "err"}
  /\ interrupt \in BOOLEAN
  /\ obj \in [Names -> [Kinds -> Owners]] /\ svc \in [Names -> Owners]
  /\ ends \in [{"ingress", "httproute"} -> SUBSET Names]
  /\ pod \in [Names -> PodStates] /\ fresh \in [Names -> BOOLEAN]
  /\ restarts \in [Names -> 0..MaxRestarts]
  /\ counted \subseteq Names

\* A service that waits for the completion of a job starts only after the job
\* of this very command succeeded, not the one an earlier command left: the
\* only exception is a job of somebody else, which is skipped with a warning
\* and still read (deploy.go:450, 555).
Foreign == {"unlabelled", "other"}
Completed(d) == (fresh[d] /\ pod[d] = "succeeded") \/ obj[d]["job"] \in Foreign

CompletedInThisRun ==
  \A s \in deployed : \A d \in DOMAIN DependsOn(s) : DependsOn(s)[d] = "completed" => Completed(d)

\* After a deployment that reports success every service of the request with
\* ports has a Kubernetes service, unless a workload of the same name and
\* another kind was left over: its clean-up takes the new service too
\* (destroy.go:72, 97, 121).
LostByKindChange(s) == svc[s] # "absent" \/ \E k \in Kinds \ {Kind(s)} : scen.obj[s][k] = "this"

ServiceLostOnlyByKindChange ==
  result = "ok" => \A s \in toDeploy \cap scen.ports : LostByKindChange(s)

\* With --wait success means that the pods of the request were up at the last
\* poll, or that the poll counted the pod of a service that nobody asked for
\* (deploy.go:848: the selector is the whole compose).
CountedAll == toDeploy \subseteq counted \/ counted \ toDeploy # {}

WaitCountsPods == result = "ok" /\ scen.wait => CountedAll

\* The config map says deployed only when the command returns success, and a
\* command that fails after it began never leaves it as deployed.
StatusIsTrue == stackMain = "done" => (status = "deployed" <=> result = "ok")

\* The four together: a job of an earlier command does not satisfy a dependency,
\* the Kubernetes services of a successful deployment exist, --wait has seen the
\* pods and the status in the config map agrees with the result.
ComposeTellsTheTruth ==
  /\ StackTypeOK /\ CompletedInThisRun /\ ServiceLostOnlyByKindChange
  /\ WaitCountsPods /\ StatusIsTrue

\* A workload with the label of another compose, or without one, is never
\* changed (deployDeployment, deployStatefulSet, deployJob and the clean-up).
ComposeForeignWorkloadsStay ==
  [][\A s \in Names, k \in Kinds : obj[s][k] \in Foreign => obj'[s][k] = obj[s][k]]_stackVars

\* A service that cannot be deployed now: a dependency is missing, or not ready.
Waiting(s) ==
  \/ ~DependenciesDeployed(s)
  \/ ~canSvcBeDeployed(s, FALSE)

\* A deployment that goes on for ever is at a service that waits for a
\* dependency (deploy.go:386: the timeout is not looked at in the loop).
EndsOrWaits ==
  []<>(stackMain = "done" \/ (go = "loop" /\ \E s \in toDeploy \ deployed : Waiting(s)))

-----------------------------------------------------------------------------
(* What the truth of the result rests on *)

\* The order of things: the goroutine starts after the checks of the main one, and
\* success is what the goroutine sent at its end.
Succeeds == stackExit = "ok" \/ result = "ok"
Checking == stackMain \in {"validate", "build", "progressing"}

StackPhases ==
  /\ Checking => go = "not started"
  /\ Checking \/ stackMain = "select" => result = "none"
  /\ stackMain = "final" => result # "none"
  /\ stackMain # "done" => status # "deployed"
  /\ stackExit # "empty" \/ result = "ok" => go = "ended"
  /\ go # "not started" \/ stackMain \in {"build", "progressing"} => toDeploy \subseteq Stack
  /\ go = "not started" => deployed = {} /\ cur = "none"
  /\ go = "wait" => scen.wait

\* The loop deploys in the order of depends_on.
DeployedInOrder == \A s \in deployed : DependenciesDeployed(s)

\* A job that counts as deployed was created by this command, or is somebody else's.
JobsAreNew ==
  \A d \in deployed : Kind(d) = "job" => (obj[d]["job"] = "this" /\ fresh[d]) \/ obj[d]["job"] \in Foreign

\* The service that the loop is about to deploy has its dependencies behind it.
NextIsReady ==
  cur # "none" =>
    /\ cur \in toDeploy \ deployed /\ DependenciesDeployed(cur)
    /\ \A d \in DOMAIN DependsOn(cur) : DependsOn(cur)[d] = "completed" => Completed(d)

\* The command only takes away workloads of another kind than the compose file's.
OtherKindsStay ==
  \A s \in Names, k \in Kinds :
    ~(s \in Stack /\ Kind(s) = k) => obj[s][k] \in {scen.obj[s][k], "absent"}

\* The Kubernetes services, created before the workloads, go only with leftovers.
ServicesStand ==
  /\ go \in {"volumes", "tick", "loop", "destroy"} => \A s \in toDeploy \cap scen.ports : svc[s] # "absent"
  /\ go = "wait" \/ Succeeds => \A s \in toDeploy \cap scen.ports : LostByKindChange(s)

StackIInv ==
  /\ StackTypeOK /\ IsScenario(scen) /\ StackPhases
  /\ DeployedInOrder /\ JobsAreNew /\ NextIsReady /\ CompletedInThisRun
  /\ OtherKindsStay /\ ServicesStand /\ (Succeeds /\ scen.wait => CountedAll) /\ StatusIsTrue
=============================================================================
