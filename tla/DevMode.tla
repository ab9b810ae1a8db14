------------------------------ MODULE DevMode -------------------------------
(***************************************************************************)
(* Development mode in the cluster: what `okteto up' and `okteto down' do  *)
(* to the applications of a development container (pkg/k8s/apps, the       *)
(* deployer of cmd/up, pkg/cmd/down).  The application is scaled to zero   *)
(* and remembers its replicas in an annotation, a clone of it runs the     *)
(* development container.  An application is read once and written         *)
(* without a resource version some calls later, and each call to the       *)
(* cluster may be the last of its command.                                 *)
(*                                                                         *)
(* A development container has a main application and one service.  The    *)
(* annotations that hold a whole manifest (RestoreOriginal) were written   *)
(* by versions of the past and are left out.                               *)
(***************************************************************************)
EXTENDS Integers, FiniteSets

CONSTANTS MaxUps,     \* okteto up commands and reconnections
          MaxDowns,   \* okteto down commands
          MaxCuts,    \* commands that end in the middle
          MaxChanges  \* changes of the user and of the platform

VARIABLES
  kind,     \* "app", or "autocreate" and "taken": autocreate with that name free or not
  app,      \* the applications in the cluster
  clone,    \* their clones
  secret,   \* whether the secret of the development container is there
  service,  \* whether the service of an autocreated container is there
  volume,   \* the persistent volume claim
  wanted,   \* the replicas the user set
  up,       \* the okteto up command
  down,     \* the okteto down command
  overlap,  \* an up and a down have run at the same time
  count     \* how often each bounded event happened

vars == <<kind, app, clone, secret, service, volume, wanted, up, down, overlap, count>>
cluster == <<app, clone, secret, service, volume>>

Apps == {"main", "svc"}
None == -1

-----------------------------------------------------------------------------
(* Applications and their translation.                                       *)

Application(there, auto, n, dev) ==
  [there |-> there, auto |-> auto, replicas |-> n, dev |-> dev, kept |-> None, slept |-> None, marked |-> FALSE]
NewApp(n) == Application(TRUE, FALSE, n, FALSE)
Absent == Application(FALSE, FALSE, 0, FALSE)
Sandbox == Application(FALSE, TRUE, 1, TRUE)

NoClone == [there |-> FALSE, replicas |-> 0]

getPreviousAppReplicas(a) ==
  IF a.slept # None THEN a.slept ELSE IF a.kept # None THEN a.kept ELSE a.replicas

\* Mutant: the marks stay.
DevModeOffMarked(a) ==
  [a EXCEPT !.dev = FALSE, !.replicas = getPreviousAppReplicas(a), !.kept = None]

DevModeOff(a) ==
  [a EXCEPT !.dev = FALSE, !.replicas = getPreviousAppReplicas(a), !.kept = None, !.marked = FALSE]

translate(a) ==
  LET off == DevModeOff(a)
  IN [off EXCEPT !.kept = getPreviousAppReplicas(off), !.slept = None, !.dev = TRUE,
                 !.marked = TRUE, !.replicas = 0]

\* The clone of the main application has one replica, that of a service as many as
\* the service has without development mode.
DevClone(x, a) ==
  [there |-> TRUE, replicas |-> IF x = "main" THEN 1 ELSE DevModeOff(a).replicas]

IsDevModeOn(a) == a.dev

\* GetApp for the main application; the result of an autocreated one is a sandbox.
Autocreate == kind # "app"
GetApp == IF app["main"].there THEN app["main"] ELSE Sandbox
AppFound == app["main"].there \/ Autocreate

\* App.Deploy: an update, or a creation when the application is gone.
Deploy(x, a) ==
  app' = IF ~a.there /\ a.auto THEN app ELSE [app EXCEPT ![x] = [a EXCEPT !.there = TRUE]]

-----------------------------------------------------------------------------
(* okteto up.                                                                *)

Idle == [pc |-> "idle", retry |-> FALSE, later |-> FALSE, main |-> Absent, svc |-> Absent]
IdleDown == [pc |-> "idle", checked |-> FALSE, rm |-> FALSE, main |-> Absent, svc |-> Absent, todo |-> {}]

Init ==
  /\ kind \in {"app", "autocreate", "taken"}
  /\ wanted = [x \in Apps |-> 2]
  /\ app = [x \in Apps |-> IF x = "main" /\ kind = "autocreate" THEN Absent ELSE NewApp(wanted[x])]
  /\ clone = [x \in Apps |-> NoClone]
  /\ secret = FALSE /\ service = FALSE /\ volume = "absent"
  /\ up = Idle /\ down = IdleDown /\ overlap = FALSE
  /\ count = [ups |-> 0, downs |-> 0, cuts |-> 0, changes |-> 0]

UpStep(from, to) ==
  /\ up.pc = from
  /\ up' = IF to = "running" THEN [Idle EXCEPT !.pc = to, !.later = up.later] ELSE [up EXCEPT !.pc = to]
  /\ overlap' = (overlap \/ down.pc # "idle")
  /\ UNCHANGED <<kind, wanted, down>>

\* A command starts, with OKTETO_SERVICES_UP_WAIT or without.
UpStart ==
  /\ up.pc = "idle" /\ count.ups < MaxUps
  /\ \E later \in BOOLEAN : up' = [Idle EXCEPT !.pc = "app", !.later = later]
  /\ count' = [count EXCEPT !.ups = @ + 1]
  /\ overlap' = (overlap \/ down.pc # "idle")
  /\ UNCHANGED <<kind, cluster, wanted, down>>

\* Mutant: the name is not checked.
UpGetAppAny ==
  /\ up.pc = "app"
  /\ IF ~AppFound \/ (up.retry /\ ~IsDevModeOn(GetApp))
     THEN up' = Idle
     ELSE up' = [up EXCEPT !.pc = "volume", !.main = GetApp]
  /\ overlap' = (overlap \/ down.pc # "idle")
  /\ UNCHANGED <<kind, cluster, wanted, down, count>>

\* activate reads the application.  It ends when the name is taken or, in a retry,
\* when development mode was switched off; it waits for the application (or for the
\* clone it must have) to wake up, which may time out.
UpGetApp ==
  /\ up.pc = "app"
  /\ IF \/ ~AppFound
        \/ Autocreate /\ ~GetApp.auto
        \/ up.retry /\ (IF GetApp.auto THEN ~clone["main"].there ELSE ~IsDevModeOn(GetApp))
        \/ ~GetApp.auto /\ IsDevModeOn(GetApp) /\ ~clone["main"].there
     THEN up' = Idle
     ELSE up' = [up EXCEPT !.pc = "volume", !.main = GetApp]
  /\ overlap' = (overlap \/ down.pc # "idle")
  /\ UNCHANGED <<kind, cluster, wanted, down, count>>

CreateVolume ==
  /\ UpStep("volume", "translations")
  /\ volume' = IF volume = "absent" THEN "there" ELSE volume
  /\ UNCHANGED <<app, clone, secret, service, count>>

\* GetTranslations reads the service.
GetTranslations ==
  /\ up.pc = "translations" /\ app["svc"].there
  /\ up' = [up EXCEPT !.pc = "secret", !.svc = app["svc"]]
  /\ overlap' = (overlap \/ down.pc # "idle")
  /\ UNCHANGED <<kind, cluster, wanted, down, count>>

CreateSecret ==
  /\ UpStep("secret", "mainClone")
  /\ secret' = TRUE
  /\ UNCHANGED <<app, clone, service, volume, count>>

DeployClone(x, from, to) ==
  /\ UpStep(from, to)
  /\ clone' = [clone EXCEPT ![x] = DevClone(x, up[x])]
  /\ UNCHANGED <<app, secret, service, volume, count>>

DeployApp(x, from, to) ==
  /\ UpStep(from, to)
  /\ Deploy(x, translate(up[x]))
  /\ UNCHANGED <<clone, secret, service, volume, count>>

CreateService ==
  /\ UpStep("service", "pod")
  /\ service' = (service \/ up.main.auto)
  /\ UNCHANGED <<app, clone, secret, volume, count>>

\* The pod of the clone runs on the volume.
GetRunningPod ==
  /\ clone["main"].there /\ volume = "there"
  /\ UpStep("pod", IF up.later THEN "laterClone" ELSE "running")
  /\ UNCHANGED <<cluster, count>>

\* The connection is lost: the next activation is a retry.
Reconnect ==
  /\ up.pc = "running" /\ count.ups < MaxUps
  /\ up' = [Idle EXCEPT !.pc = "app", !.retry = TRUE, !.later = up.later]
  /\ count' = [count EXCEPT !.ups = @ + 1]
  /\ UNCHANGED <<kind, cluster, wanted, down, overlap>>

\* The session ends, with an automatic down or without; the application is not
\* checked before an automatic down.
UpEnds ==
  /\ up.pc \in {"app", "running"} /\ down.pc = "idle"
  /\ up' = Idle
  /\ \/ down' = down /\ count' = count
     \/ /\ count.downs < MaxDowns
        /\ down' = [IdleDown EXCEPT !.pc = "read"]
        /\ count' = [count EXCEPT !.downs = @ + 1]
  /\ UNCHANGED <<kind, cluster, wanted, overlap>>

\* A call fails, the pod does not come up, or the process is killed.
UpCut ==
  /\ up.pc \notin {"idle", "app"} /\ count.cuts < MaxCuts
  /\ up' = Idle
  /\ count' = [count EXCEPT !.cuts = @ + 1]
  /\ UNCHANGED <<kind, cluster, wanted, down, overlap>>

Up ==
  \/ UpStart \/ UpGetApp \/ CreateVolume \/ GetTranslations \/ CreateSecret
  \/ DeployClone("main", "mainClone", "mainApp")
  \/ DeployApp("main", "mainApp", IF up.later THEN "service" ELSE "svcClone")
  \/ DeployClone("svc", "svcClone", "svcApp")
  \/ DeployApp("svc", "svcApp", "service")
  \/ CreateService \/ GetRunningPod
  \/ DeployClone("svc", "laterClone", "laterApp")
  \/ DeployApp("svc", "laterApp", "running")
  \/ Reconnect \/ UpEnds \/ UpCut

-----------------------------------------------------------------------------
(* okteto down.                                                              *)

DownStep(from, next) ==
  /\ down.pc = from /\ down' = next
  /\ overlap' = (overlap \/ up.pc # "idle")
  /\ UNCHANGED <<kind, wanted, up, count>>

\* The command, with --volumes or without, looks whether development mode is on.
DownStart ==
  /\ down.pc = "idle" /\ count.downs < MaxDowns
  /\ count' = [count EXCEPT !.downs = @ + 1]
  /\ \E rm \in BOOLEAN :
       down' = IF AppFound /\ IsDevModeOn(GetApp)
               THEN [IdleDown EXCEPT !.pc = "read", !.checked = TRUE, !.rm = rm] ELSE down
  /\ overlap' = (overlap \/ up.pc # "idle")
  /\ UNCHANGED <<kind, cluster, wanted, up>>

\* Down reads the applications; an autocreated one is always a sandbox.
DownRead ==
  /\ app["svc"].there
  /\ DownStep("read", [down EXCEPT !.pc = "run", !.todo = Apps, !.svc = app["svc"],
                                   !.main = IF Autocreate THEN Sandbox ELSE GetApp])
  /\ UNCHANGED cluster

\* Each translation: the sandbox and its service are removed, or the application is
\* restored.
DownApp(x) ==
  /\ down.pc = "run" /\ x \in down.todo
  /\ DownStep("run", [down EXCEPT !.pc = x])
  /\ \/ /\ down.main.auto
        /\ app' = [y \in Apps |-> CASE y = "main" -> Absent
                                    [] y = "svc" -> IF x = "svc" THEN DevModeOff(down.svc) ELSE app["svc"]]
        /\ service' = FALSE
     \/ ~down.main.auto /\ Deploy(x, DevModeOff(down[x])) /\ UNCHANGED service
  /\ UNCHANGED <<clone, secret, volume>>

DownClone(x) ==
  /\ down.pc = x
  /\ DownStep(x, [down EXCEPT !.pc = "run", !.todo = @ \ {x}])
  /\ clone' = [clone EXCEPT ![x] = NoClone]
  /\ UNCHANGED <<app, secret, service, volume>>

DownSecret ==
  /\ down.todo = {}
  /\ DownStep("run", [IdleDown EXCEPT !.pc = IF down.rm THEN "volume" ELSE "done", !.rm = down.rm])
  /\ secret' = FALSE
  /\ UNCHANGED <<app, clone, service, volume>>

\* volumes.Destroy deletes the claim until it is gone.
DownVolume ==
  /\ DownStep("volume", [down EXCEPT !.pc = IF volume = "absent" THEN "done" ELSE "volume"])
  /\ volume' = IF volume = "absent" THEN "absent" ELSE "terminating"
  /\ UNCHANGED <<app, clone, secret, service>>

DownEnds == DownStep("done", IdleDown) /\ UNCHANGED cluster

DownCut ==
  /\ down.pc \notin {"idle", "done"} /\ count.cuts < MaxCuts
  /\ down' = IdleDown
  /\ count' = [count EXCEPT !.cuts = @ + 1]
  /\ UNCHANGED <<kind, cluster, wanted, up, overlap>>

Down ==
  \/ DownStart \/ DownRead \/ DownSecret \/ DownVolume \/ DownEnds \/ DownCut
  \/ \E x \in Apps : DownApp(x) \/ DownClone(x)

-----------------------------------------------------------------------------
(* The cluster and the user.                                                 *)

\* A claim that is deleted goes when no pod uses it.
VolumeGoes ==
  /\ volume = "terminating" /\ \A x \in Apps : ~clone[x].there
  /\ volume' = "absent"
  /\ UNCHANGED <<kind, app, clone, secret, service, wanted, up, down, overlap, count>>

Quiet == up.pc = "idle" /\ down.pc = "idle"

\* The user changes an application that nobody works on.
Scale(x) ==
  /\ Quiet /\ count.changes < MaxChanges
  /\ app[x].there /\ ~app[x].dev /\ app[x].slept = None
  /\ wanted' = [wanted EXCEPT ![x] = 3]
  /\ app' = [app EXCEPT ![x].replicas = 3]
  /\ count' = [count EXCEPT !.changes = @ + 1]
  /\ UNCHANGED <<kind, clone, secret, service, volume, up, down, overlap>>

\* The user deploys an application again, also in development mode: its labels and
\* annotations stay.
Redeploy(x) ==
  /\ app[x].there /\ app[x].dev /\ count.changes < MaxChanges
  /\ app' = [app EXCEPT ![x].replicas = wanted[x]]
  /\ count' = [count EXCEPT !.changes = @ + 1]
  /\ UNCHANGED <<kind, clone, secret, service, volume, wanted, up, down, overlap>>

\* The platform puts an application outside development mode to sleep.
Sleep(x) ==
  /\ count.changes < MaxChanges
  /\ app[x].there /\ ~app[x].dev /\ app[x].slept = None /\ Quiet
  /\ app' = [app EXCEPT ![x].slept = app[x].replicas, ![x].replicas = 0]
  /\ count' = [count EXCEPT !.changes = @ + 1]
  /\ UNCHANGED <<kind, clone, secret, service, volume, wanted, up, down, overlap>>

Next == Up \/ Down \/ VolumeGoes \/ \E x \in Apps : Scale(x) \/ Redeploy(x) \/ Sleep(x)

Spec == Init /\ [][Next]_vars

-----------------------------------------------------------------------------
(* Properties.                                                               *)

AppType == [there : BOOLEAN, auto : BOOLEAN, replicas : 0..3, dev : BOOLEAN, kept : None..3,
            slept : None..3, marked : BOOLEAN]

TypeOK ==
  /\ app \in [Apps -> AppType] /\ clone \in [Apps -> [there : BOOLEAN, replicas : 0..3]]
  /\ volume \in {"absent", "there", "terminating"}
  /\ up.main \in AppType /\ up.svc \in AppType /\ down.main \in AppType /\ down.svc \in AppType

\* Translation.translate, DevModeOff: an application in development mode remembers
\* the replicas the user set, however often it was activated, put to sleep or
\* deployed, and whatever was cut.
ReplicasAreRemembered ==
  \A x \in Apps : app[x].there /\ app[x].dev => app[x].kept = wanted[x]

\* Operation.Run: a down nothing runs against leaves the applications with the
\* replicas of the user (awake), and no clone, secret or service.
DownRestores ==
  down.pc = "done" /\ ~overlap =>
    /\ \A x \in Apps : ~clone[x].there
    /\ \A x \in Apps : app[x].there => ~app[x].dev /\ ~app[x].marked /\ app[x].replicas = wanted[x]
    /\ ~secret /\ ~service
    /\ down.rm => volume = "absent"

\* devDeployer.deploy, Operation.Run: the clone of an application that is not in
\* development mode is left behind only by a command that was cut or that ran
\* against another; okteto down does not see it.
ClonesAreSeen ==
  Quiet /\ count.cuts = 0 /\ ~overlap =>
    \A x \in Apps : clone[x].there => app[x].dev \/ (x = "main" /\ Autocreate /\ ~app[x].there)

\* Operation.Run: an application in development mode has its clone, unless an up and a
\* down ran against each other; without one it has no pod at all and the next up fails.
DevModeHasItsClone ==
  ~overlap => \A x \in Apps : app[x].there /\ app[x].dev /\ down.pc = "idle" => clone[x].there

\* createDevContainer: when the container runs, the application has no pods beside it,
\* unless it was deployed again.
OneOfTheTwoRuns ==
  up.pc = "running" /\ ~overlap /\ count.changes = 0 =>
    /\ secret /\ volume = "there"
    /\ \A x \in Apps : /\ clone[x].there
                       /\ app[x].there => app[x].dev /\ app[x].replicas = 0

\* Whatever is cut off or repeated, `okteto down' finds and undoes what `okteto up'
\* did: the replicas are remembered, a clone is seen, an application in development
\* mode has its clone and one of the two runs.
DevModeIsUndone ==
  TypeOK /\ ReplicasAreRemembered /\ DownRestores /\ ClonesAreSeen /\ DevModeHasItsClone /\ OneOfTheTwoRuns

\* activate, autoDownRunner.run: no command deletes an application of the user, except
\* an automatic down before the activation found that the name is taken.
UserAppsStay ==
  [][\A x \in Apps : app[x].there /\ ~app'[x].there =>
       x = "main" /\ kind = "taken" /\ ~down.checked]_vars

-----------------------------------------------------------------------------
(* Why they hold.                                                            *)

UpPlaces == {"idle", "app", "volume", "translations", "secret", "mainClone", "mainApp", "svcClone",
             "svcApp", "service", "pod", "laterClone", "laterApp", "running"}

ClusterTypes ==
  /\ kind \in {"app", "autocreate", "taken"} /\ wanted \in [Apps -> {2, 3}]
  /\ app \in [Apps -> AppType] /\ clone \in [Apps -> [there : BOOLEAN, replicas : 0..3]]
  /\ volume \in {"absent", "there", "terminating"}
  /\ secret \in BOOLEAN /\ service \in BOOLEAN /\ overlap \in BOOLEAN

UpType == [pc : UpPlaces, retry : BOOLEAN, later : BOOLEAN, main : AppType, svc : AppType]
DownType == [pc : {"idle", "read", "run", "main", "svc", "volume", "done"}, checked : BOOLEAN,
             rm : BOOLEAN, main : AppType, svc : AppType, todo : SUBSET Apps]
CountType == [ups : Nat, downs : Nat, cuts : Nat, changes : Nat]

CommandTypes == up \in UpType /\ down \in DownType /\ count \in CountType

\* An application, or what a command has read of it: it knows the replicas of the user.
IsSane(a, n) ==
  a.there =>
    /\ ~a.auto /\ a.marked = a.dev
    /\ IF a.dev THEN a.slept = None /\ a.kept = n
       ELSE a.kept = None /\ (IF a.slept # None THEN a.slept ELSE a.replicas) = n

AppsAreSane ==
  /\ \A x \in Apps : IsSane(app[x], wanted[x])
  /\ IsSane(up.main, wanted["main"]) /\ IsSane(up.svc, wanted["svc"])
  /\ IsSane(down.main, wanted["main"]) /\ IsSane(down.svc, wanted["svc"])

\* What a command holds at each place, and what it never deletes.
CommandsHold ==
  /\ up.pc = "idle" => ~up.main.there /\ ~up.svc.there
  /\ down.pc = "idle" => ~down.main.there /\ ~down.svc.there
  /\ up.pc \notin {"idle", "app", "running"} => up.main.there \/ up.main.auto
  /\ up.pc \notin {"idle", "app", "volume", "translations", "running"} => up.svc.there
  /\ down.pc \in {"run", "main", "svc"} => down.svc.there /\ (down.main.there \/ down.main.auto)
  /\ app["svc"].there
  /\ ~overlap => up.pc = "idle" \/ down.pc = "idle"

\* A sandbox stands for an application that is not there, and stays away.
KindsHold ==
  /\ IF kind = "app" THEN app["main"].there /\ ~up.main.auto /\ ~down.main.auto
     ELSE ~up.main.there /\ ~down.main.there /\ ~(app["main"].there /\ app["main"].dev)
  /\ kind = "autocreate" => ~app["main"].there
  /\ up.main.auto => ~app["main"].there
  /\ kind = "taken" /\ down.checked => ~app["main"].there
  /\ service => kind # "app"
  /\ down.pc \in {"run", "main", "svc"} /\ kind # "app" => down.main.auto

\* okteto down: the applications behind it are restored and have no clone.
Restored(x) == app[x].there => ~app[x].dev /\ ~app[x].marked /\ app[x].replicas = wanted[x]

DownSoFar ==
  ~overlap /\ down.pc \in {"run", "main", "svc", "volume", "done"} =>
    /\ \A x \in Apps \ down.todo : Restored(x) /\ ~clone[x].there
    /\ \A x \in Apps : down.pc = x => Restored(x) /\ x \in down.todo
    /\ down.pc # "run" \/ down.todo # Apps => ~service
    /\ down.pc \in {"volume", "done"} => ~secret /\ down.todo = {}
    /\ down.pc = "done" /\ down.rm => volume = "absent"

\* A clone is made before its application is switched, and removed after it.
ClonesAreFirst ==
  ~overlap =>
    /\ \A x \in Apps : app[x].there /\ app[x].dev => clone[x].there
    /\ up.pc \in {"mainApp", "svcClone", "svcApp", "service", "pod", "laterClone", "laterApp", "running"}
         => clone["main"].there
    /\ up.pc \in {"svcApp", "laterApp", "running"} \/ (up.pc \in {"service", "pod"} /\ ~up.later)
         => clone["svc"].there

ClonesAreFound ==
  ~overlap /\ count.cuts = 0 => \A x \in Apps : clone[x].there =>
    \/ app[x].dev \/ (x = "main" /\ Autocreate /\ ~app[x].there) \/ down.pc = x
    \/ up.pc \in (IF x = "main" THEN {"mainApp"} ELSE {"svcApp", "laterApp"})

\* okteto up: what is there at each place.
Switched(x) == app[x].there => app[x].dev /\ app[x].replicas = 0

UpSoFar ==
  ~overlap =>
    /\ up.pc \in {"mainClone", "mainApp", "svcClone", "svcApp", "service", "pod", "laterClone", "laterApp",
                  "running"} => secret
    /\ up.pc \in {"laterClone", "laterApp", "running"} => volume = "there"
    /\ count.changes = 0 =>
         /\ up.pc \in {"svcClone", "svcApp", "service", "pod", "laterClone", "laterApp", "running"}
              => Switched("main")
         /\ up.pc = "running" \/ (up.pc \in {"service", "pod"} /\ ~up.later) => Switched("svc")

DevIInv ==
  /\ ClusterTypes /\ CommandTypes /\ AppsAreSane /\ CommandsHold /\ KindsHold
  /\ DownSoFar /\ ClonesAreFirst /\ ClonesAreFound /\ UpSoFar
=============================================================================
