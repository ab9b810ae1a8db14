---------------------------- MODULE ComposeRules -----------------------------
(***************************************************************************)
(* Cases of the compose files: all small inputs, and what their results    *)
(* must satisfy.                                                           *)
(***************************************************************************)
EXTENDS StackLoad, RuleCase

-----------------------------------------------------------------------------
(* Inputs of the compose files.                                              *)

MCSkippable == {9}
MCUrlPort == [curl |-> 0, url |-> 0, url8080 |-> 8080]
MCSaneName == [x \in {"A_b", "a_b"} |-> "a-b"]
MCPaths == {"./src"}
MCJobClaim == [x \in {"a", "b"} |-> "pvc-" \o x]

WrittenPorts ==
  [host : {<<>>, <<1>>, <<2>>, <<1, 2>>}, cont : {<<2>>, <<3>>, <<2, 3>>, <<3, 2>>, <<5, 2>>},
   proto : {"TCP", "UDP"}]
ExposedPorts == [host : {<<>>, <<1>>}, cont : {<<2>>, <<4>>, <<3, 4>>}, proto : {"TCP"}]
PortInputs ==
  [public : BOOLEAN, ports : SeqOf(WrittenPorts, 2), expose : SeqOf(ExposedPorts, 1)]

Tests ==
  [form : {"none", "absent"}, items : {0}, words : {<<>>}]
    \cup [form : {"list"}, items : {0}, words : {<<>>}]
    \cup [form : {"list"}, items : {2, 3},
          words : {<<x>> \o s : x \in {"NONE", "CMD", "CMD-SHELL"},
                                s \in SeqOf({"curl", "-f", "url", "url8080"}, 3)}]
    \cup [form : {"string"}, items : {0}, words : SeqOf({"curl", "-f", "url", "url8080"}, 3)]
HealthInputs ==
  [test : Tests, http : {0, 80}, disable : BOOLEAN, liveness : BOOLEAN, readiness : 0..2]

NoResources == [limits |-> [cpu |-> 0, mem |-> 0], requests |-> [cpu |-> 0, mem |-> 0], storage |-> 0]
SomeResources == [NoResources EXCEPT !.limits.mem = 2]
EmptyService ==
  [other |-> 0, restart |-> "Always", backoff |-> 0, replicas |-> 1, ports |-> <<>>,
   volumes |-> <<>>, mounts |-> <<>>, resources |-> NoResources, user |-> NotWritten,
   public |-> FALSE, endpointMode |-> "vip", dependsOn |-> NoMap]

Vol(l, r) == [local |-> l, remote |-> r]
MergedServices(user) ==
  {[EmptyService EXCEPT !.other = o, !.restart = r, !.backoff = b, !.volumes = v,
                        !.resources = x, !.user = user] :
     o \in {0, 1}, r \in {"Always", "Never", "OnFailure"}, b \in {0, 1},
     v \in {<<>>, <<Vol("", "/x")>>, <<Vol("v", "/x")>>, <<Vol("", "/x"), Vol("v", "/y")>>},
     x \in {NoResources, SomeResources}}
DeclaredVolumes == {NoMap, [v |-> 0], [v |-> 2, w |-> 3]}
MergeInputs ==
  [base : MergedServices(1), over : MergedServices(2), overOk : {TRUE}, vols : {[v |-> 0]},
   overVols : {NoMap, [w |-> 0]}]
    \cup [base : MergedServices(1), over : {EmptyService}, overOk : {FALSE}, vols : DeclaredVolumes,
          overVols : {NoMap}]

PodInputs ==
  [restart : {"Always", "Never"},
   vols : UNION {[1..n -> {"", "v", "w"}] : n \in 0..3}]

NameInputs == [names : SUBSET {"A_b", "a_b", "a-b", "c"}, dep : {"A_b", "a-b", "c"}]

GraphNodes == {"x", "y", "z"}
GraphInputs == [GraphNodes -> SUBSET GraphNodes]

EnvValues == {"", "1", "2"}
EnvFiles ==
  [base : {"vars"}, read : {TRUE}, vars : [{"k"} -> EnvValues] \cup [{"k", "l"} -> EnvValues]]
    \cup [base : {".env", "vars"}, read : {FALSE}, vars : {NoMap}]
EnvFileInputs ==
  [env : [{"k", "l"} -> {"", "e"}], section : [{"k"} -> {"s"}] \cup {NoMap}, files : SeqOf(EnvFiles, 2)]

\* A service as it is written, with nothing but an image.
RawService ==
  [command |-> <<>>, args |-> <<>>, entrypoint |-> <<>>,
   health |-> [test |-> [form |-> "absent", items |-> 0, words |-> <<>>], http |-> 0,
               disable |-> FALSE, liveness |-> FALSE, readiness |-> 0],
   public |-> FALSE, ports |-> <<>>, expose |-> <<>>, restart |-> "",
   deploy |-> [written |-> FALSE, condition |-> "", attempts |-> 0, mode |-> "",
               replicas |-> NotWritten, labels |-> NoMap,
               limits |-> [cpu |-> 0, mem |-> 0], reservations |-> [cpu |-> 0, mem |-> 0]],
   scale |-> NotWritten, replicas |-> NotWritten, resources |-> NoResources,
   short |-> [cpuCount |-> 0, cpus |-> 0, memLimit |-> 0, memReservation |-> 0],
   user |-> [form |-> "absent", parts |-> <<>>],
   dependsOn |-> [form |-> "list", names |-> {}, conditions |-> NoMap],
   grace |-> [unit |-> "", value |-> 0], volumes |-> <<>>, secrets |-> {},
   token |-> [written |-> FALSE, audience |-> "", mountPath |-> "", expiration |-> NotWritten],
   workdir |-> 0, working_dir |-> 0, labels |-> NoMap, annotations |-> NoMap, environment |-> <<>>]

DeploySections ==
  {RawService.deploy} \cup
  {[RawService.deploy EXCEPT !.written = TRUE, !.condition = c, !.attempts = a, !.replicas = n,
                             !.limits.mem = l] :
     c \in {"", "on-failure", "none"}, a \in {0, 3}, n \in {NotWritten, 0, 2}, l \in {0, 5}}

\* Sizes, workloads and volumes; then the fields that may be refused.
ServiceInputs ==
  {[compose |-> TRUE,
    raw |-> [RawService EXCEPT !.deploy = d, !.restart = r, !.resources.storage = s,
                               !.resources.limits.mem = l, !.short.memLimit = m, !.volumes = v,
                               !.scale = n]] :
     d \in DeploySections, r \in {"", "no", "sometimes"}, s \in {0, 4}, l \in {0, 3}, m \in {0, 2},
     v \in {<<>>, <<Vol("", "/x")>>, <<Vol("A_b", "/x"), Vol("./src", "/y")>>, <<Vol("c", "/x")>>},
     n \in {NotWritten, 0}}
  \cup
  {[compose |-> k,
    raw |-> [RawService EXCEPT !.command = c, !.args = a, !.entrypoint = e, !.user = u,
                               !.dependsOn = d, !.token = t,
                               !.deploy.mode = m]] :
     m \in {"", "dnsrr", "other"}, k \in BOOLEAN, c \in {<<"run">>, <<"two words">>}, a \in {<<>>, <<"arg">>},
     e \in {<<>>, <<"entry">>},
     u \in {RawService.user} \cup [form : {"string"}, parts : {<<1>>, <<1, 2>>, <<1, 2, 3>>}],
     d \in {[form |-> "list", names |-> {"A_b"}, conditions |-> NoMap],
            [form |-> "map", names |-> {}, conditions |-> [c |-> "completed"]],
            [form |-> "map", names |-> {}, conditions |-> [c |-> "ready"]]},
     t \in {RawService.token} \cup [written : {TRUE}, audience : {"", "aud"}, mountPath : {"absolute", "relative"},
                                    expiration : {599, 600}]}

FileNames == [name : {"", "one"}, override : {"none", "unnamed", "two"}]
LoadInputs == [name : {"", "arg"}, var : {"", "env"}, files : SeqOf(FileNames, 2) \ {<<>>}]

ValidServices ==
  [image : {"", "img"}, build : BOOLEAN, restart : {"Always", "Never"}, backoff : {0},
   ports : {<<>>, <<Port(0, 1, "TCP")>>}, mounts : {<<>>},
   dependsOn : UNION {[d -> {"started", "completed"}] : d \in SUBSET {"x", "y", "z"}}]
ValidInputs ==
  [x : {v \in ValidServices : v.ports = <<>> /\ v.image = "img"},
   y : {v \in ValidServices : v.ports = <<>> /\ v.image = "img" /\ ~v.build},
   rules : {{}}]
  \cup [x : {v \in ValidServices : DOMAIN v.dependsOn = {}}, y : {v \in ValidServices : DOMAIN v.dependsOn = {}},
        rules : SUBSET [service : {"x", "other"}, port : {1, 2}]]

LabelInputs ==
  [user : SUBSET {StackNameLabel, StackServiceNameLabel, VolumeLabel("v")}, vols : SeqOf({"", "v", "w"}, 2), others : SeqOf({"", "v", "w"}, 2), enabled : BOOLEAN]
TopLevelInputs ==
  LET Labels == {NoMap, [k |-> "x"], [k |-> "y"]} IN
  [compose : BOOLEAN, kind : {"deployment", "statefulset"}, annotation : {"", "rolling", "recreate", "on-delete", "other"}, env : {"", "rolling", "recreate", "on-delete"},
   volume : [labels : Labels, annotations : Labels, size : {0, 1}, optSize : {0, 2}, class : {"", "c"}, optClass : {"", "d"}]]

-----------------------------------------------------------------------------
(* What is computed.                                                         *)

ReadPorts(ws) == [i \in DOMAIN ws |-> UnmarshalPort(ws[i])]
Values(rs) == [i \in DOMAIN rs |-> rs[i].value]

\* A service with the ports of the input, and the Service of Kubernetes.
PortsResult(i) ==
  LET ports == ReadPorts(i.ports)
      expose == ReadPorts(i.expose)
      read == IF \E r \in Range(ports) \cup Range(expose) : ~r.ok
              THEN Rejected ELSE getSvcPorts(i.public, Values(ports), Values(expose))
  IN IF ~read.ok THEN Rejected
     ELSE LET svc == [EmptyService EXCEPT !.ports = read.value.ports, !.public = read.value.public]
          IN Accepted([svc |-> svc, service |-> translateService(svc),
                       container |-> translateContainerPorts(svc),
                       open |-> getSvcPublicPorts(svc)])

HealthResult(i) ==
  LET h == SvcHealthcheck(i)
  IN IF h.ok THEN Accepted([check |-> h.value, probes |-> getSvcHealthProbe(h.value)]) ELSE Rejected

\* The stack of one service "a", after the override file.
MergeResult(i) ==
  getStack(ReadStack([a |-> i.base], i.vols, {}),
           IF i.overOk THEN Accepted(ReadStack([a |-> i.over], i.overVols, {})) ELSE Rejected)

PodResult(i) ==
  LET svc == [EmptyService EXCEPT !.restart = i.restart,
                                  !.volumes = [k \in DOMAIN i.vols |-> Vol(i.vols[k], k)]]
  IN Workload(ReadService("a", svc))

\* Every service of the input depends on dep; the names are kept to see which is left.
NamesResult(i) ==
  [stacks |-> UnmarshalServices([n \in i.names |-> n]),
   dep |-> CHOOSE d \in DOMAIN SanitizedDependsOn([x \in {i.dep} |-> "started"]) : TRUE]

\* The service of the file, and its workload.
ServiceResult(i) ==
  LET svc == toService(i.compose, i.raw, [v \in {"a-b"} |-> 0], NoMap, NoMap)
  IN IF ~svc.ok THEN Rejected
     ELSE LET s == ReadService("a", svc.value)
          IN Accepted([svc |-> s, pod |-> Workload(s), sizes |-> translateResources(s.resources)])

ValidResult(i) ==
  Validate([services |-> [n \in {"x", "y"} |-> i[n]], endpoints |-> i.rules])

ComposeParts == {"service", "load", "valid", "ports", "health", "merge", "pods", "names", "graph", "env", "labels", "volumes"}

ComposeInputs(p) ==
  CASE p = "ports" -> PortInputs [] p = "health" -> HealthInputs [] p = "merge" -> MergeInputs
    [] p = "pods" -> PodInputs [] p = "names" -> NameInputs [] p = "graph" -> GraphInputs
    [] p = "service" -> ServiceInputs [] p = "load" -> LoadInputs [] p = "valid" -> ValidInputs
    [] p = "env" -> EnvFileInputs [] p = "labels" -> LabelInputs [] p = "volumes" -> TopLevelInputs

ComposeResult(p, i) ==
  CASE p = "ports" -> PortsResult(i) [] p = "health" -> HealthResult(i)
    [] p = "merge" -> MergeResult(i) [] p = "pods" -> PodResult(i)
    [] p = "names" -> NamesResult(i) [] p = "graph" -> GetDependentCyclic(i)
    [] p = "service" -> ServiceResult(i) [] p = "load" -> LoadStackNames(i.name, i.files, i.var)
    [] p = "valid" -> ValidResult(i)
    [] p = "env" -> loadEnvFiles(i.section, i.files, i.env)
    [] p = "labels" ->
         LET pod(vols) == [EmptyService EXCEPT !.volumes = [k \in DOMAIN vols |-> Vol(vols[k], k)]]
         IN [labels |-> [v \in {i.vols, i.others} |-> translateLabels("s", "a", [k \in i.user |-> "u"], pod(v))],
             affinity |-> [v \in {i.vols, i.others} |-> translateAffinity(pod(v), i.enabled)]]
    [] p = "volumes" -> [volume |-> unmarshalVolume(i.compose, i.volume), strategy |-> getUpdateStrategy(i.kind, i.annotation, i.env)]

-----------------------------------------------------------------------------
(* Properties of the ports.                                                  *)

\* getSvcPorts: in a service that is accepted no host port is the container port of
\* another entry, so that a port of the Service has one meaning.
PortsAreDisjoint ==
  Has("ports") /\ out.ok =>
    LET ps == out.value.svc.ports IN
    \A i, j \in DOMAIN ps : i # j => ps[i].host = 0 \/ ps[i].host # ps[j].cont

\* translateServicePorts: every port of the Service is there once; the container
\* ports lead to themselves, and a host port to the container port of the first
\* entry that has it.
ServicePortsRoute ==
  Has("ports") /\ out.ok =>
    LET ps == out.value.svc.ports
        sp == out.value.service.ports
        Target(n) == {sp[k].target : k \in {x \in DOMAIN sp : sp[x].port = n}}
    IN /\ \A k, l \in DOMAIN sp : k # l => sp[k].port # sp[l].port
       /\ \A i \in DOMAIN ps :
            /\ Target(ps[i].cont) = {ps[i].cont}
            /\ ps[i].host # 0 =>
                 LET first == CHOOSE j \in DOMAIN ps :
                                ps[j].host = ps[i].host /\ \A k \in 1..(j - 1) : ps[k].host # ps[i].host
                 IN Target(ps[i].host) = {ps[first].cont}

\* expandRangePorts: every port that the file writes for the containers is one of the
\* Service; only a range that is written downwards misses its last two.
RangesAreComplete ==
  Has("ports") /\ out.ok =>
    \A i \in DOMAIN in.ports :
      LET c == in.ports[i].cont
          served == Range(out.value.container)
      IN IF Len(c) = 1 \/ c[1] <= c[Len(c)]
         THEN c[1] .. c[Len(c)] \subseteq served
         ELSE (c[2] + 2) .. c[1] \subseteq served

\* PortRaw, translateServicePorts: a port has the protocol that is written with it,
\* unless it is written in a range or the same number was already a port.
ProtocolIsKept ==
  Has("ports") /\ out.ok =>
    \A i \in DOMAIN in.ports :
      LET w == in.ports[i]
          sp == out.value.service.ports
          Before(n) == \E j \in 1..(i - 1) :
                         LET c == in.ports[j].cont IN
                         \E x \in DOMAIN c : n \in c[1] .. c[Len(c)] \/ n \in c[Len(c)] .. c[1]
      IN Len(w.cont) = 1 /\ ~Before(w.cont[1])
           => \E k \in DOMAIN sp : sp[k].port = w.cont[1] /\ sp[k].proto = w.proto

-----------------------------------------------------------------------------
(* Properties of the services.                                               *)

\* validateHealthcheck, getSvcHealthProbe: a check that is accepted has one handler,
\* and at least one probe uses it; the code reads HTTP without looking whether it is
\* there.
ProbesHaveAHandler ==
  Has("health") /\ out.ok /\ out.value.check # NoCheck =>
    /\ (out.value.check.test = <<>>) # (out.value.check.http = 0)
    /\ out.value.probes.handler # "panic"
    /\ "none" # out.value.probes.readiness \/ "none" # out.value.probes.liveness

\* mergeServices: what the override file writes wins and what it does not write is
\* kept, but for the resources: the default size of ReadStack makes them never the
\* default, so those of the base file are lost.  user is not merged, and "always" of
\* the override file does not replace another restart policy.
OverrideIsMerged ==
  Has("merge") =>
    LET a == out.services.a
        b == ReadService("a", in.base)
        o == ReadService("a", in.over)
    IN IF ~in.overOk THEN a = b
       ELSE /\ a.other = (IF o.other # 0 THEN o.other ELSE b.other)
            /\ a.restart = (IF o.restart # "Always" THEN o.restart ELSE b.restart)
            /\ a.volumes = (IF o.volumes # <<>> THEN o.volumes ELSE b.volumes)
            /\ a.resources = o.resources
            /\ a.user = b.user

\* Merge: a named volume of a service is declared in the stack, unless the override
\* file has volumes: those it declares, or the claim of a job in it, replace those
\* of the base file.
MergedVolumesAreDeclared ==
  Has("merge") /\ in.vols # NoMap /\ in.overVols = NoMap =>
    LET a == out.services.a IN
    \A i \in DOMAIN a.volumes :
      \/ a.volumes[i].local = ""
      \/ a.volumes[i].local \in DOMAIN out.volumes
      \/ in.overOk /\ IsJob(in.over) /\ \E k \in DOMAIN in.over.volumes : in.over.volumes[k].local = ""

\* ReadStack, Merge: the anonymous volumes of a job have a claim if the file that
\* writes them says that the service is a job; the other file comes too late.
JobVolumesHaveClaims ==
  Has("merge") =>
    LET a == out.services.a
        writer == IF in.overOk /\ in.over.volumes # <<>> THEN in.over ELSE in.base
    IN IsJob(a) /\ IsJob(writer) => \A i \in DOMAIN a.volumes : a.volumes[i].local # ""

\* IsDeployment, IsStatefulset, IsJob: a service is exactly one of them, also after a
\* merge of policy and attempts from two files.
OneKindOfWorkload ==
  Has("merge") =>
    LET a == out.services.a IN
    Cardinality({k \in 1..3 : <<IsDeployment(a), IsStatefulset(a), IsJob(a)>>[k]}) = 1

\* What Kubernetes asks of a pod: the names of its volumes differ and so do the paths
\* of the mounts of a container.
Distinct(seq, Key(_)) == \A i, j \in DOMAIN seq : i # j => Key(seq[i]) # Key(seq[j])
ValidPod(w) ==
  /\ Distinct(w.volumes, LAMBDA v : v.name)
  /\ \A k \in DOMAIN w.inits : Distinct(w.inits[k], LAMBDA m : m.path)
  /\ Distinct(w.mounts, LAMBDA m : m.path)

Anonymous(vols) == {i \in DOMAIN vols : vols[i] = ""}
\* getInitContainerCommandAndVolumeMounts, translateVolumes: the pod of a service that
\* mounts each named volume once and at most one without a name is one Kubernetes
\* takes.
PodsAreValid ==
  ( /\ Has("pods")
    /\ Distinct(SelectSeq(in.vols, LAMBDA v : v # ""), LAMBDA v : v)
    /\ Cardinality(Anonymous(in.vols)) <= 1 ) => ValidPod(out)

\* getInitContainerCommandAndVolumeMounts: the permissions of the anonymous volumes
\* are opened at one path, unless a named volume was seen before two of them.
DataIsMountedOnce ==
  Has("pods") /\ in.restart = "Always" /\ ~Distinct(
      IF out.inits = <<>> THEN <<>> ELSE SelectSeq(out.inits[1], LAMBDA m : m.path = "/data"),
      LAMBDA m : m.path) =>
    \E i \in DOMAIN in.vols :
      in.vols[i] # "" /\ Cardinality({j \in Anonymous(in.vols) : j > i}) >= 2

\* translateVolumeMounts: two volumes without a name of a StatefulSet never share a
\* directory; those of a job always do.
AnonymousVolumesKeepApart ==
  Has("pods") =>
    \A i, j \in Anonymous(in.vols) : i # j =>
      ((out.mounts[i].sub = out.mounts[j].sub) <=> out.kind = "job")

\* UnmarshalYAML of Stack: a service is lost only when two names become the same one,
\* and what a service depends on is found under its new name.
ServicesKeepTheirNames ==
  Has("names") =>
    \A st \in out.stacks :
      /\ \A n \in in.names : n \in {st[m] : m \in DOMAIN st}
                             \/ \E o \in in.names \ {n} : sanitizeName(o) = sanitizeName(n)
      /\ in.dep \in in.names => out.dep \in DOMAIN st

\* GetDependentCyclic: the search finds a cycle exactly when there is one, and what it
\* reports has the cycle in it.
Reaches(g) ==
  LET R0 == [x \in GraphNodes |-> g[x]]
      Step(R) == [x \in GraphNodes |-> R[x] \cup UNION {R[y] : y \in R[x]}]
  IN Step(Step(R0))
CyclesAreFound ==
  Has("graph") =>
    LET cyclic == {x \in GraphNodes : x \in Reaches(in)[x]}
    IN (out = {} <=> cyclic = {}) /\ (out # {} => out \cap cyclic # {})

\* toService, translateVolumeClaimTemplates: the size a service asks for is the size of
\* its claim, unless it has a deploy section: that resets it, even one that says
\* nothing of resources.
StorageReachesTheClaim ==
  Has("service") /\ out.ok =>
    \A t \in out.value.pod.templates :
      t.size = (IF in.raw.resources.storage = 0 \/ in.raw.deploy.written THEN DefaultSize
                ELSE in.raw.resources.storage)

\* toService: a memory limit that is written somewhere ends as one of the container,
\* unless it is in the resources and there is a deploy section.
LimitsAreKept ==
  Has("service") /\ out.ok =>
    ("mem" \in out.value.sizes.limits <=>
       \/ in.raw.short.memLimit # 0
       \/ in.raw.deploy.limits.mem # 0
       \/ in.raw.resources.limits.mem # 0 /\ ~in.raw.deploy.written)

\* splitVolumesByType, translateVolumeMounts: every volume of an accepted service is
\* mounted where the file says, or left for the build as a mount, and the names the
\* pod mounts are declared.
VolumesAreKept ==
  Has("service") /\ out.ok =>
    LET svc == out.value.svc
        paths == {out.value.pod.mounts[i].path : i \in DOMAIN out.value.pod.mounts}
    IN /\ {in.raw.volumes[i].remote : i \in DOMAIN in.raw.volumes}
             = paths \cup {svc.mounts[i].remote : i \in DOMAIN svc.mounts}
       /\ \A i \in DOMAIN svc.volumes : svc.volumes[i].local \in {"", "a-b", JobClaim["a"]}

\* getStackName, Merge: the name of the stack and OKTETO_NAME, which the commands of
\* the deploy read, are the same, unless a file after the first or an override file
\* writes a name: the stack keeps its own.
NameAndVariableAgree ==
  Has("load") /\ out.name # out.var =>
    \E i \in DOMAIN in.files :
      \/ in.files[i].override = "two"
      \/ in.files[i].name = "one" /\ i > 1 /\ in.name = ""

\* Validate: a stack that is accepted can be deployed: its services have an order in
\* which each comes after what it depends on, and who must complete is a job.
AcceptedStacksHaveAnOrder ==
  Has("valid") /\ out =>
    /\ \E order \in {<<"x", "y">>, <<"y", "x">>} :
         \A k \in 1..2 : DOMAIN in[order[k]].dependsOn \subseteq {order[j] : j \in 1..(k - 1)}
    /\ \A n \in {"x", "y"} : \A d \in DOMAIN in[n].dependsOn :
         in[n].dependsOn[d] = "completed" => IsJob(in[d])

\* loadEnvFiles: the environment section wins over the files, and a later file over an
\* earlier one; no file is lost without an error but a .env.
LastEnvFileWins ==
  Has("env") /\ out.ok =>
    LET Giving(k) == {i \in DOMAIN in.files : k \in DOMAIN in.files[i].vars}
    IN /\ \A i \in DOMAIN in.files : in.files[i].base # ".env" => DOMAIN in.files[i].vars \subseteq DOMAIN out.env
       /\ \A i \in DOMAIN in.files : ~in.files[i].read => in.files[i].base = ".env"
       /\ \A k \in DOMAIN out.env :
            out.env[k] = IF k \in DOMAIN in.section THEN in.section[k]
                         ELSE LET given == in.files[Max(Giving(k))].vars[k]
                              IN IF given = "" THEN in.env[k] ELSE given

\* translateLabels, translateLabelSelector: the selector of a workload chooses its own
\* pods, unless a label of the user has the key of a label of the stack.
SelectorMatches ==
  Has("labels") /\ in.user \cap {StackNameLabel, StackServiceNameLabel} = {} =>
    \A k \in DOMAIN translateLabelSelector("s", "a") : out.labels[in.vols][k] = translateLabelSelector("s", "a")[k]

\* translateAffinity, translateLabels: two pods that mount one claim ask for each
\* other's node, whatever labels the user writes, and a pod asks for nothing that it
\* does not have itself, so that the first of them finds a node.
SharedVolumesShareANode ==
  Has("labels") =>
    /\ \A v \in {in.vols, in.others} : out.affinity[v] \subseteq DOMAIN out.labels[v]
    /\ \A n \in (ToSet(in.vols) \cap ToSet(in.others)) \ {""} : in.enabled =>
         \E term \in out.affinity[in.vols] : term \in DOMAIN out.labels[in.others] /\ out.labels[in.others][term] = "true"

\* unmarshalVolume, getUpdateStrategy: a volume loses no label that the file gives it,
\* an option of the driver is never undone by a field, and a strategy reaches
\* Kubernetes only for a kind that knows it.
VolumesKeepTheirOptions ==
  Has("volumes") =>
    LET v == in.volume IN
    /\ \A k \in DOMAIN v.labels : out.volume.annotations[k] = v.labels[k]
    /\ \A k \in DOMAIN v.annotations : k \in DOMAIN out.volume.annotations \cup DOMAIN out.volume.labels
    /\ v.optSize # 0 => out.volume.size = v.optSize
    /\ v.optClass # "" => out.volume.class = v.optClass
    /\ out.strategy = "recreate" => in.kind = "deployment"
    /\ out.strategy = "on-delete" => in.kind = "statefulset"
    /\ in.annotation # "" /\ out.strategy # in.annotation => in.annotation \notin Strategies(in.kind)
=============================================================================
