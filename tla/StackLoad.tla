------------------------------ MODULE StackLoad ------------------------------
(***************************************************************************)
(* How a compose (or Okteto stack) file becomes a stack: the short syntaxes*)
(* of a service, the names that are made valid for Kubernetes, the env     *)
(* files, the merge with an override file and the validation               *)
(* (pkg/model/stack.go, stack_serializer.go).  YAML itself is left out: an *)
(* input is what the file says, with 0, "" or an empty collection for a    *)
(* field that is not written.                                              *)
(***************************************************************************)
EXTENDS Integers, Sequences, FiniteSets, SequencesExt

Rejected == [ok |-> FALSE]
Accepted(v) == [ok |-> TRUE, value |-> v]

-----------------------------------------------------------------------------
(* Ports.  A port is written as [host, cont, proto]: host is <<>>, <<p>> or  *)
(* <<from, to>> and cont <<p>> or <<from, to>>.                              *)

RangeFrom(s) == IF Len(s) = 2 THEN s[1] ELSE 0
RangeTo(s) == IF Len(s) = 2 THEN s[2] ELSE 0

\* A range keeps its ends for expandRangePorts.  (The host ports of a range are
\* read and never used.)
UnmarshalPort(w) ==
  LET from == RangeFrom(w.cont)
      to == RangeTo(w.cont)
  IN IF w.host # <<>> /\ from - to # RangeFrom(w.host) - RangeTo(w.host) THEN Rejected
     ELSE IF from = 0 /\ (Len(w.cont) = 2 \/ Len(w.host) = 2) THEN Rejected
     ELSE Accepted([host |-> IF from = 0 /\ w.host # <<>> THEN w.host[1] ELSE 0,
                    cont |-> IF from = 0 THEN w.cont[1] ELSE 0,
                    from |-> from, to |-> to, proto |-> w.proto])

Port(h, c, p) == [host |-> h, cont |-> c, proto |-> p]

\* The loop stops when it meets to + 1, also on its way down.
PortsOfRange(p) ==
  LET down == p.from > p.to
  IN [k \in 1 .. IF down THEN p.from - p.to - 1 ELSE p.to - p.from + 1 |->
        Port(0, IF down THEN p.from - k + 1 ELSE p.from + k - 1, "")]

expandRangePorts(ports) ==
  FlattenSeq([i \in DOMAIN ports |->
                IF ports[i].cont # 0 THEN <<Port(ports[i].host, ports[i].cont, ports[i].proto)>>
                ELSE PortsOfRange(ports[i])])

translateOktetoStacksPortsIntoComposeSyntax(ports) ==
  [i \in DOMAIN ports |->
     IF ports[i].host = 0 THEN [ports[i] EXCEPT !.host = ports[i].cont] ELSE ports[i]]

\* The ports of databases and debuggers.
CONSTANT SkippablePorts
IsSkippablePort(p) == p \in SkippablePorts

getAccessiblePorts(ports) == SelectSeq(ports, LAMBDA p : p.host # 0 /\ ~IsSkippablePort(p.cont))

validatePort(new, ports) ==
  \A i \in DOMAIN ports : new.cont # ports[i].host /\ new.host # ports[i].cont

IsAlreadyAddedExpose(p, ports) ==
  \E i \in DOMAIN ports :
    LET q == ports[i] IN
    IF p.host = 0 THEN q.cont = p.cont \/ q.host = p.cont
    ELSE q.cont = p.cont \/ q.cont = p.host \/ q.host = p.host \/ q.host = p.cont

getSvcPorts(public, rawPorts, rawExpose) ==
  LET expanded == expandRangePorts(rawPorts)
      ports == IF public THEN translateOktetoStacksPortsIntoComposeSyntax(expanded) ELSE expanded
      exposed == expandRangePorts(rawExpose)
      valid == \A i \in DOMAIN ports : validatePort(ports[i], SubSeq(ports, 1, i - 1))
      isPublic == /\ public \/ Len(getAccessiblePorts(ports)) = 1
                  /\ rawExpose = <<>> \/ ports # <<>>
      AddExposed(acc, p) == IF IsAlreadyAddedExpose(p, acc) THEN acc ELSE Append(acc, p)
  IN IF ~valid THEN Rejected
     ELSE Accepted([public |-> isPublic, ports |-> FoldLeft(AddExposed, ports, exposed)])

-----------------------------------------------------------------------------
(* Health checks.  A test is a sequence of words.                            *)

\* A test is written as a list of items or as a string; words is what it says, with
\* the string of a CMD-SHELL split as a shell would.
UnmarshalTest(w) ==
  CASE w.form = "none" -> Accepted(<<>>)
    [] w.form = "list" /\ w.words = <<>> -> Rejected
    [] w.form = "list" /\ Head(w.words) = "NONE" -> Accepted(<<"NONE">>)
    [] w.form = "list" /\ Head(w.words) = "CMD" -> Accepted(Tail(w.words))
    [] w.form = "list" /\ Head(w.words) = "CMD-SHELL" ->
         IF w.items = 2 THEN Accepted(Tail(w.words)) ELSE Rejected
    [] w.form = "list" -> Rejected
    [] OTHER -> Accepted(w.words)

\* readiness is 0 (not written), 1 (true) or 2 (false); http is 0 or a port.
UnmarshalHealthCheck(w) ==
  LET test == UnmarshalTest(w.test)
      readiness == w.readiness # 2
  IN IF ~test.ok \/ (~w.liveness /\ ~readiness) THEN Rejected
     ELSE Accepted([test |-> test.value, http |-> w.http, disable |-> w.disable,
                    liveness |-> w.liveness, readiness |-> readiness])

\* A test NONE disables the check.
NoneDisables(h) ==
  IF h.test # <<>> /\ Head(h.test) = "NONE" THEN [h EXCEPT !.test = <<>>, !.disable = TRUE] ELSE h

validateHealthcheck(h) ==
  h.disable \/ ((h.http = 0) # (h.test = <<>>))

\* The port of the first word after curl that can be read as a URL; every word but
\* the two flags can ("https://" is tried in front of it).
CONSTANT UrlPort   \* word -> port, 0 for a word without one
CurlPort(test) ==
  LET urls == SelectSeq(Tail(test), LAMBDA x : x \notin {"-f", "--fail"})
  IN IF urls = <<>> THEN 0 ELSE UrlPort[Head(urls)]

translateHealtcheckCurlToHTTP(h) ==
  IF Len(h.test) >= 2 /\ Head(h.test) = "curl" /\ CurlPort(h.test) # 0
  THEN [h EXCEPT !.http = CurlPort(h.test), !.test = <<>>]
  ELSE h

\* The health check of the service, NoCheck when there is none or it is disabled.
NoCheck == [test |-> <<>>, http |-> 0, disable |-> TRUE, liveness |-> FALSE, readiness |-> FALSE]
SvcHealthcheck(w) ==
  IF w.test.form = "absent" THEN Accepted(NoCheck)
  ELSE LET read == UnmarshalHealthCheck(w) IN
       IF ~read.ok THEN Rejected
       ELSE LET h == NoneDisables(read.value) IN
            IF ~validateHealthcheck(h) THEN Rejected
            ELSE Accepted(IF h.disable THEN NoCheck ELSE translateHealtcheckCurlToHTTP(h))

-----------------------------------------------------------------------------
(* The other fields of a service.                                            *)

\* The deploy section comes first; "" is a condition that is not written.
getRestartPolicy(deployCondition, restart) ==
  LET r == IF deployCondition # "" THEN deployCondition ELSE restart
  IN CASE r \in {"none", "never", "no"} -> Accepted("Never")
       [] r \in {"always", "", "unless-stopped", "any"} -> Accepted("Always")
       [] r = "on-failure" -> Accepted("OnFailure")
       [] OTHER -> Rejected

\* Limits and requests are [cpu, mem]; a deploy section replaces both, whatever it
\* says, and the short fields fill what is still 0.
unmarshalDeployResources(deploy, resources, short) ==
  LET r == IF deploy.written
           THEN [limits |-> deploy.limits, requests |-> deploy.reservations,
                 storage |-> 0]
           ELSE resources
      Fill(v, s) == IF v = 0 THEN s ELSE v
  IN [limits |-> [cpu |-> Fill(r.limits.cpu, short.cpuCount),
                  mem |-> Fill(r.limits.mem, short.memLimit)],
      requests |-> [cpu |-> Fill(r.requests.cpu, short.cpus),
                    mem |-> Fill(r.requests.mem, short.memReservation)],
      storage |-> r.storage]

\* NotWritten is a field that is absent, which is not the same as 0.
NotWritten == -1
unmarshalDeployReplicas(deployReplicas, scale, replicas) ==
  IF replicas # NotWritten THEN replicas
  ELSE IF deployReplicas # NotWritten THEN deployReplicas
  ELSE IF scale # NotWritten THEN scale ELSE 1

\* f overridden by g.
Over(f, g) == [k \in DOMAIN f \cup DOMAIN g |-> IF k \in DOMAIN g THEN g[k] ELSE f[k]]

unmarshalLabels(labels, deployLabels) == Over(deployLabels, labels)

\* A compose file's labels are annotations of Kubernetes, and its annotations labels.
ServiceMetadata(isCompose, labels, deployLabels, annotations) ==
  LET l == unmarshalLabels(labels, deployLabels)
  IN IF isCompose THEN [labels |-> annotations, annotations |-> l]
     ELSE [labels |-> l, annotations |-> annotations]

unmarshalVolume(isCompose, v) ==
  [labels |-> IF isCompose THEN v.annotations ELSE <<>>,
   annotations |-> IF isCompose THEN v.labels ELSE Over(v.annotations, v.labels),
   size |-> IF v.optSize # 0 THEN v.optSize ELSE v.size,
   class |-> IF v.optClass # "" THEN v.optClass ELSE v.class]

\* A stack's command is the entrypoint of the container and its args the command.
EntrypointAndCommand(isCompose, command, args, entrypoint) ==
  IF isCompose
  THEN IF args # <<>> THEN Rejected
       ELSE Accepted([entrypoint |-> entrypoint, command |-> command])
  ELSE IF entrypoint # <<>> THEN Rejected
       ELSE Accepted([entrypoint |-> IF Len(command) = 1 /\ Head(command) = "two words"
                                     THEN <<"sh", "-c", Head(command)>> ELSE command,
                      command |-> args])

\* env: what the machine's environment holds, "" when a variable is not set.
LoadEnvironment(written, env) ==
  LET Value(x) == IF x.value = "" THEN env[x.name] ELSE x.value
      Kept(acc, x) == IF Value(x) = "" THEN acc ELSE Append(acc, [name |-> x.name, value |-> Value(x)])
  IN FoldLeft(Kept, <<>>, written)

toEndpointMode(mode) ==
  IF mode = "" THEN Accepted("vip") ELSE IF mode \in {"vip", "dnsrr"} THEN Accepted(mode) ELSE Rejected

MinIdentityTokenExpirationSeconds == 600
validateIdentityToken(t) ==
  /\ t.audience # "" /\ t.mountPath = "absolute"
  /\ t.expiration = NotWritten \/ t.expiration >= MinIdentityTokenExpirationSeconds

toBuildInfoSecrets(names, topLevel) ==
  \A n \in names :
    n \in DOMAIN topLevel /\ (topLevel[n].file # "") # (topLevel[n].env # "")

-----------------------------------------------------------------------------
(* Names and volumes.  A volume of a service is [local, remote].             *)

CONSTANT SaneName   \* name -> the name that is valid in Kubernetes
sanitizeName(n) == IF n \in DOMAIN SaneName THEN SaneName[n] ELSE n
shouldBeSanitized(n) == n \in DOMAIN SaneName

\* The services under their sanitized names.  Two names that become the same one
\* are written to the same entry, in the order of a Go map: one of them is left.
UnmarshalServices(raw) ==
  {[n \in {sanitizeName(x) : x \in DOMAIN raw} |-> raw[pick[n]]] :
     pick \in {p \in [{sanitizeName(x) : x \in DOMAIN raw} -> DOMAIN raw] :
                 \A n \in DOMAIN p : sanitizeName(p[n]) = n}}

SanitizedDependsOn(deps) ==
  [n \in {sanitizeName(x) : x \in DOMAIN deps} |->
     deps[CHOOSE x \in DOMAIN deps : sanitizeName(x) = n]]

isInVolumesTopLevelSection(n, volumes) == n \in DOMAIN volumes

splitVolumesByType(vols, declared) ==
  LET IsVolume(v) == v.local = "" \/ isInVolumesTopLevelSection(sanitizeName(v.local), declared)
  IN [volumes |-> [i \in DOMAIN SelectSeq(vols, IsVolume) |->
                     [SelectSeq(vols, IsVolume)[i] EXCEPT !.local = sanitizeName(@)]],
      mounts |-> SelectSeq(vols, LAMBDA v : ~IsVolume(v))]

\* A mount names a path that is absolute, begins with ./ or exists.
CONSTANT Paths
isNamedVolumeDeclared(v) == v.local \in Paths

IsJob(s) == s.restart = "Never" \/ (s.restart = "OnFailure" /\ s.backoff # 0)
IsRunning(s) == s.restart = "Always" \/ (s.restart = "OnFailure" /\ s.backoff = 0)

IsDeployment(s) == s.volumes = <<>> /\ IsRunning(s)
IsStatefulset(s) == s.volumes # <<>> /\ IsRunning(s)

\* service -> the name of the claim of a job's anonymous volumes
CONSTANT JobClaim

DefaultSize == 1

ReadService(name, s) ==
  LET storage == IF s.resources.storage = 0 THEN DefaultSize ELSE s.resources.storage
  IN [s EXCEPT !.resources.storage = storage,
               !.volumes = IF IsJob(s)
                           THEN [i \in DOMAIN @ |-> IF @[i].local = ""
                                                    THEN [@[i] EXCEPT !.local = JobClaim[name]]
                                                    ELSE @[i]]
                           ELSE @]

\* Every size has a default, and the claims of the jobs become volumes of the stack.
ReadStack(services, declared, rules) ==
  LET claims == {n \in DOMAIN services :
                   IsJob(services[n]) /\ \E i \in DOMAIN services[n].volumes :
                                            services[n].volumes[i].local = ""}
  IN [services |-> [n \in DOMAIN services |-> ReadService(n, services[n])],
      volumes |-> Over([v \in DOMAIN declared |->
                          IF declared[v] = 0 THEN DefaultSize ELSE declared[v]],
                       [v \in {JobClaim[n] : n \in claims} |->
                          LET n == CHOOSE x \in claims : JobClaim[x] = v
                          IN ReadService(n, services[n]).resources.storage]),
      endpoints |-> rules]

-----------------------------------------------------------------------------
(* A service of the file.  Of two spellings of a field the one with an        *)
(* underscore wins when it is written.                                        *)

Spelled(dash, underscore, none) == IF underscore # none THEN underscore ELSE dash

\* A user is written as a number, as two of them with a colon or as a mapping.
SecurityContext(u) ==
  CASE u.form = "absent" -> Accepted([uid |-> NotWritten, gid |-> NotWritten])
    [] u.form = "string" /\ Len(u.parts) > 2 -> Rejected
    [] u.form = "string" /\ \E i \in DOMAIN u.parts : u.parts[i] = NotWritten -> Rejected
    [] OTHER -> Accepted([uid |-> u.parts[1], gid |-> IF Len(u.parts) = 2 THEN u.parts[2] ELSE NotWritten])

\* A list of services waits for each of them to run.
DependsOnConditions == {"started", "healthy", "completed"}
DependsOn(d) ==
  IF d.form = "list" THEN Accepted([n \in d.names |-> "started"])
  ELSE IF \A n \in DOMAIN d.conditions : d.conditions[n] \in DependsOnConditions
  THEN Accepted(d.conditions) ELSE Rejected

\* A number of seconds, or a duration with its unit.
unmarshalDuration(d) == IF d.unit = "bad" THEN Rejected ELSE Accepted(d.value)

toService(isCompose, raw, declared, secrets, env) ==
  LET exec == EntrypointAndCommand(isCompose, raw.command, raw.args, raw.entrypoint)
      health == SvcHealthcheck(raw.health)
      ports == getSvcPorts(raw.public, raw.ports, raw.expose)
      restart == getRestartPolicy(raw.deploy.condition, raw.restart)
      mode == toEndpointMode(raw.deploy.mode)
      user == SecurityContext(raw.user)
      deps == DependsOn(raw.dependsOn)
      grace == unmarshalDuration(raw.grace)
      split == splitVolumesByType(raw.volumes, declared)
      parsed == <<exec, health, ports, restart, mode, user, deps, grace>>
  IN IF \/ ~toBuildInfoSecrets(raw.secrets, secrets)
        \/ \E i \in DOMAIN parsed : ~parsed[i].ok
        \/ raw.token.written /\ ~validateIdentityToken(raw.token)
        \/ \E i \in DOMAIN split.mounts : ~isNamedVolumeDeclared(split.mounts[i])
     THEN Rejected
     ELSE Accepted(
       [other |-> Spelled(raw.workdir, raw.working_dir, 0),
        restart |-> restart.value,
        backoff |-> raw.deploy.attempts,
        replicas |-> unmarshalDeployReplicas(raw.deploy.replicas, raw.scale, raw.replicas),
        ports |-> ports.value.ports,
        public |-> ports.value.public,
        volumes |-> split.volumes,
        mounts |-> split.mounts,
        resources |-> unmarshalDeployResources(raw.deploy, raw.resources, raw.short),
        user |-> user.value.uid,
        endpointMode |-> mode.value,
        dependsOn |-> SanitizedDependsOn(deps.value),
        exec |-> exec.value,
        health |-> health.value,
        grace |-> grace.value,
        meta |-> ServiceMetadata(isCompose, raw.labels, raw.deploy.labels, raw.annotations),
        environment |-> LoadEnvironment(raw.environment, env)])

-----------------------------------------------------------------------------
(* Env files.  A file is a record: base is the last part of its name, read   *)
(* says whether it can be read, vars is a function from names to values.     *)

\* What is already set is kept; an empty value is read from the environment.
setEnvironmentFromFile(acc, file, env) ==
  Over([n \in DOMAIN file.vars |-> IF file.vars[n] = "" THEN env[n] ELSE file.vars[n]], acc)

\* The last file is read first.  A file that cannot be read is passed over when it is a
\* .env, else it ends the load.
loadEnvFiles(environment, files, env) ==
  LET readable == SelectSeq(files, LAMBDA file : file.read)
  IN [ok |-> \A i \in DOMAIN files : files[i].read \/ files[i].base = ".env",
      env |-> FoldRight(LAMBDA file, acc : setEnvironmentFromFile(acc, file, env), readable, environment)]

-----------------------------------------------------------------------------
(* The merge with the next file or with the override file.                   *)

\* "other" stands for the fields that are taken when they are not empty.
IsDefaultValue(r) ==
  r.limits = [cpu |-> 0, mem |-> 0] /\ r.requests = [cpu |-> 0, mem |-> 0] /\ r.storage = 0

mergeService(b, o) ==
  [b EXCEPT
     !.other = IF o.other # 0 THEN o.other ELSE @,
     !.restart = IF o.restart # "Always" THEN o.restart ELSE @,
     !.replicas = IF o.replicas # 1 THEN o.replicas ELSE @,
     !.backoff = IF o.backoff # 0 THEN o.backoff ELSE @,
     !.ports = IF o.ports # <<>> THEN o.ports ELSE @,
     !.volumes = IF o.volumes # <<>> THEN o.volumes ELSE @,
     !.mounts = IF o.volumes # <<>> THEN o.mounts ELSE @,
     !.resources = IF ~IsDefaultValue(o.resources) THEN o.resources ELSE @]

mergeServices(base, other) ==
  [n \in DOMAIN base \cup DOMAIN other |->
     IF n \notin DOMAIN base THEN other[n]
     ELSE IF n \notin DOMAIN other THEN base[n]
     ELSE mergeService(base[n], other[n])]

Merge(stack, other) ==
  [services |-> mergeServices(stack.services, other.services),
   volumes |-> IF DOMAIN other.volumes # {} THEN other.volumes ELSE stack.volumes,
   endpoints |-> IF other.endpoints # {} THEN other.endpoints ELSE stack.endpoints]

\* The override file is read when it exists; one that cannot be read is ignored.
getStack(stack, override) == IF override.ok THEN Merge(stack, override.value) ELSE stack

-----------------------------------------------------------------------------
(* The name of the stack and the variable OKTETO_NAME of the process; "" is  *)
(* a name that is not written or a variable that is not set.                 *)

DirName == "dir"   \* the name made from the repository or the folder

\* A name that comes from the variable leaves it as it is.
getStackName(name, written, var) ==
  LET n == IF name # "" THEN name ELSE IF written # "" THEN written
           ELSE IF var # "" THEN var ELSE DirName
  IN [name |-> n, var |-> n]

\* A file with its override file, which is read without the name of the command.
NameOfFile(name, file, var) ==
  LET base == getStackName(name, file.name, var)
  IN [name |-> base.name,
      var |-> IF file.override = "none" THEN base.var
              ELSE getStackName("", IF file.override = "unnamed" THEN "" ELSE file.override,
                                base.var).var]

\* The stack keeps the name of its first file.
LoadStackNames(name, files, var) ==
  LET Add(acc, f) ==
        LET r == NameOfFile(name, f, acc.var)
        IN [name |-> IF acc.name = "" THEN r.name ELSE acc.name, var |-> r.var]
  IN FoldLeft(Add, [name |-> "", var |-> var], files)

-----------------------------------------------------------------------------
(* Validation.  A graph is a function from services to sets of services.     *)

\* One visit of the search from svc; st is [visited, onPath, found].  The services
\* are visited in the order of the list; a set has no order and Go's maps have none.
RECURSIVE dfs(_, _, _)
dfs(g, svc, st) ==
  IF svc \in st.visited THEN [st EXCEPT !.onPath = @ \ {svc}]
  ELSE LET Visit(acc, dep) ==
             IF acc.found THEN acc
             ELSE LET next == IF dep \notin acc.visited THEN dfs(g, dep, acc) ELSE acc
                  IN [next EXCEPT !.found = @ \/ dep \in next.onPath]
           end == FoldLeft(Visit, [st EXCEPT !.visited = @ \cup {svc}, !.onPath = @ \cup {svc}],
                           SetToSeq(IF svc \in DOMAIN g THEN g[svc] ELSE {}))
       IN IF end.found THEN end ELSE [end EXCEPT !.onPath = @ \ {svc}]

\* The services on the path of the search when it met one of them again.
GetDependentCyclic(g) ==
  FoldLeft(LAMBDA st, svc : IF st.found THEN st ELSE dfs(g, svc, st),
           [visited |-> {}, onPath |-> {}, found |-> FALSE], SetToSeq(DOMAIN g)).onPath

\* Mutant of ValidateDependsOn: cycles are not looked for.
ValidateDependsOnNoCycle(services) ==
  \A n \in DOMAIN services : \A d \in DOMAIN services[n].dependsOn :
    /\ d # n /\ d \in DOMAIN services
    /\ services[n].dependsOn[d] = "completed" => IsJob(services[d])

ValidateDependsOn(services) ==
  /\ \A n \in DOMAIN services : \A d \in DOMAIN services[n].dependsOn :
       /\ d # n /\ d \in DOMAIN services
       /\ services[n].dependsOn[d] = "completed" => IsJob(services[d])
  /\ GetDependentCyclic([n \in DOMAIN services |-> DOMAIN services[n].dependsOn]) = {}

IsPortInService(port, ports) == \E i \in DOMAIN ports : ports[i].cont = port

\* A rule for a service that is not in the stack is not looked at.
EndpointsAreValid(stack) ==
  \A r \in stack.endpoints : r.service \in DOMAIN stack.services
                     => IsPortInService(r.port, stack.services[r.service].ports)

\* A service has an image or is built, and mounts at absolute paths.  (What the mounts
\* keep is ignoreSyncVolumes'.)
Validate(stack) ==
  /\ DOMAIN stack.services # {}
  /\ EndpointsAreValid(stack)
  /\ \A n \in DOMAIN stack.services :
       /\ ~shouldBeSanitized(n)
       /\ stack.services[n].image # "" \/ stack.services[n].build
       /\ \A i \in DOMAIN stack.services[n].mounts :
            stack.services[n].mounts[i].abs \/ (~stack.services[n].build /\ stack.services[n].mounts[i].file)
  /\ ValidateDependsOn(stack.services)

-----------------------------------------------------------------------------
(* The Kubernetes objects of a service (pkg/cmd/stack/translate.go).         *)

PvcName == "pvc"   \* the volume of a StatefulSet's claim template

-----------------------------------------------------------------------------
(* Ports.                                                                    *)

isServicePortAdded(port, ports) == \E i \in DOMAIN ports : ports[i].port = port

\* The container port, and the host port when it is another one.
AddServicePorts(acc, p) ==
  LET ServicePort(n) == [port |-> n, target |-> p.cont, proto |-> p.proto]
      one == IF isServicePortAdded(p.cont, acc) THEN acc ELSE Append(acc, ServicePort(p.cont))
  IN IF p.host # 0 /\ p.cont # p.host /\ ~isServicePortAdded(p.host, one)
     THEN Append(one, ServicePort(p.host)) ELSE one

translateServicePorts(svc) == FoldLeft(AddServicePorts, <<>>, svc.ports)

translateContainerPorts(svc) ==
  [i \in DOMAIN svc.ports |-> SortSeq(svc.ports, LAMBDA a, b : a.cont < b.cont)[i].cont]

getSvcPublicPorts(svc) == getAccessiblePorts(svc.ports)

\* A dnsrr service has no cluster IP.
translateService(svc) ==
  [ports |-> translateServicePorts(svc), headless |-> svc.endpointMode = "dnsrr"]

-----------------------------------------------------------------------------
(* Volumes.  A mount has the name of a volume of the pod and a path.         *)

getVolumeClaimName(v) == IF v.local # "" THEN v.local ELSE PvcName

\* The pod's volumes; claim is "" for the volume of the claim template.
translateVolumes(svc) ==
  [i \in DOMAIN svc.volumes |->
     [name |-> getVolumeClaimName(svc.volumes[i]), claim |-> svc.volumes[i].local]]

\* The directory of the i-th volume inside its claim.
SubPathOf(svc, i) ==
  IF svc.volumes[i].local # "" THEN <<svc.volumes[i].local>> ELSE <<"data", i>>

translateVolumeMounts(svc) ==
  [i \in DOMAIN svc.volumes |->
     [name |-> getVolumeClaimName(svc.volumes[i]), path |-> svc.volumes[i].remote,
      sub |-> SubPathOf(svc, i)]]

\* The container that opens the permissions.  Each flag is set only by the volume
\* that begins the command.
InitMounts(svc) ==
  LET Add(acc, v) ==
        IF getVolumeClaimName(v) # PvcName
        THEN [acc EXCEPT !.mounts = Append(@, [name |-> v.local, path |-> v.local]),
                         !.begun = TRUE]
        ELSE IF acc.dataAdded THEN acc
        ELSE [mounts |-> Append(acc.mounts, [name |-> PvcName, path |-> "/data"]),
              dataAdded |-> ~acc.begun, begun |-> TRUE]
  IN FoldLeft(Add, [mounts |-> <<>>, dataAdded |-> FALSE, begun |-> FALSE], svc.volumes).mounts

\* The container that copies what the image has into the volumes.
getInitializeVolumeContentContainer(svc) ==
  [i \in DOMAIN svc.volumes |->
     [name |-> getVolumeClaimName(svc.volumes[i]), path |-> i, from |-> svc.volumes[i].remote]]

getInitContainers(svc) ==
  IF svc.volumes = <<>> THEN <<>>
  ELSE <<InitMounts(svc), getInitializeVolumeContentContainer(svc)>>

\* One claim template, of the size the service asks for, when a volume has no name.
translateVolumeClaimTemplates(svc) ==
  IF \E i \in DOMAIN svc.volumes : svc.volumes[i].local = ""
  THEN {[name |-> PvcName, size |-> svc.resources.storage]} ELSE {}

-----------------------------------------------------------------------------
(* Labels, probes, resources, strategy.                                      *)

StackNameLabel == "stack.okteto.com/name"
StackServiceNameLabel == "stack.okteto.com/service"
DeployedByLabel == "dev.okteto.com/deployed-by"

\* The labels of the user are written over those of the stack, and the ones by which
\* pods with the same volume find each other over them.
VolumeLabel(local) == "stack.okteto.com/volume-" \o local
translateLabels(stackName, svcName, userLabels, svc) ==
  LET own == [k \in {StackNameLabel, StackServiceNameLabel, DeployedByLabel} |->
                IF k = StackServiceNameLabel THEN svcName ELSE stackName]
      named == {svc.volumes[i].local : i \in DOMAIN svc.volumes} \ {""}
  IN Over(Over(own, userLabels), [k \in {VolumeLabel(v) : v \in named} |-> "true"])

\* A pod goes to the node of the pods that mount the same named volumes.
translateAffinity(svc, enabled) ==
  IF enabled THEN {VolumeLabel(v) : v \in {svc.volumes[i].local : i \in DOMAIN svc.volumes} \ {""}} ELSE {}

translateLabelSelector(stackName, svcName) ==
  [k \in {StackNameLabel, StackServiceNameLabel} |->
     IF k = StackServiceNameLabel THEN svcName ELSE stackName]

\* The handler of the probes: the command of the test, or the request.
getSvcHealthProbe(h) ==
  LET handler == IF h.test # <<>> THEN "exec" ELSE IF h.http # 0 THEN "http" ELSE "panic"
      none == h = NoCheck
  IN [readiness |-> IF ~none /\ h.readiness THEN handler ELSE "none",
      liveness |-> IF ~none /\ h.liveness THEN handler ELSE "none",
      handler |-> IF none THEN "none" ELSE handler]

\* Only what is greater than 0 is asked for.
translateResources(r) ==
  [limits |-> {x \in {"cpu", "mem"} : r.limits[x] > 0},
   requests |-> {x \in {"cpu", "mem"} : r.requests[x] > 0}]

Strategies(kind) == IF kind = "deployment" THEN {"rolling", "recreate"} ELSE {"rolling", "on-delete"}
DefaultStrategy(kind) == IF kind = "deployment" THEN "recreate" ELSE "rolling"

\* The annotation, then the environment, each only if the kind supports it.
getUpdateStrategy(kind, annotation, env) ==
  IF annotation \in Strategies(kind) THEN annotation
  ELSE IF env \in Strategies(kind) THEN env ELSE DefaultStrategy(kind)

-----------------------------------------------------------------------------
(* The workload of a service.                                                *)

translateDeployment(svc) == [kind |-> "deployment", volumes |-> <<>>, mounts |-> <<>>,
                             inits |-> <<>>, templates |-> {}]

translateStatefulSet(svc) ==
  [kind |-> "statefulset", volumes |-> translateVolumes(svc), mounts |-> translateVolumeMounts(svc),
   inits |-> getInitContainers(svc), templates |-> translateVolumeClaimTemplates(svc)]

translateJob(svc) ==
  [kind |-> "job", volumes |-> translateVolumes(svc), mounts |-> translateVolumeMounts(svc),
   inits |-> getInitContainers(svc), templates |-> {}]

Workload(svc) ==
  CASE IsDeployment(svc) -> translateDeployment(svc)
    [] IsStatefulset(svc) -> translateStatefulSet(svc)
    [] IsJob(svc) -> translateJob(svc)
=============================================================================
