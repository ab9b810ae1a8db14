------------------------------ MODULE RemoteRun ------------------------------
(***************************************************************************)
(* Remote execution: the commands of a deploy, destroy or test section run *)
(* in a container that is built for them.  The command of the user         *)
(* prepares that build; inside it, okteto remote-run decodes what to run   *)
(* and runs it, a deployment behind a proxy of the cluster.  A function    *)
(* whose steps may fail is the list of its steps, and fail is the one that *)
(* does.  Lists of variables are maps: what is appended takes the place of *)
(* what is there.  The programs of a development container are at the end: *)
(* clean, which kills what a former okteto up left, the ssh server of      *)
(* remote development, and the set-up of syncthing by the supervisor.      *)
(***************************************************************************)
EXTENDS Integers, Sequences, FiniteSets, SequencesExt, Functions

Failed == <<"failed">>
\* An object or variables that cannot be had.
Malformed == [malformed |-> ""]
\* The steps that are done when fail is the first that is not.
Before(steps, fail) == {steps[i] : i \in {j \in DOMAIN steps : \A k \in 1..j : steps[k] # fail}}
Append2(old, new) == new @@ old

-----------------------------------------------------------------------------
(* The proxy between the commands and the cluster.                           *)

DeployedBy == "deployed-by"

\* Objects: those of a workload have a pod template, a replication controller may
\* have none, custom is a kind that is not built in, a list has no labels.
addMetadataLabels(o, ph) == [o EXCEPT !.labels = (DeployedBy :> ph.name) @@ @]
\* A pod: the names it is looked up in, and the variables of each of its containers.
\* With istio the manifest has no shared namespace; without divert nothing is done.
updateEnvVar(env, name, value) == (name :> value) @@ env
UpdateEnvVars(ph, env) ==
  updateEnvVar(updateEnvVar(env, "OKTETO_SHARED_ENVIRONMENT", ph.shared), "OKTETO_DIVERTED_ENVIRONMENT", ph.namespace)
UpdatePod(ph, pod) ==
  CASE ph.divert = "nginx" -> [search |-> <<ph.shared>> \o pod.search, env |-> UpdateEnvVars(ph, pod.env)]
    [] ph.divert = "istio" -> [pod EXCEPT !.env = UpdateEnvVars(ph, @)]
    [] OTHER -> pod
modifyPodTemplateSpec(o, ph) ==
  [o EXCEPT !.template = (DeployedBy :> ph.name) @@ @, !.pod = UpdatePod(ph, @)]
modifyObject(o, ph) ==
  CASE o.kind = "list" -> Malformed
    [] o.kind = "workload" -> modifyPodTemplateSpec(addMetadataLabels(o, ph), ph)
    [] OTHER -> addMetadataLabels(o, ph)

\* A kind that is not built in is read from text only.
decodeObject(r) == IF r.object.kind = "unknown" \/ (r.object.kind = "custom" /\ r.type = "protobuf") THEN Malformed ELSE r.object
shouldInterceptRequest(r) == r.method \in {"PUT", "POST"} \/ (r.method = "PATCH" /\ r.type = "apply")
isSPDY(r) == r.upgrade
newProtocolTransport(r) == IF isSPDY(r) THEN "http1" ELSE "http2"

\* What the handler answers itself, or what it sends to the cluster.
Answer(status) == [status |-> status, sent |-> Malformed]
Forward(cfg, r, o) == [status |-> 0, sent |-> [token |-> cfg.token, http |-> newProtocolTransport(r), object |-> o]]
getProxyHandler(cfg, ph, r) ==
  LET o == decodeObject(r) modified == modifyObject(o, ph) IN
  CASE r.token # ph.token -> Answer(401)
    [] r.token = ph.token /\ r.object.kind = "unreadable" /\ shouldInterceptRequest(r) -> Answer(500)
    [] r.token = ph.token /\ (~shouldInterceptRequest(r) \/ r.object.kind = "empty" \/ o = Malformed) -> Forward(cfg, r, r.object)
    [] OTHER -> IF modified = Malformed THEN Answer(500) ELSE Forward(cfg, r, modified)

\* The kubeconfig of the commands: the current cluster and user are the proxy's.
Modify(cfg, proxy) ==
  IF cfg.current = "none" THEN Malformed
  ELSE [cfg EXCEPT !.userToken = proxy.token, !.server = proxy.port, !.caFile = "",
                   !.ca = IF cfg.insecure THEN @ ELSE "proxy"]

-----------------------------------------------------------------------------
(* The commands of a section.                                                *)

\* The variables of the gateway that the context has.
GetGatewayEnvironment(g) ==
  [k \in {x \in {"GATEWAY_NAME", "GATEWAY_NAMESPACE"} : x \in DOMAIN g /\ g[x] # ""} |-> g[k]]
appendGatewayEnvVars(vars, g) == Append2(vars, GetGatewayEnvironment(g))
\* The variables that the platform has for every command; none when it cannot be asked.
GetPlatformEnvironment(answer) == IF answer = Malformed THEN <<>> ELSE answer
VariablesOf(kind, given, platform, g) ==
  LET own == IF kind = "deploy" THEN [KUBECONFIG |-> "temporary", NAMESPACE |-> "ctx", SUBDOMAIN |-> "ctx"]
             ELSE IF kind = "test" THEN [SUBDOMAIN |-> "ctx"] ELSE <<>>
  IN appendGatewayEnvVars(Append2(Append2(given, own), GetPlatformEnvironment(platform)), g)

\* Only a remote command changes its helm.
setupHelmVersion(helm) == helm # "fails"

\* The file that a command may write variables to is read after it. A file that is
\* not well formed leaves what was read before.
mapToEnvList(file) == file
Step(es, file) == IF file = Malformed THEN [list |-> <<>>, env |-> es] ELSE [list |-> mapToEnvList(file), env |-> file]

\* One command: s is what was run with which variables, the variables, and errors.
Execute(s, c) == [s EXCEPT !.ran = Append(@, [name |-> c.name, vars |-> s.vars]), !.err = c.name]
StepLate(s, c) ==
  IF s.err # "" THEN s
  ELSE IF ~c.ok THEN Execute(s, c)
  ELSE LET step == Step(s.env, c.file) r == Execute(s, c)
       IN [r EXCEPT !.err = "", !.vars = Append2(@, s.env), !.env = step.env]
StepOfCommand(s, c) ==
  IF s.err # "" THEN s
  ELSE IF ~c.ok THEN Execute(s, c)
  ELSE LET step == Step(s.env, c.file) r == Execute(s, c)
       IN [r EXCEPT !.err = "", !.vars = Append2(@, step.list), !.env = step.env]
runCommandsSection(commands, vars) ==
  FoldLeft(StepOfCommand, [ran |-> <<>>, vars |-> vars, env |-> <<>>, err |-> ""], commands)

\* A destroy goes on after an error when it is forced, and still reports the last.
ForcedStep(s, c, force) ==
  IF s.err # "" /\ ~force THEN s ELSE [Execute(s, c) EXCEPT !.err = IF c.ok THEN s.err ELSE c.name]
DestroyCommands(commands, vars, force) ==
  FoldLeft(LAMBDA s, c : ForcedStep(s, c, force), [ran |-> <<>>, vars |-> vars, env |-> <<>>, err |-> ""], commands)

NotRun(err) == [ran |-> <<>>, vars |-> <<>>, env |-> <<>>, err |-> err]
TestSteps == <<"env dir", "env file", "helm">>
RunTest(i) ==
  LET done == Before(TestSteps, i.fail) vars == VariablesOf("test", i.given, i.platform, i.gateway) IN
  [run |-> IF "helm" \in done THEN runCommandsSection(i.commands, vars) ELSE NotRun(i.fail),
   left |-> (done \cap {"env dir"}) \ {x \in {"env dir"} : "helm" \in done}]
RunDestroy(i) ==
  [run |-> IF setupHelmVersion(IF i.fail = "helm" THEN "fails" ELSE "")
           THEN DestroyCommands(i.commands, VariablesOf("destroy", i.given, i.platform, i.gateway), i.force) ELSE NotRun("helm"),
   left |-> {}]
\* A deployment: the clean-up is deferred once the proxy has started.
DeferredByRunDeploy(done) ==
  {x \in {"kubeconfig", "env dir"} : IF x = "kubeconfig" THEN "divert" \in done ELSE "env file" \in done}
RunDeploySteps == <<"client", "kubeconfig", "divert", "helm", "env dir", "env file">>
RunDeploy(i) ==
  LET done == Before(RunDeploySteps, i.fail) vars == VariablesOf("deploy", i.given, i.platform, i.gateway) IN
  [run |-> IF "env file" \in done THEN runCommandsSection(i.commands, vars) ELSE NotRun(i.fail),
   left |-> (done \cap {"kubeconfig", "env dir"}) \ DeferredByRunDeploy(done)]

-----------------------------------------------------------------------------
(* okteto remote-run, in the container.                                      *)

\* The entity is the variable that the build was given, encoded twice.
getDeployable(encoded) ==
  CASE encoded = "" -> <<"entity", "empty">>
    [] encoded \in {"not base64", "not yaml"} -> Failed
    [] OTHER -> <<"entity", encoded>>
forwardsAgent(e) == e.host # "" /\ e.port # "" /\ e.socket # ""
StepsOfDeploy == <<"name", "context", "okteto", "deployable", "runner">>
StepsOfDestroy == <<"name", "context", "okteto", "kubeconfig file", "deployable">>
StepsOfTest == <<"name", "context", "okteto", "kubeconfig file", "deployable">>
RunESteps(kind) == CASE kind = "deploy" -> StepsOfDeploy [] kind = "destroy" -> StepsOfDestroy [] kind = "test" -> StepsOfTest
\* The kubeconfig of a destroy or a test has the token of the user: it is removed
\* however the command ends.
DeferredByRunE(done) == done \cap {"kubeconfig file"}
RunE(kind, i) ==
  LET done == Before(RunESteps(kind), i.start)
      decoded == done \ {x \in {"deployable", "runner"} : getDeployable(i.encoded) = Failed}
      runs == decoded = ToSet(RunESteps(kind))
      r == CASE kind = "deploy" -> RunDeploy(i) [] kind = "destroy" -> RunDestroy(i) [] kind = "test" -> RunTest(i)
  IN [run |-> IF runs THEN r.run ELSE NotRun("start"),
      left |-> (IF runs THEN r.left ELSE {}) \cup ((decoded \cap {"kubeconfig file"}) \ DeferredByRunE(decoded)),
      agent |-> runs /\ forwardsAgent(i.ssh)]

-----------------------------------------------------------------------------
(* The build of a remote command.                                            *)

\* Directories are sequences of names. The command runs in the directory of the
\* manifest: the one of the user is found by taking the manifest's off.
DirOf(path) == Front(path)
TrimSuffix(dir, end) == IF IsSuffix(end, dir) THEN SubSeq(dir, 1, Len(dir) - Len(end)) ELSE dir
\* The directory of a manifest, without .okteto.
GetWorkdirFromManifestPath(path) ==
  LET dir == DirOf(path) IN IF dir # <<>> /\ Last(dir) = ".okteto" THEN DirOf(dir) ELSE dir
GetManifestPathFromWorkdir(path) == SubSeq(path, Len(GetWorkdirFromManifestPath(path)) + 1, Len(path))
UpdateCWDtoManifestPath(cwd, path) == [cwd |-> cwd \o GetWorkdirFromManifestPath(path), manifest |-> GetManifestPathFromWorkdir(path)]
GetOriginalCWD(cwd, manifest) == IF manifest = <<>> THEN cwd ELSE TrimSuffix(cwd, DirOf(manifest))
\* The context of a build: the directory of the manifest, or that above it when it
\* is .okteto.
getContextPath(cwd, manifest, is) ==
  CASE manifest = <<>> \/ is = "missing" -> cwd
    [] manifest # <<>> /\ is = "directory" -> cwd \o manifest
    [] OTHER -> GetWorkdirFromManifestPath(cwd \o manifest)

\* The rules of the .dockerignore: those of the old file, which only a deploy and a
\* destroy read, then those of .oktetoignore.
createDockerignoreFileWithFilesystem(kind, old, rules) ==
  CASE kind = "test" \/ old = "missing" -> [ok |-> TRUE, rules |-> rules]
    [] kind # "test" /\ old \in {"no stat", "unreadable"} -> [ok |-> FALSE, rules |-> <<>>]
    [] OTHER -> [ok |-> TRUE, rules |-> <<old>> \o rules]

\* A value is a text, here what matters in it, and the quotes around it. Its line
\* ends become the two characters of an escape.
Plain(text) == [text |-> text, quotes |-> 0]
formatEnvVarValueForDocker(v) == [text |-> IF v.text = "two lines" THEN "escaped" ELSE v.text, quotes |-> v.quotes + 1]
prepareEnvVars(m) == [k \in DOMAIN m |-> formatEnvVarValueForDocker(m[k])]
\* What the builder reads: quotes in pairs are empty words, and a text with a blank
\* or a line end is then not one word.
readEnv(v) == IF v.quotes % 2 = 0 /\ v.text \in {"with blank", "two lines"} THEN Failed ELSE <<v.text>>
ReadAll(m) == [k \in DOMAIN m |-> readEnv(m[k])]
\* The variables of the container, a later ENV in place of an earlier one: those of
\* the builds, of the command (not quoted), of the dependencies. The builds' are a
\* map of the builder, which is quoted once more for each container.
DockerEnv(p) ==
  LET built == IF p.nth = 1 THEN prepareEnvVars(p.build) ELSE prepareEnvVars(prepareEnvVars(p.build))
      deps == prepareEnvVars(p.dependencies)
  IN IF \E m \in {built, p.specific, deps} : \E k \in DOMAIN m : readEnv(m[k]) = Failed
     THEN Failed ELSE <<"env", ReadAll(Append2(Append2(built, p.specific), deps))>>
getOktetoPrefixEnvVars(environ) ==
  [k \in {x \in DOMAIN environ : x[1] = "OKTETO" /\ x[2] \notin {"HOME", "FOLDER", "PATH"}} |-> environ[k]]

\* A cache is known by its repository, manifest, test and path joined with dashes:
\* parts are sequences of words.
joinParts(parts) == FlattenSeq([i \in DOMAIN parts |-> IF i = Len(parts) THEN parts[i] ELSE parts[i] \o <<"-">>])
generateCacheID(repo, manifest, test, path) == joinParts(<<repo, manifest, test, path>>)


\* Names that the container resolves inside the cluster: none when the command is
\* not given the address of the cluster.
getExtraHosts(c) ==
  <<<<"registry", c.serverIP>>, <<"kubernetes", c.serverIP>>>>
    \o (IF c.buildkitIP # "" THEN <<<<"buildkit", c.buildkitIP>>>> ELSE <<>>)
    \o (IF c.publicDomain # "" THEN <<<<c.publicDomain, c.serverIP>>>> ELSE <<>>)
addDefinedHosts(hosts, defined) == hosts \o defined
HostsOf(c, defined) ==
  addDefinedHosts((IF c.serverIP # "" THEN getExtraHosts(c) ELSE <<>>)
                    \o (IF c.agent # "" THEN <<<<c.agent, "agent IP">>>> ELSE <<>>), defined)

\* The known hosts of the platform when it has them, else those of the user. A
\* secret that is there twice is the last one.
KnownHostsOfUser(h) == IF h.user THEN <<"user">> ELSE <<>>
KnownHosts(h) ==
  LET answer == IF h.api = "fails" THEN [enabled |-> FALSE, content |-> ""] ELSE [enabled |-> h.enabled, content |-> h.content]
      file == IF h.writes THEN <<answer.content>> ELSE <<>>
      early == IF answer.enabled /\ answer.content # "" THEN file \o file ELSE <<>>
  IN early \o IF answer.enabled THEN file ELSE KnownHostsOfUser(h)
SecretsOf(c, h) == (IF c.agent # "" THEN <<"socket">> ELSE <<>>) \o KnownHosts(h)

\* A key that is given keeps the layers of the last run.
cacheKey(given, random) == IF given = "" THEN random ELSE given
outputMode(kind) == CASE kind \in {"test", "deploy", "destroy"} -> kind [] OTHER -> "deploy"

\* The Dockerfile is removed once all of it was written, however the build ends.
RunnerSteps == <<"home", "metadata", "cwd", "temp dir", "own cwd", "dockerfile", "ignore file", "template", "change dir", "random", "marshal", "server name", "build">>
createDockerfile(done) == [file |-> done \cap {"dockerfile"}, ok |-> "template" \in done]
DeferredByRun(done) == {x \in {"dockerfile"} : createDockerfile(done).ok}
Run(p, fail) ==
  LET done == Before(RunnerSteps, fail) IN
  [ok |-> fail = "none", left |-> createDockerfile(done).file \ DeferredByRun(done), built |-> "server name" \in done,
   image |-> IF p.image = "" THEN "runner" ELSE p.image,
   key |-> cacheKey(p.key, "random"), output |-> outputMode(p.kind), env |-> DockerEnv(p),
   export |-> IF p.artifacts THEN p.context ELSE <<>>]

\* The command line of the remote command; a value is quoted.
GetCommandFlags(name, vars) == IF \E v \in ToSet(vars) : v = "malformed" THEN Failed ELSE <<"name", name, vars>>
getCommandFlags(name, force, vars) ==
  IF \E v \in ToSet(vars) : v = "malformed" THEN Failed ELSE <<"name", name, vars>> \o IF force THEN <<"force">> ELSE <<>>
\* An error of a command is told from one of the build.
Deploy(o) ==
  CASE o.empty -> [result |-> "nothing", ran |-> FALSE]
    [] ~o.empty /\ (GetCommandFlags(o.name, o.vars) = Failed \/ o.cwd = "fails" \/ o.rules = "fails") -> [result |-> "not prepared", ran |-> FALSE]
    [] OTHER -> [result |-> IF o.run = "command" THEN "stage of the command" ELSE o.run, ran |-> TRUE]
Destroy(o) ==
  IF getCommandFlags(o.name, o.force, o.vars) = Failed \/ o.cwd = "fails" \/ o.rules = "fails"
  THEN [result |-> "not prepared", ran |-> FALSE]
  ELSE [result |-> IF o.run = "command" THEN "stage of the command" ELSE o.run, ran |-> TRUE]

\* Where a section runs. A command that runs remotely already destroys in place.
ShouldRunInRemote(o) ==
  IF o.forced THEN ~(o.flagSet /\ ~o.flag) /\ o.remote # "false"
  ELSE o.flag \/ o.image # "" \/ o.remote = "true"
shouldRunInRemote(o) ==
  ~o.isRemote /\ IF o.forced THEN (o.flagSet => o.flag) /\ o.remote # "false" ELSE o.flag \/ o.image # "" \/ o.remote = "true"

-----------------------------------------------------------------------------
(* okteto test.                                                              *)

\* The images of the tests that are services of the manifest and not built yet.
doBuild(tests, images, i) ==
  LET needed == {images[t] : t \in ToSet(tests)}
      known == needed \cap DOMAIN i.services
  IN IF "okteto build missing" \in needed THEN Failed ELSE <<"build", {s \in known : ~i.services[s]}>>
\* The test containers in an order of their dependencies, with those they need.
Needed(chosen, needs) ==
  LET f[n \in 0..Cardinality(DOMAIN needs)] ==
        IF n = 0 THEN chosen ELSE f[n - 1] \cup UNION {needs[t] \cap DOMAIN needs : t \in f[n - 1]}
  IN f[Cardinality(DOMAIN needs)]
IsOrder(order, needs) == \A i, j \in DOMAIN order : order[j] \in needs[order[i]] => j < i
Ordered(chosen, needs) ==
  LET all == IF chosen = {} THEN DOMAIN needs ELSE Needed(chosen, needs)
  IN {o \in [1..Cardinality(all) -> all] : IsInjective(o) /\ IsOrder(o, needs)}
\* A tree has no cycle and no test that is not there.
IsTree(needs) == \A t \in DOMAIN needs : needs[t] \subseteq DOMAIN needs /\ t \notin Needed(needs[t] \cap DOMAIN needs, needs)
\* The first test that fails ends the command.
RunTests(order, i) ==
  LET stops == {n \in DOMAIN order : ~i.passes[order[n]]}
      last == IF stops = {} THEN Len(order) ELSE CHOOSE n \in stops : \A m \in stops : n <= m
  IN [ran |-> SubSeq(order, 1, last), ok |-> stops = {}]
DoRunSteps == <<"context", "okteto", "namespace", "path", "manifest", "name", "tests">>
\* The results of the command: one for each order that the map of tests may give.
doRun(i) ==
  LET done == Before(DoRunSteps, i.fail) stop(e) == {[err |-> e, built |-> {}, deployed |-> FALSE, ran |-> <<>>]} IN
  CASE i.fail # "none" -> stop(i.fail)
    [] i.fail = "none" /\ DOMAIN i.needs = {} -> stop("")
    [] i.fail = "none" /\ DOMAIN i.needs # {} /\ ~IsTree(i.needs) -> stop("no tree")
    [] i.fail = "none" /\ DOMAIN i.needs # {} /\ IsTree(i.needs) /\ ~(i.chosen \subseteq DOMAIN i.needs) -> stop("unknown")
    [] OTHER ->
       {LET b == doBuild(o, i.images, i) r == RunTests(o, i) deploys == i.deploy /\ i.hasDeploy IN
        CASE b = Failed -> [err |-> "image", built |-> {}, deployed |-> FALSE, ran |-> <<>>]
          [] b # Failed /\ i.buildFails /\ b[2] # {} -> [err |-> "build", built |-> b[2], deployed |-> FALSE, ran |-> <<>>]
          [] b # Failed /\ ~(i.buildFails /\ b[2] # {}) /\ deploys /\ i.deployFails -> [err |-> "deploy", built |-> b[2], deployed |-> FALSE, ran |-> <<>>]
          [] OTHER -> [err |-> IF r.ok THEN "" ELSE "test", built |-> b[2], deployed |-> deploys, ran |-> r.ran] : o \in Ordered(i.chosen, i.needs)}

-----------------------------------------------------------------------------
(* The tools of the development container.                                   *)
(* clean: processes are maps from pids to their executable and parent.       *)

exceptByParent == {"screen", "tmux: server", "tmux"}
exceptByName == {"okteto-remote", "syncthing", "okteto-supervisor", "supervisor"}

\* The process or one of its ancestors below the first process is of a session
\* that is kept; a parent that cannot be found ends the search.
isChildrenOfExceptByParent(ps, p) ==
  LET f[n \in 0..Cardinality(DOMAIN ps)] ==
        LET sessions == {q \in DOMAIN ps : q # 1 /\ ps[q].exe \in exceptByParent}
        IN IF n = 0 THEN sessions ELSE f[n - 1] \cup {q \in DOMAIN ps : q # 1 /\ ps[q].parent \in f[n - 1]}
  IN p \in f[Cardinality(DOMAIN ps)]
\* An executable that cannot be read is not a reason to keep a process.
shouldKill(ps, p, self) ==
  /\ p \notin {1, self, ps[self].parent}
  /\ ps[p].exe \notin exceptByName
  /\ ~isChildrenOfExceptByParent(ps, p)

\* The children of a process that is gone belong to the first one. A process that
\* is killed is gone at once, or not before clean ends.
Gone(ps, p) == [q \in DOMAIN ps \ {p} |-> IF ps[q].parent = p THEN [ps[q] EXCEPT !.parent = 1] ELSE ps[q]]
CleanMain(table, order, self, atOnce) ==
  LET step(s, p) ==
        IF p \notin DOMAIN s.ps \/ ~shouldKill(s.ps, p, self) THEN s
        ELSE [ps |-> IF atOnce THEN Gone(s.ps, p) ELSE s.ps, killed |-> s.killed \cup {p}]
  IN FoldLeft(step, [ps |-> table, killed |-> {}], order).killed

-----------------------------------------------------------------------------
(* The ssh server.                                                           *)

\* What ends a command: nothing, its code, a signal (-1), or that it did not start.
getExitStatusFromError(err) ==
  CASE err[1] = "none" -> 0 [] err[1] = "exit" -> err[2] [] err[1] = "signal" -> -1 [] OTHER -> 1
ErrorOf(s) ==
  CASE s.starts = FALSE -> <<"not started">> [] s.starts /\ s.exit = 0 -> <<"none">>
    [] s.starts /\ s.exit = -1 -> <<"signal">> [] OTHER -> <<"exit", s.exit>>

\* With a terminal the output of a command that succeeds has a second to arrive, and
\* that of one that fails is not waited for.
handlePTY(s) ==
  LET err == ErrorOf(s) IN
  [err |-> err, ends |-> TRUE,
   whole |-> IF err[1] = "none" THEN s.drained \in {"before", "soon"} ELSE s.drained = "before"]
\* Without one it is read to its end first, however long that takes.
handleNoTTY(s) == [err |-> ErrorOf(s), ends |-> s.starts => s.drained # "never", whole |-> TRUE]
sendErrAndExit(err) == getExitStatusFromError(err)
\* The environment of a session is that of the server, then the client's.
buildCmd(s) == [args |-> IF s.raw = "" THEN <<"shell">> ELSE <<"shell", "-c", s.raw>>, env |-> <<"server", "client">>]
connectionHandler(s) ==
  LET r == IF s.pty THEN handlePTY(s) ELSE handleNoTTY(s) IN
  IF s.agent = "fails" THEN [status |-> <<>>, ends |-> TRUE, whole |-> FALSE, cmd |-> <<>>]
  ELSE [status |-> IF ~r.ends THEN <<>> ELSE IF r.err[1] = "none" THEN <<0>> ELSE <<sendErrAndExit(r.err)>>,
        ends |-> r.ends, whole |-> r.whole, cmd |-> buildCmd(s).args]

\* No file of keys means no authentication; a file is a sequence of keys, and each of
\* them has to be well formed.
LoadAuthorizedKeys(file) ==
  CASE file[1] = "missing" -> [ok |-> TRUE, keys |-> <<"nil">>]
    [] file[1] = "unreadable" \/ (file[1] = "keys" /\ (file[2] = <<>> \/ "malformed" \in ToSet(file[2]))) -> [ok |-> FALSE, keys |-> <<"nil">>]
    [] OTHER -> [ok |-> TRUE, keys |-> <<"keys", file[2]>>]
authorize(keys, key) == \E i \in DOMAIN keys : keys[i] = key
getServer(keys, key) == keys[1] = "nil" \/ authorize(keys[2], key)
GetShell(found) == IF "bash" \in found THEN "bash" ELSE IF "sh" \in found THEN "sh" ELSE "none"
\* The ports above those of the system.
RemotePort(given) == CASE given = "" -> 2222 [] given = "text" -> -1 [] given = "low" -> -1 [] OTHER -> 3333
RemoteMain(i) ==
  LET loaded == LoadAuthorizedKeys(i.file)
      serves == GetShell(i.shells) # "none" /\ RemotePort(i.port) # -1 /\ loaded.ok
  IN [serves |-> serves, accepts |-> {k \in {"mine", "other"} : serves /\ getServer(loaded.keys, k)}]

-----------------------------------------------------------------------------
(* The set-up of syncthing.                                                  *)

SyncthingFiles == <<"cert.pem", "config.xml", "key.pem">>
\* Files that are there are kept. A directory that is missing is made, and then taken
\* for one that could not be read: the program panics.
copyFiles(there, dst, fails) ==
  LET missing == SelectSeq(SyncthingFiles, LAMBDA f : f \notin there)
      copied == {missing[n] : n \in {m \in DOMAIN missing : \A k \in 1..m : missing[k] # fails}}
  IN CASE dst # "directory" -> [ok |-> FALSE, files |-> {}, panics |-> dst = "missing"]
       [] OTHER -> [ok |-> fails \notin ToSet(missing), files |-> there \cup copied, panics |-> FALSE]
addPermissions(files, fails) == ToSet(SyncthingFiles) \subseteq files /\ fails # "chmod"
Setup(there, dst, fails) ==
  LET c == copyFiles(there, dst, fails) IN [ok |-> c.ok /\ addPermissions(c.files, fails), files |-> c.files, panics |-> c.panics]
\* The supervisor goes on when the database cannot be reset, not when the set-up fails.
SupervisorMain(i) ==
  LET s == Setup(i.there, i.dst, i.fails) IN
  IF i.reset /\ ~s.ok THEN [starts |-> {}, resets |-> FALSE, files |-> s.files]
  ELSE [starts |-> IF i.remote THEN {"syncthing", "remote"} ELSE {"syncthing"}, resets |-> i.reset,
        files |-> IF i.reset THEN s.files ELSE i.there]
=============================================================================
