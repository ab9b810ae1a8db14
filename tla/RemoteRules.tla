------------------------------ MODULE RemoteRules ----------------------------
(***************************************************************************)
(* Cases of RemoteRun and what has to hold of them.                        *)
(***************************************************************************)
EXTENDS RuleCase, Integers, Sequences, FiniteSets, SequencesExt, Functions

R == INSTANCE RemoteRun

-----------------------------------------------------------------------------
(* Inputs.                                                                   *)

ProxyObjects ==
  {[kind |-> k, labels |-> l, template |-> t, pod |-> p] :
     p \in {[search |-> <<>>, env |-> NoMap], [search |-> <<"own">>, env |-> [V |-> "v", OKTETO_DIVERTED_ENVIRONMENT |-> "other"]]},
     k \in {"workload", "controller", "custom", "other", "list", "unknown", "unreadable", "empty"},
     l, t \in {NoMap, "mine" :> "m", R!DeployedBy :> "former"}}
ProxyInputs ==
  {[cfg |-> c, divert |-> d,
    r |-> [method |-> m, type |-> t, token |-> k, upgrade |-> s, object |-> o]] :
     c \in {[current |-> "c", userToken |-> "user", server |-> "cluster", caFile |-> f, ca |-> "cluster", insecure |-> i, token |-> b] :
              f \in {"", "file"}, i \in BOOLEAN, b \in {"user"}} \cup {[current |-> "c", userToken |-> "user", server |-> "cluster", caFile |-> "", ca |-> "cluster", insecure |-> FALSE, token |-> ""]},
     d \in {"none", "nginx", "istio"}, m \in {"GET", "PUT", "POST", "PATCH", "DELETE"}, t \in {"json", "protobuf", "apply"},
     k \in {"session", "user"}, s \in BOOLEAN, o \in {x \in ProxyObjects : x.labels = x.template}}

RemoteCommands ==
  UNION {[1..n -> {[name |-> x, ok |-> k, file |-> f] : x \in {"a", "b"}, k \in BOOLEAN, f \in {<<>>, [V |-> "file"], [V |-> "file2", W |-> "w"], R!Malformed}}] : n \in 0..2}
PlainSection == [given |-> [V |-> "given"], platform |-> NoMap, gateway |-> NoMap, fail |-> "none", force |-> FALSE,
                 start |-> "none", encoded |-> "entity", ssh |-> [host |-> "h", port |-> "p", socket |-> "s"], kind |-> "test", commands |-> <<>>]
RemoteSectionInputs ==
  {[PlainSection EXCEPT !.commands = c, !.kind = k, !.force = f] : c \in RemoteCommands, k \in {"deploy", "destroy", "test"}, f \in BOOLEAN}
    \cup {[PlainSection EXCEPT !.platform = p, !.gateway = g, !.kind = k, !.commands = <<[name |-> "a", ok |-> TRUE, file |-> <<>>]>>] :
            p \in {R!Malformed, [V |-> "platform"], [KUBECONFIG |-> "platform", GATEWAY_NAME |-> "platform"]},
            g \in {NoMap, [GATEWAY_NAME |-> "g", GATEWAY_NAMESPACE |-> ""], [GATEWAY_NAME |-> "g", GATEWAY_NAMESPACE |-> "n"]}, k \in {"deploy", "destroy", "test"}}
    \cup {[PlainSection EXCEPT !.fail = f, !.start = s, !.encoded = e, !.kind = k, !.ssh.host = h, !.commands = <<[name |-> "a", ok |-> o, file |-> <<>>]>>] :
            f \in {"none", "client", "kubeconfig", "divert", "helm", "env dir", "env file"},
            s \in {"none", "name", "context", "okteto", "kubeconfig file", "deployable", "runner"},
            e \in {"", "entity", "not base64", "not yaml"}, k \in {"deploy", "destroy", "test"}, h \in {"", "h"}, o \in BOOLEAN}

RemoteValues == {NoMap} \cup {k :> R!Plain(t) : k \in {"A", "B"}, t \in {"word", "with blank", "two lines", "other"}}
ClusterMetadata == [fails |-> {}, hasCertificate |-> TRUE, serverIP |-> "s", buildkitIP |-> "", publicDomain |-> "", agent |-> "agent"]
RunnerInputs ==
  {[p |-> [build |-> b, dependencies |-> d, specific |-> s, nth |-> n, image |-> "", key |-> "", kind |-> "test", artifacts |-> TRUE, context |-> <<"c">>], fail |-> "none"] :
     b, d, s \in RemoteValues, n \in 1..2}
    \cup {[p |-> [build |-> NoMap, dependencies |-> NoMap, specific |-> NoMap, nth |-> 1, image |-> i, key |-> k, kind |-> c, artifacts |-> a, context |-> <<"c">>], fail |-> f] :
            i \in {"", "image"}, k \in {"", "const"}, c \in {"test", "deploy", "destroy", "other"}, a \in BOOLEAN, f \in ToSet(R!RunnerSteps) \cup {"none"}}

CacheNames == {<<"a">>, <<"b">>, <<"a", "-", "b">>, <<"b", "-", "a">>}
CachePaths == {<<"/", "a">>, <<"/", "b", "-", "a">>, <<"/", "a", "-", "/", "a">>}
CacheInputs == {[repo |-> <<"r">>, a |-> a, b |-> b] : a, b \in [manifest : CacheNames, test : CacheNames, path : CachePaths]}

RemoteDirs == {<<"home">>, <<"home", "a">>}
ManifestPaths == {<<"okteto.yml">>, <<"a", "okteto.yml">>, <<".okteto", "okteto.yml">>, <<"a", ".okteto", "okteto.yml">>, <<"home", "a", "okteto.yml">>}
DirectoryInputs == [cwd : RemoteDirs, manifest : ManifestPaths, is : {"file", "directory", "missing"}]

KnownHostsInputs == [api : {"ok", "fails"}, enabled : BOOLEAN, content : {"", "platform"}, writes : BOOLEAN, user : BOOLEAN]
PrepareInputs == [forced : BOOLEAN, flagSet : BOOLEAN, flag : BOOLEAN, image : {"", "image"}, remote : {"unset", "true", "false"}, isRemote : BOOLEAN,
                  empty : BOOLEAN, name : {"n"}, force : BOOLEAN, vars : {<<>>, <<"v">>, <<"v", "malformed">>}, cwd : {"ok", "fails"}, rules : {"ok", "fails"},
                  run : {"ok", "command", "user error", "other"}]

TestNames == {"t", "u", "v"}
TestGraphs == UNION {[ts -> SUBSET (ts \cup {"missing"})] : ts \in SUBSET TestNames}
PlainTests == [fail |-> "none", chosen |-> {}, deploy |-> FALSE, hasDeploy |-> TRUE, deployFails |-> FALSE, buildFails |-> FALSE,
               needs |-> NoMap, passes |-> NoMap, images |-> NoMap, services |-> [svc |-> TRUE]]
TestInputs ==
  {[PlainTests EXCEPT !.needs = n, !.chosen = c, !.passes = [t \in TestNames |-> t \notin f], !.images = [t \in TestNames |-> "image"]] :
     n \in {g \in TestGraphs : \A t \in DOMAIN g : t \notin g[t]}, c \in {{}, {"t"}, {"u", "v"}, {"nobody"}}, f \in {{}, {"t"}, {"u"}}}
    \cup {[PlainTests EXCEPT !.fail = f, !.deploy = d, !.hasDeploy = h, !.deployFails = x, !.buildFails = b, !.needs = [t |-> {}, u |-> {"t"}],
             !.passes = [t \in TestNames |-> TRUE], !.images = [t |-> "svc", u |-> i], !.services = s] :
            f \in {"none", "context", "namespace", "manifest"}, d, h, x, b \in BOOLEAN,
            i \in {"image", "svc", "svc2", "okteto build missing"}, s \in [{"svc", "svc2"} -> BOOLEAN]}

\* Processes 2 to 4 below the first one; clean is one of them.
CleanTables ==
  {[p \in 1..4 |-> IF p = 1 THEN [exe |-> "supervisor", parent |-> 0] ELSE IF p = 4 THEN [exe |-> "clean", parent |-> c] ELSE [exe |-> e[p], parent |-> q[p]]] :
     e \in [{2, 3} -> {"bash", "tmux", "syncthing", "unreadable"}], q \in {f \in [{2, 3} -> 0..3] : f[2] # 2 /\ f[3] # 3 /\ ~(f[2] = 3 /\ f[3] = 2)}, c \in 1..3}
CleanInputs == {[table |-> t, order |-> o, atOnce |-> a] : t \in CleanTables, o \in {f \in [1..4 -> 1..4] : IsInjective(f)}, a \in BOOLEAN}
SessionInputs == [pty : BOOLEAN, starts : BOOLEAN, exit : {0, 1, 7, -1}, drained : {"before", "soon", "late", "never"}, agent : {"no", "ok", "fails"}, raw : {"", "command"}]
ServerInputs == [file : {<<"missing">>, <<"unreadable">>} \cup {<<"keys", k>> : k \in UNION {[1..n -> {"mine", "other", "malformed"}] : n \in 0..2}},
                 shells : SUBSET {"bash", "sh"}, port : {"", "text", "low", "high"}]
SetupInputs == [there : SUBSET ToSet(R!SyncthingFiles), dst : {"directory", "missing", "file"}, fails : {"", "chmod"} \cup ToSet(R!SyncthingFiles),
                reset : BOOLEAN, remote : BOOLEAN]

\* Variables have a prefix and a name; a host of the manifest may be one of the cluster.
EnvironmentInputs ==
  [kind : {"deploy", "destroy", "test"}, old : {"missing", "no stat", "unreadable", "x"}, rules : {<<>>, <<"x">>, <<"not x">>},
   names : SUBSET {<<"OKTETO", "HOME">>, <<"OKTETO", "TOKEN">>, <<"OTHER", "HOME">>},
   serverIP : {"", "s"}, buildkitIP : {"", "b"}, publicDomain : {"", "domain"}, agent : {"", "agent"},
   defined : {<<>>, <<<<"own", "1">>>>, <<<<"kubernetes", "1">>>>}]

RemoteParts == {"remote environment", "remote proxy", "remote section", "remote build", "remote cache", "remote directory", "remote hosts", "remote prepare", "remote tests",
                "clean", "ssh session", "ssh server", "syncthing setup"}
RemoteInputs(p) ==
  CASE p = "remote proxy" -> ProxyInputs [] p = "remote section" -> RemoteSectionInputs [] p = "remote build" -> RunnerInputs
    [] p = "remote environment" -> EnvironmentInputs
    [] p = "remote cache" -> CacheInputs [] p = "remote directory" -> DirectoryInputs [] p = "remote hosts" -> KnownHostsInputs
    [] p = "remote prepare" -> PrepareInputs [] p = "remote tests" -> TestInputs [] p = "clean" -> CleanInputs
    [] p = "ssh session" -> SessionInputs [] p = "ssh server" -> ServerInputs [] p = "syncthing setup" -> SetupInputs

\* What the commands send with the kubeconfig that they are given.
ProxyHandler(i) == [name |-> "env", divert |-> i.divert, token |-> "session", namespace |-> "dev", shared |-> IF i.divert = "nginx" THEN "staging" ELSE ""]
RemoteResult(p, i) ==
  CASE p = "remote proxy" -> [answer |-> R!getProxyHandler(i.cfg, ProxyHandler(i), i.r), cfg |-> R!Modify(i.cfg, [token |-> "session", port |-> "proxy"])]
    [] p = "remote section" -> R!RunE(i.kind, i)
    [] p = "remote build" -> R!Run(i.p, i.fail)
    [] p = "remote environment" -> [ignored |-> R!createDockerignoreFileWithFilesystem(i.kind, i.old, i.rules),
                                    vars |-> R!getOktetoPrefixEnvVars([k \in i.names |-> "v"]), hosts |-> R!HostsOf(i, i.defined)]
    [] p = "remote cache" -> [a |-> R!generateCacheID(i.repo, i.a.manifest, i.a.test, i.a.path), b |-> R!generateCacheID(i.repo, i.b.manifest, i.b.test, i.b.path)]
    [] p = "remote directory" -> LET u == R!UpdateCWDtoManifestPath(i.cwd, i.manifest)
                                 IN [original |-> R!GetOriginalCWD(u.cwd, i.manifest), context |-> R!getContextPath(i.cwd, i.manifest, i.is), at |-> u]
    [] p = "remote hosts" -> R!SecretsOf(ClusterMetadata, i)
    [] p = "remote prepare" -> [deploy |-> R!Deploy(i), destroy |-> R!Destroy(i), there |-> R!ShouldRunInRemote(i), destroyThere |-> R!shouldRunInRemote(i)]
    [] p = "remote tests" -> R!doRun(i)
    [] p = "clean" -> R!CleanMain(i.table, i.order, 4, i.atOnce)
    [] p = "ssh session" -> R!connectionHandler(i)
    [] p = "ssh server" -> R!RemoteMain(i)
    [] p = "syncthing setup" -> R!SupervisorMain(i)

-----------------------------------------------------------------------------
(* Properties.                                                               *)

\* Only what has the token of the proxy reaches the cluster, and that token does
\* not; with the kubeconfig that they are given, the commands have it and trust the
\* proxy (deployable/proxy.go, kubeconfig.go).
ProxyIsTheOnlyWay ==
  Has("remote proxy") =>
    /\ out.answer.sent # R!Malformed => in.r.token = "session" /\ out.answer.sent.token = in.cfg.token
    /\ out.cfg.userToken = "session" /\ out.cfg.server = "proxy" /\ (out.cfg.ca = "proxy" \/ out.cfg.insecure) /\ out.cfg.caFile = ""

\* What is created or applied through the proxy carries the name of the environment,
\* its pods too, and keeps its own labels; its pods look names up in the shared
\* namespace first and know who is diverted, and keep what they have; only what is
\* not an object and patches other than apply pass as they are.
AppliedIsLabelled ==
  Has("remote proxy") /\ out.answer.sent # R!Malformed =>
    LET o == in.r.object sent == out.answer.sent.object
        written == in.r.method \in {"PUT", "POST"} \/ (in.r.method = "PATCH" /\ in.r.type = "apply")
        object == o.kind \in {"workload", "controller", "other"} \/ (o.kind = "custom" /\ in.r.type # "protobuf")
        own(labels) == Restrict(labels, DOMAIN labels \ {R!DeployedBy})
    IN /\ own(sent.labels) = own(o.labels) /\ own(sent.template) = own(o.template)
       /\ written /\ object => R!DeployedBy \in DOMAIN sent.labels /\ sent.labels[R!DeployedBy] = "env"
       /\ written /\ o.kind = "workload" =>
            /\ R!DeployedBy \in DOMAIN sent.template /\ sent.template[R!DeployedBy] = "env"
            /\ in.divert # "none" => sent.pod.env["OKTETO_DIVERTED_ENVIRONMENT"] = "dev"
            /\ in.divert = "nginx" => Head(sent.pod.search) = "staging"
            /\ \A v \in DOMAIN o.pod.env \ {"OKTETO_DIVERTED_ENVIRONMENT"} : sent.pod.env[v] = o.pod.env[v]
            /\ \A n \in Range(o.pod.search) : n \in Range(sent.pod.search)
            /\ in.divert = "none" => sent.pod = o.pod
       /\ ~(written /\ object) => sent = o

\* A command sees for each variable the last value: of the files that the commands
\* before it wrote, else of the gateway, the platform, okteto and the user, and none
\* that a later command writes.
CommandsSeeTheirEnvironment ==
  Has("remote section") /\ in.kind # "destroy" =>
    \A n \in DOMAIN out.run.ran :
      LET seen == out.run.ran[n].vars
          files(k) == {m \in 1..n - 1 : in.commands[m].file # R!Malformed /\ k \in DOMAIN in.commands[m].file}
      IN /\ \A m \in 1..n - 1 : in.commands[m].ok
         /\ \A k \in DOMAIN seen \cup {"V"} :
              LET fs == files(k) IN
              /\ fs # {} => seen[k] = in.commands[CHOOSE m \in fs : \A l \in fs : l <= m].file[k]
              /\ fs = {} /\ k = "V" => seen[k] = IF in.platform # R!Malformed /\ "V" \in DOMAIN in.platform THEN "platform" ELSE "given"
              /\ fs = {} => k \in {"V", "KUBECONFIG", "NAMESPACE", "SUBDOMAIN", "GATEWAY_NAME", "GATEWAY_NAMESPACE"} /\ seen[k] # ""

\* A forced destroy runs every command and still fails when one of them did; any
\* other stops at the first that fails.
ForcedDestroyReports ==
  Has("remote section") /\ in.kind = "destroy" /\ out.run.err \notin {"start", "helm"} =>
    LET failing == {n \in DOMAIN in.commands : ~in.commands[n].ok} IN
    /\ out.run.err # "" <=> failing # {}
    /\ in.force => Len(out.run.ran) = Len(in.commands)
    /\ ~in.force => \A n \in failing : Len(out.run.ran) <= n

\* The kubeconfig with the token of the user is removed however a remote command
\* ends, and no file stays once a command was run.
TemporaryFilesAreRemoved ==
  Has("remote section") =>
    /\ "kubeconfig file" \notin out.left
    /\ out.run.ran # <<>> => out.left = {}
    /\ "kubeconfig" \in out.left => in.fail = "divert"
    /\ out.agent => out.run.err # "start"

\* The container has the variables of the builds and of the dependencies as they are,
\* the dependencies' first; the file is invalid only for a blank in a value of the
\* command, or in one of the builds from the second container on.
DockerEnvIsWhatWasGiven ==
  Has("remote build") =>
    LET p == in.p blank(m) == \E k \in DOMAIN m : m[k].text = "with blank"
        broken(m) == \E k \in DOMAIN m : m[k].text \in {"with blank", "two lines"}
        text(v) == IF v.text = "two lines" THEN <<"escaped">> ELSE <<v.text>>
    IN /\ out.env = R!Failed <=> broken(p.specific) \/ (p.nth = 2 /\ blank(p.build))
       /\ out.env # R!Failed =>
            \A k \in {"A", "B"} : CASE k \in DOMAIN p.dependencies -> out.env[2][k] = text(p.dependencies[k])
                                   [] k \notin DOMAIN p.dependencies /\ k \in DOMAIN p.specific -> out.env[2][k] = text(p.specific[k])
                                   [] k \notin DOMAIN p.dependencies \cup DOMAIN p.specific /\ k \in DOMAIN p.build -> out.env[2][k] = text(p.build[k])
                                   [] OTHER -> k \notin DOMAIN out.env[2]

\* The Dockerfile of a remote command, with its variables, is removed when the build
\* ends, well or not.
DockerfileIsRemoved == Has("remote build") /\ out.built => out.left = {}

\* The caches of two tests of a manifest are apart.
CachesAreOfOneTest == Has("remote cache") /\ out.a = out.b /\ in.a.manifest = in.b.manifest => in.a = in.b

\* A remote command is back in the directory of the user, unless the manifest is in an
\* .okteto below it, and the context of a manifest is the directory where it runs.
OriginalDirectoryIsFound ==
  Has("remote directory") =>
    /\ in.manifest # <<"a", ".okteto", "okteto.yml">> => out.original = in.cwd
    /\ in.is = "file" => out.context = out.at.cwd
    /\ out.at.cwd \o out.at.manifest = in.cwd \o in.manifest

\* The known hosts of the platform are used whenever they are on, those of the user
\* only when they are off or unknown.
KnownHostsOfThePlatform ==
  Has("remote hosts") =>
    LET on == in.api = "ok" /\ in.enabled IN
    /\ on => ~Contains(out, "user") /\ (in.writes => Last(out) = in.content)
    /\ ~on => (in.user <=> Last(out) = "user")

\* Without being told, a section is destroyed where it was deployed; what was not
\* prepared is not run.
DestroyedWhereDeployed ==
  Has("remote prepare") =>
    /\ ~in.isRemote => (out.there <=> out.destroyThere)
    /\ out.deploy.ran => in.cwd = "ok" /\ in.rules = "ok" /\ ~in.empty
    /\ out.deploy.result = "ok" => out.deploy.ran /\ in.run = "ok"
    /\ ~in.empty => out.deploy = out.destroy

\* A test runs after those it needs, none runs after one that failed or before what
\* it needs is built and deployed, and the command succeeds only when all passed; a manifest
\* without tests passes whatever is asked.
TestsFollowTheirNeeds ==
  Has("remote tests") =>
    \A r \in out :
      /\ \A n \in DOMAIN r.ran : in.needs[r.ran[n]] \subseteq {r.ran[m] : m \in 1..n - 1}
      /\ \A n \in DOMAIN r.ran : ~in.passes[r.ran[n]] => n = Len(r.ran)
      /\ r.ran # <<>> => /\ \A t \in ToSet(r.ran) : in.images[t] \in DOMAIN in.services /\ ~in.services[in.images[t]] => in.images[t] \in r.built
                         /\ in.deploy /\ in.hasDeploy => r.deployed /\ ~in.deployFails
      /\ r.err = "" /\ DOMAIN in.needs # {} => in.chosen \subseteq ToSet(r.ran) /\ (in.chosen = {} => ToSet(r.ran) = DOMAIN in.needs) /\ \A t \in ToSet(r.ran) : in.passes[t]

\* clean kills all that is left of a former session but the services of okteto,
\* itself and its parent, and what runs below screen or tmux, in whatever order the
\* processes are listed and go.
CleanSparesSessions ==
  Has("clean") =>
    LET parents(p) == LET q == in.table[p].parent IN
                      {q} \cup (IF q \in DOMAIN in.table THEN {in.table[q].parent} ELSE {})
        inSession(p) == \E q \in ({p} \cup parents(p)) \cap (2..4) : in.table[q].exe = "tmux"
        spared == {p \in 1..4 : p \in {1, 4, in.table[4].parent} \/ in.table[p].exe \in {"supervisor", "syncthing"} \/ inSession(p)}
    IN out = 1..4 \ spared

\* The client of a session gets the code of its command, and zero only when the
\* command succeeded; without a terminal it has all its output by then.
SessionsReportTheCommand ==
  Has("ssh session") =>
    /\ out.status = <<0>> <=> in.starts /\ in.exit = 0 /\ in.agent # "fails" /\ out.ends
    /\ out.status # <<>> /\ in.starts => out.status = <<in.exit>>
    /\ out.ends /\ ~in.pty /\ in.agent # "fails" => out.whole

\* A server with a file of keys accepts exactly the keys of the file, and does not
\* serve when it cannot read one of them.
KeysGuardTheServer ==
  Has("ssh server") =>
    /\ in.file[1] = "keys" => /\ out.serves => out.accepts = ToSet(in.file[2]) \cap {"mine", "other"}
                              /\ out.serves => "malformed" \notin ToSet(in.file[2]) /\ in.file[2] # <<>>
    /\ out.serves /\ in.file[1] # "keys" => in.file[1] = "missing"

\* syncthing is reset and started only with all the files that it needs, and those
\* that were there stay.
SyncthingStartsConfigured ==
  Has("syncthing setup") =>
    /\ in.reset /\ out.starts # {} => ToSet(R!SyncthingFiles) = out.files /\ in.dst = "directory"
    /\ in.dst = "directory" => in.there \subseteq out.files

\* A remote command sees the machine that it left: the rules of .oktetoignore are the
\* last to speak, a host of the manifest is the last of its name, the variables of the
\* user go with it but not the folders of the machine, and no name leads to a cluster
\* whose address is not known (remote.go).
RemoteEnvironmentIsWhole ==
  Has("remote environment") =>
    LET hosts == out.hosts
        last(name) == CHOOSE k \in DOMAIN hosts : hosts[k][1] = name /\ \A j \in DOMAIN hosts : hosts[j][1] = name => j <= k
    IN /\ out.ignored.ok => IsSuffix(in.rules, out.ignored.rules)
       /\ in.kind = "test" => out.ignored.ok /\ out.ignored.rules = in.rules
       /\ ~out.ignored.ok => in.old \in {"no stat", "unreadable"}
       /\ \A k \in DOMAIN in.defined : hosts[last(in.defined[k][1])] = in.defined[k]
       /\ \A k \in DOMAIN hosts : hosts[k][2] # ""
       /\ DOMAIN out.vars = in.names \cap {<<"OKTETO", "TOKEN">>}
=============================================================================
