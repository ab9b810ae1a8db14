---------------------------- MODULE PlatformRules ----------------------------
(***************************************************************************)
(* Cases of the client of the API (servers of every age, broken            *)
(* connections) and of the choice of a context, and what has to hold of    *)
(* them.                                                                   *)
(***************************************************************************)
EXTENDS Integers, Sequences, FiniteSets, SequencesExt, FiniteSetsExt, RuleCase

A == INSTANCE ApiClient

-----------------------------------------------------------------------------
(* Inputs: the client of the API.                                           *)

Optional == {"dependencies", "isDependency", "labels", "workflowId", "parentWorkflowId"}
Orders == {<<"dependencies", "isDependency", "labels", "workflowId", "parentWorkflowId">>,
           <<"parentWorkflowId", "workflowId", "labels", "dependencies", "isDependency">>,
           <<"labels", "dependencies", "workflowId", "parentWorkflowId", "isDependency">>,
           <<"isDependency", "workflowId", "dependencies", "labels", "parentWorkflowId">>}
Answers == {A!Ok, <<"error", "conflict">>, <<"error", "not-authorized">>}
Servers == [knows : SUBSET Optional, order : Orders, answer : Answers, lost : 0..4]
Names(length) == [length : length, alphabet : BOOLEAN]
ApiDeployInputs ==
  {i \in [server : Servers, opts : [labels : BOOLEAN, parent : BOOLEAN, name : Names({1, 63, 64})], preview : BOOLEAN] :
     i.preview \/ i.opts.name = [length |-> 1, alphabet |-> TRUE]}

DestroyInputs ==
  [server : [knows : SUBSET {"destroyVolumes", "dependencies", "isDependency", "timeout", "labels"},
             order : {<<"destroyVolumes", "dependencies", "isDependency", "timeout", "labels">>},
             answer : Answers, lost : 0..2],
   kind : {"pipeline", "preview", "list", "list by labels"}]

ApiVariables == [name : {"OKTETO_ORIGIN", "x"}, value : {"user"}]
ApiVariableInputs == SeqOf(ApiVariables, 3)

Replies == {A!Ok, <<"field", "">>} \cup
           {<<"error", e>> : e \in {"connection refused", "unexpected EOF", "not-found", "namespace-not-found", "401",
                                    "401 expired", "423", "x509", "internal"}}
ReadInputs == Replies \X Replies

ResourceInputs ==
  [resources : {<<>>} \cup {<<[kind |-> "deployment", name |-> "a", by |-> b, status |-> "running"],
                              [kind |-> k, name |-> n, by |-> c, status |-> "error"]>> :
                            b \in {"app", "other", ""}, c \in {"app", "other"},
                            k \in {"deployment", "job"}, n \in {"a", "b"}},
   app : {"app", ""}, reply : Replies, client : BOOLEAN, preview : Replies]

Items == [name : {"certificate", "cliImage", "pipelineRunnerImage"}, value : {"", "good", "bad"}]
MetadataInputs == SeqOf(Items, 4)

ImageParts == [text : {"localhost", "x"}, colons : 0..2, dotted : BOOLEAN]
ImageInputs == {i \in [digests : 0..2, parts : SeqOf(ImageParts, 3) \ {<<>>}] :
                  \A n \in 1..Len(i.parts) - 1 : i.parts[n].colons < 2}

Addresses == [host : {"index", "reg", "ecr"}, path : {"", "v1", "v2", "app"}]
CredentialInputs == {[addresses |-> <<a, b, c>>, answers |-> f] :
                       a \in Addresses, b \in Addresses, c \in Addresses, f \in [1..3 -> {"error", "answer"}]}

ApiEndpointInputs ==
  [components : SeqOf([kind : {"deployment", "external"}, by : {"app", "other"}, urls : {<<>>, <<"u">>, <<"u", "v">>}], 3)]

ApiParts == {"api deploy", "api endpoints", "api destroy", "api variables", "api read", "api resources", "api metadata",
             "api image", "api credentials"}

ApiInputs(p) ==
  CASE p = "api deploy" -> ApiDeployInputs [] p = "api destroy" -> DestroyInputs
    [] p = "api variables" -> ApiVariableInputs [] p = "api read" -> ReadInputs
    [] p = "api resources" -> ResourceInputs [] p = "api metadata" -> MetadataInputs
    [] p = "api image" -> ImageInputs [] p = "api credentials" -> CredentialInputs
    [] p = "api endpoints" -> ApiEndpointInputs

ApiResult(p, i) ==
  CASE p = "api deploy" -> IF i.preview THEN A!DeployPreview(i.server, i.opts) ELSE A!Deploy(i.server, i.opts)
    [] p = "api destroy" -> CASE i.kind = "pipeline" -> A!Destroy(i.server)
                              [] i.kind = "preview" -> A!DestroyPreview(i.server)
                              [] OTHER -> A!ListPreviews(i.server, i.kind = "list by labels")
    [] p = "api variables" -> A!getDeployVariables(i, "cli")
    [] p = "api read" -> [env |-> A!GetExecutionEnv(i), hosts |-> A!GetKnownHostsConfig(i),
                          metadata |-> A!GetClusterMetadataOf(i), pod |-> A!GetLeastLoadedBuildKitPod(i),
                          credentials |-> A!GetRegistryCredentials(i), auth |-> A!Auth(i),
                          mutation |-> A!mutate(i)]
    [] p = "api resources" -> A!GetResourcesStatus(<<i.reply, i.reply>>, i.client, <<i.preview, i.preview>>,
                                                   i.resources, i.app)
    [] p = "api metadata" -> A!GetClusterMetadata(i)
    [] p = "api image" -> A!getRegistryAndRepositoryFromImage(i)
    [] p = "api credentials" -> A!ReadCredentials(i.addresses, i.answers)
    [] p = "api endpoints" -> [of |-> A!EndpointsOf(i.components, "app"), all |-> A!ListEndpoints(i.components)]

-----------------------------------------------------------------------------
(* Inputs: contexts.                                                         *)

Address(scheme, slash) == [scheme |-> scheme, host |-> "h", slash |-> slash]
Cluster == Address(TRUE, FALSE)
KubeName == [scheme |-> FALSE, host |-> "k", slash |-> FALSE]
KubeOfCluster == [scheme |-> FALSE, host |-> "kh", slash |-> FALSE]
Kubeconfig == [k |-> "", kh |-> "h"]
Flags == [context : {A!NoName, KubeName, KubeOfCluster} \cup {Address(a, b) : a, b \in BOOLEAN}, token : {"", "flag"}, ns : {"", "flag"},
          ctxCommand : BOOLEAN, okteto : {FALSE}]
Envs == [url : {A!NoName, Cluster}, context : {A!NoName, KubeName}, token : {"", "env"}, ns : {"", "env"}]
StoredContexts == {{}, {Cluster}, {KubeName}, {KubeName, Cluster}, {KubeOfCluster, Cluster}}
Stores == {[current |-> c, contexts |-> [n \in s |-> [okteto |-> n = Cluster, token |-> IF n = Cluster THEN "stored" ELSE "",
                                                      ns |-> IF n = Cluster THEN "stored" ELSE "kube"]]] :
             s \in StoredContexts, c \in {A!NoName, Cluster, KubeName, KubeOfCluster}}
OptionInputs == {i \in [flags : Flags, env : Envs, store : Stores, inCluster : BOOLEAN,
                        annotation : {{}, {Cluster}, {A!NoName}}] :
                   i.store.current = A!NoName \/ i.store.current \in DOMAIN i.store.contexts}

VariableMaps(v) == UNION {[s -> {v}] : s \in SUBSET {"x", "y", "z"}}
ContextVariableInputs == [local : VariableMaps("local"), file : [failed : BOOLEAN, vars : VariableMaps("file")],
                          platform : VariableMaps("platform")]

Versions == {<<>>} \cup ((1..2) \X (0..2))
VersionInputs == [current : Versions, recommended : Versions, min : Versions]

NamespaceReplies == {"ok", "namespace not found", "not found", "error"}
AccessInputs == [namespace : NamespaceReplies, preview : NamespaceReplies, withinDeploy : BOOLEAN, answer : BOOLEAN]

SpaceInputs == [current : {"n", "m"}, namespace : {"n"}, personal : {"", "me", "n"}, username : {"me"}, members : BOOLEAN,
                use : BOOLEAN, fails : {"", "create", "invite", "save"}, delete : {"ok", "not found", "error"},
                watch : {"ok", "error"}]

KubeconfigOf(users) == [clusters |-> [c \in {"other"} |-> "other"], users |-> users,
                        contexts |-> [c \in {"other"} |-> [user |-> "someone", ns |-> "n", okteto |-> FALSE]], current |-> "other"]
KubeconfigInputs ==
  [cfg : {KubeconfigOf([u \in s |-> [token |-> "old", exec |-> e]]) : s \in {{"someone"}, {"someone", "u"}}, e \in BOOLEAN},
   static : BOOLEAN, available : BOOLEAN, kubetoken : {"", "error", "dynamic"}, personal : {"", "me"}, skip : BOOLEAN]

ClientInputs == [token : {"", "t"}, url : BOOLEAN, insecure : BOOLEAN, cert : {"", "not base64", "not pem", "not x509", "good"},
                 asked : {"", "A", "B"}, given : {"", "given"}, current : {"", "A"}, known : SUBSET {"A", "B"}]

SelectorInputs ==
  {[store |-> [c \in s |-> [okteto |-> c < 3]], cfg |-> [c \in k |-> [okteto |-> o]], only |-> only, current |-> current] :
     s \in SUBSET {1, 2, 3}, k \in SUBSET {3, 4}, o \in BOOLEAN, only \in BOOLEAN, current \in 0..4}

ContextParts == {"ctx options", "ctx variables", "ctx version", "ctx access", "ctx namespaces", "ctx kubeconfig", "ctx client",
                 "ctx selector"}
ContextInputs(p) ==
  CASE p = "ctx options" -> OptionInputs [] p = "ctx variables" -> ContextVariableInputs [] p = "ctx version" -> VersionInputs
    [] p = "ctx access" -> AccessInputs [] p = "ctx namespaces" -> SpaceInputs [] p = "ctx kubeconfig" -> KubeconfigInputs
    [] p = "ctx client" -> ClientInputs [] p = "ctx selector" -> SelectorInputs

ClientStore(i) == [current |-> i.current, contexts |-> [c \in i.known \cup ({i.current} \ {""}) |-> [token |-> c]]]
ContextResult(p, i) ==
  CASE p = "ctx options" -> [run |-> A!RunOptions(i.flags, i.env, i.store, Kubeconfig, i.annotation, i.inCluster),
                             kubetoken |-> A!getCtxResource(i.flags, i.env, i.store)]
    [] p = "ctx variables" -> A!exportPlatformVariablesToEnv(A!loadDotEnv(i.local, i.file), i.platform)
    [] p = "ctx version" -> A!checkCLIVersion(i.current, i.recommended, i.min)
    [] p = "ctx access" -> A!ShouldCreateNamespace(A!HasAccessToOktetoClusterNamespace(i.namespace, i.preview), i.withinDeploy, i.answer)
    [] p = "ctx namespaces" -> [calls |-> A!CreateNamespace(i, i.fails), deleted |-> A!ExecuteDeleteNamespace(i, i.delete, i.watch)]
    [] p = "ctx kubeconfig" ->
         LET token == A!updateOktetoContextToken(i.static, i.kubetoken, i.personal)
             cfg == A!AddOktetoCredentialsToCfg(i.cfg, "c", "u", "ns", token, i.skip)
         IN [memory |-> cfg, written |-> IF i.skip THEN cfg ELSE A!updateOktetoContextExec(cfg, "u", i.static, i.available)]
    [] p = "ctx client" -> [trusts |-> A!newOktetoHttpClient(i.token, i.url, i.insecure, i.cert),
                            client |-> A!NewOktetoClient([context |-> i.asked, token |-> i.given], ClientStore(i))]
    [] p = "ctx selector" -> LET options == A!getAvailableContexts(i.store, i.cfg, i.only)
                             IN [options |-> options, position |-> A!getInitialPosition(options, i.current)]

-----------------------------------------------------------------------------
(* Properties: the client of the API.                                       *)

Valid == in.preview => in.opts.name.length <= 63 /\ in.opts.name.alphabet
LastSent == out.log[Len(out.log)]

\* A deploy that the server may have started is not sent again: every request
\* but the last was refused for one of its arguments, and none is sent for a name
\* that is not valid (pipeline.go Deploy,
\* preview.go DeployPreview).
DeploysAreSentOnce ==
  Has("api deploy") =>
    /\ (out.log = <<>>) <=> ~Valid
    /\ \A n \in 1..Len(out.log) - 1 : in.server.lost # n /\ ~ out.log[n] \subseteq in.server.knows

\* A server of any age is asked for all that it can do: the request that it
\* accepts holds each group of arguments that it knows, except the parent, which
\* is dropped with any of them. Left out: a server that knows one of dependencies
\* and isDependency, or names isDependency first.
DeploysUseWhatIsKnown ==
  (/\ Has("api deploy") /\ Valid /\ in.server.lost = 0 /\ in.server.answer = A!Ok
   /\ in.opts.labels => "labels" \in in.server.knows
   /\ in.preview \/ ("dependencies" \in in.server.knows <=> "isDependency" \in in.server.knows)
   /\ in.preview \/ in.server.order[1] # "isDependency") =>
     LET all == (IF in.preview THEN {"dependencies"} ELSE A!PipelineDependencies) \cup {"workflowId"}
                \cup (IF in.opts.labels THEN {"labels"} ELSE {})
     IN /\ out.outcome = A!Ok
        /\ LastSent \ {"parentWorkflowId"} = all \cap in.server.knows
        /\ "parentWorkflowId" \in LastSent <=>
             ~in.preview /\ in.opts.parent /\ all \cup {"parentWorkflowId"} \subseteq in.server.knows

\* Labels are never given up to make a deploy succeed: without them the
\* environment would be missed by every later command that selects by label.
LabelsAreNotDropped ==
  Has("api deploy") /\ in.opts.labels => \A n \in DOMAIN out.log : "labels" \in out.log[n]

\* No request to destroy a pipeline lets the server choose what becomes of the
\* volumes, and a listing by labels never becomes a listing of everything.
FallbacksKeepTheirMeaning ==
  Has("api destroy") =>
    /\ in.kind = "pipeline" => \A n \in DOMAIN out.log : "destroyVolumes" \in out.log[n]
    /\ in.kind = "list by labels" => \A n \in DOMAIN out.log : "labels" \in out.log[n]

\* The origin of a deploy is told once, and the user's own is kept.
OriginIsToldOnce ==
  Has("api variables") =>
    LET origins(s) == SelectSeq(s, LAMBDA v : v.name = "OKTETO_ORIGIN") IN
    /\ IsPrefix(in, out)
    /\ origins(out) = IF origins(in) = <<>> THEN <<A!Origin("cli")>> ELSE origins(in)

\* A connection that broke once does not fail a query, and a field that an old
\* server does not have is no failure either; every other error of the reply that
\* counts is reported, and a mutation never counts on a second reply.
FailuresAreTold ==
  Has("api read") =>
    LET broken(r) == r[2] \in {"connection refused", "unexpected EOF"}
        last == IF broken(in[1]) THEN in[2] ELSE in[1]
        old == last[1] = "field"
    IN /\ \A r \in {out.env, out.hosts, out.metadata} :
            /\ A!IsOk(r.outcome) <=> A!IsOk(last) \/ old
            /\ (r.value = "answer") <=> ~old
       /\ A!IsOk(out.pod.outcome) <=> A!IsOk(last)
       /\ A!IsOk(out.credentials.outcome) <=> A!IsOk(last)
       /\ A!IsOk(out.mutation) <=> A!IsOk(in[1])
       /\ A!IsOk(out.auth) <=> A!IsOk(in[1])

\* The statuses are of the resources that the application deployed; only the
\* fallback to a preview, for an application without a name, takes them all.  What the
\* namespace could not answer is an answer only if the preview could.
StatusesAreOfTheApplication ==
  Has("api resources") =>
    LET mine == {n \in DOMAIN in.resources : in.resources[n].by = in.app}
        missing == A!IsNotFound(A!translateAPIErr(in.reply))
        all == missing /\ in.app = ""
    IN /\ A!IsOk(out.outcome) <=> A!IsOk(in.reply) \/ (missing /\ in.client /\ A!IsOk(in.preview))
       /\ A!IsOk(out.outcome) =>
            DOMAIN out.status = {<<in.resources[n].kind, in.resources[n].name>> :
                                   n \in IF all THEN DOMAIN in.resources ELSE mine}

\* Metadata that is accepted names the image of the runner, and the repository of
\* the CLI is that of its image.
MetadataIsWhole ==
  Has("api metadata") /\ ~out.failed =>
    /\ out.runner # ""
    /\ out.repository = IF out.cliImage = "" THEN "before" ELSE out.cliImage

\* The repository of an image is its own repository, has no tag, and starts with
\* a registry.
RepositoriesAreStable ==
  Has("api image") /\ out # A!NoRepository =>
    /\ A!getRegistryAndRepositoryFromImage([digests |-> 0, parts |-> out]) = out
    /\ out[Len(out)].colons = 0 /\ A!IsDomain(out[1])
    /\ Len(in.parts) > 1 /\ A!IsDomain(in.parts[1]) /\ in.parts[1] # A!DockerIo => Len(out) = Len(in.parts)

\* Two addresses share an answer only when they are of the same registry, a
\* registry that answered is not asked again, and a failure is not remembered.
CredentialsAreOfTheirRegistry ==
  Has("api credentials") =>
    \A m, n \in 1..3 :
      LET index(a) == IF a.host = "index" THEN IF a.path = "v2" THEN "v2" ELSE "v1" ELSE a.host
          same == index(in.addresses[m]) = index(in.addresses[n])
      IN m < n /\ out.results[m] # A!Failed =>
           /\ same => out.results[n] = out.results[m]
           /\ ~same => out.results[n] # out.results[m]

\* The addresses of an application are those of its own components, each of them
\* also an address of the environment, which names an address once.
EndpointsAreOfTheApplication ==
  Has("api endpoints") =>
    /\ {out.of[n][1] : n \in DOMAIN out.of} \subseteq out.all
    /\ \A u \in {"u", "v"}, external \in BOOLEAN :
         (\E n \in DOMAIN out.of : out.of[n] = <<u, external>>) <=>
         \E n \in DOMAIN in.components : /\ in.components[n].by = "app" /\ u \in ToSet(in.components[n].urls)
                                         /\ (in.components[n].kind = "external") = external

-----------------------------------------------------------------------------
(* Properties: contexts.                                                     *)

\* Flags win over the environment and that over the store, and what is taken from
\* the store is of the context that is used, not of the current one (use.go Run,
\* options.go). A context of Kubernetes is left for a cluster of Okteto only if it is the
\* one of that cluster, with the token of the cluster; its own namespace is kept
\* (create.go:110). A token of the cluster is asked for the context that was named.
OptionsAreOfTheContext ==
  Has("ctx options") /\ out.run.context \notin {A!Invalid, A!NoName} =>
    LET r == out.run
        first == IF in.flags.context # A!NoName THEN in.flags.context
                 ELSE IF in.env.url # A!NoName THEN in.env.url
                 ELSE IF in.env.context # A!NoName THEN in.env.context ELSE in.store.current
        switched == r.context.host # first.host
        stored == in.store.contexts
        owner == IF switched /\ first \in DOMAIN stored /\ ~in.flags.ctxCommand THEN first ELSE r.context
        Pick(flag, env, values) == IF flag # "" THEN {flag} ELSE IF env # "" THEN {env} ELSE values
    IN /\ switched => /\ r.okteto /\ A!isValidCluster(first, Kubeconfig)
                      /\ Kubeconfig[first.host] = r.context.host \/ r.context \in in.annotation
       /\ r.ns \in Pick(in.flags.ns, in.env.ns, {"", IF owner \in DOMAIN stored THEN stored[owner].ns ELSE ""})
       /\ r.token \in Pick(in.flags.token, in.env.token,
                           {IF r.context \in DOMAIN stored THEN stored[r.context].token ELSE ""})
       /\ in.env.url = A!NoName /\ in.env.context = A!NoName => out.kubetoken.context.host = first.host

\* A known cluster is found under each spelling of its address and never becomes a
\* second context; one without a scheme but with a slash is not found.
SpellingsMeet ==
  Has("ctx options") /\ Cluster \in DOMAIN in.store.contexts /\ in.flags.context.host = "h" /\ ~in.inCluster
  /\ (in.flags.context.scheme \/ ~in.flags.context.slash) => out.run.context = Cluster /\ out.run.okteto

\* A variable of the user is never replaced, and one of the file .env not by the
\* platform.
LocalVariablesWin ==
  Has("ctx variables") =>
    \A n \in DOMAIN in.local \cup DOMAIN in.platform :
      out[n] = IF n \in DOMAIN in.local THEN "local"
               ELSE IF ~in.file.failed /\ n \in DOMAIN in.file.vars THEN "file" ELSE "platform"

\* A CLI that is newer than one that a cluster takes is taken too.
NewerVersionsAreTaken ==
  Has("ctx version") /\ in.current # <<>> /\ out = "ok" =>
    \A v \in (1..2) \X (0..2) : in.current[1] < v[1] \/ (in.current[1] = v[1] /\ in.current[2] <= v[2]) =>
      A!checkCLIVersion(v, in.recommended, in.min) = "ok"

\* A namespace is created only when neither a namespace nor a preview has its
\* name, the user agreed and no deploy is under way.
NamespacesAreCreatedOnPurpose ==
  Has("ctx access") /\ out = "yes" =>
    /\ in.namespace \in {"namespace not found", "not found"} /\ in.preview = "namespace not found"
    /\ in.answer /\ ~in.withinDeploy

\* A namespace that was deleted is not the current one any more, unless it is the
\* personal one; a failure changes nothing, and a new namespace is chosen last.
DeletedNamespacesAreLeft ==
  Has("ctx namespaces") =>
    /\ out.deleted.chosen = in.namespace /\ ~out.deleted.failed /\ in.delete = "ok" => in.personal = in.namespace
    /\ out.deleted.failed => out.deleted.chosen = in.current
    /\ \A i \in DOMAIN out.calls : out.calls[i] \in {"save", "run"} => i = Len(out.calls) /\ i = IF in.members THEN 3 ELSE 2

\* What else is in a kubeconfig is kept, every context that okteto adds has a user
\* with a token or a way to get one, and what a command uses itself has a token.
KubeconfigsStayWhole ==
  Has("ctx kubeconfig") =>
    /\ \A k \in {out.memory, out.written} :
         /\ "other" \in DOMAIN k.contexts /\ k.contexts["other"] = in.cfg.contexts["other"]
         /\ k.users["someone"] = in.cfg.users["someone"]
         /\ k.current \in DOMAIN k.contexts /\ k.contexts[k.current].user \in DOMAIN k.users
         /\ ~in.skip => k.users["u"].token # "" \/ k.users["u"].exec
    /\ ~in.skip => out.memory.users["u"].token # ""
    /\ ~in.skip /\ out.written.users["u"].token = "" => in.available /\ ~in.static

\* Only the user's word has a client trust every certificate, and the token of a
\* client is the one given to it or that of its own context.
ClientsTrustTheirCluster ==
  Has("ctx client") =>
    /\ out.trusts = "all" => in.insecure
    /\ out.trusts = "good" => in.cert = "good" /\ in.token # ""
    /\ out.client.token \in {"given", "error", out.client.context}
    /\ out.client.token = "given" => in.given # ""

\* The selector offers every context once and starts at the current one.
SelectorsOfferEachOnce ==
  Has("ctx selector") =>
    /\ \A i, j \in DOMAIN out.options : out.options[i] = out.options[j] => i = j
    /\ {c \in DOMAIN in.store : in.store[c].okteto} \subseteq ToSet(out.options)
    /\ out.position # 0 <=> in.current \in ToSet(out.options)
    /\ out.position # 0 => out.options[out.position] = in.current
=============================================================================
