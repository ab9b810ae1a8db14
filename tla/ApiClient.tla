------------------------------ MODULE ApiClient ------------------------------
(***************************************************************************)
(* The client of the Okteto API.  A server is external: it knows a set of  *)
(* arguments and fields and reports one that it does not know.  A reply is *)
(* a pair of its kind and a detail: "ok", "unknown" argument, unknown      *)
(* "field" or "error".                                                     *)
(***************************************************************************)
EXTENDS Integers, Sequences, FiniteSets, SequencesExt

Ok == <<"ok", "">>
IsOk(reply) == reply = Ok

-----------------------------------------------------------------------------
(* Requests.                                                                 *)

\* What the server says about the n-th request: the first argument in the order
\* of its validation that it does not know, or the answer of the operation. The
\* connection of request server.lost breaks.
Reply(server, n, sent) ==
  LET unknown == SelectSeq(server.order, LAMBDA a : a \in sent /\ a \notin server.knows)
  IN IF n = server.lost THEN <<"error", "connection refused">>
     ELSE IF unknown # <<>> THEN <<"unknown", unknown[1]>> ELSE server.answer

isUnknownArgErr(reply, arg) == reply = <<"unknown", arg>>
isAnyUnknownArgErr(reply) == reply[1] = "unknown"

TransientErrors == {"connection refused", "unexpected EOF", "broken pipe"}
isAPITransientErr(reply) == reply[1] = "error" /\ reply[2] \in TransientErrors

\* An error that names what is missing, in any of the texts.
IsNotFound(reply) == reply \in {<<"error", "not found">>, <<"error", "namespace not found">>}

\* What the user reads of the texts of the server; other errors are kept.
translateAPIErr(reply) ==
  LET texts == [x \in {"not-authorized", "401", "401 expired", "not-found", "namespace-not-found", "423", "x509"} |->
                 CASE x \in {"not-authorized", "401"} -> "not logged"
                   [] x = "401 expired" -> "token expired"
                   [] x = "not-found" -> "not found"
                   [] x = "namespace-not-found" -> "namespace not found"
                   [] x = "423" -> "invalid license"
                   [] x = "x509" -> "x509 with hint"]
  IN IF reply[1] = "error" /\ reply[2] \in DOMAIN texts THEN <<"error", texts[reply[2]]>> ELSE reply

\* A mutation is sent once; a query whose connection broke is sent again once.
\* Both are given the replies the server would send.
mutate(replies) == IF IsOk(replies[1]) THEN Ok ELSE translateAPIErr(replies[1])

query(replies) ==
  LET last == IF isAPITransientErr(replies[1]) THEN replies[2] ELSE replies[1] IN
  IF IsOk(last) THEN Ok ELSE translateAPIErr(last)

-----------------------------------------------------------------------------
(* Deploying: the mutation is sent with fewer and fewer arguments to a server *)
(* that does not know them.  A deploy is the arguments of its requests and    *)
(* its outcome.                                                               *)

Deployed(log, sent, reply) == [log |-> Append(log, sent), outcome |-> reply]

LabelsNotSupported == <<"error", "labels not supported">>

\* The last rung: nothing is left that could be dropped.
LastRung(server, log, sent) == Deployed(log, sent, mutate(<<Reply(server, Len(log) + 1, sent)>>))

\* The rung with one of the two groups of arguments: dropped is the group that
\* is given up when the server names its argument.
SecondRung(server, log, sent, argument, dropped, labelsFirst) ==
  LET reply == mutate(<<Reply(server, Len(log) + 1, sent)>>) IN
  IF labelsFirst /\ isUnknownArgErr(reply, "labels") THEN Deployed(log, sent, LabelsNotSupported)
  ELSE IF isUnknownArgErr(reply, argument) THEN LastRung(server, Append(log, sent), sent \ dropped)
  ELSE Deployed(log, sent, reply)

\* The whole ladder, for pipelines and previews. Dependencies is the group of
\* arguments that is dropped with "dependencies".
LadderOf(server, log, sent, Dependencies) ==
  LET reply == mutate(<<Reply(server, Len(log) + 1, sent)>>)
      labels == "labels" \in sent
      down == Append(log, sent)
  IN IF isUnknownArgErr(reply, "workflowId")
     THEN SecondRung(server, down, sent \ {"workflowId"}, "dependencies", Dependencies, labels)
     ELSE IF labels /\ isUnknownArgErr(reply, "labels") THEN Deployed(log, sent, LabelsNotSupported)
     ELSE IF isUnknownArgErr(reply, "dependencies")
     THEN SecondRung(server, down, sent \ Dependencies, "workflowId", {"workflowId"}, FALSE)
     ELSE Deployed(log, sent, reply)

PipelineDependencies == {"dependencies", "isDependency"}

deployWithoutParentAll(server, log, sent) ==
  LET reply == mutate(<<Reply(server, Len(log) + 1, sent)>>) IN
  IF isAnyUnknownArgErr(reply)
  THEN LastRung(server, Append(log, sent), sent \ ({"workflowId"} \cup PipelineDependencies))
  ELSE Deployed(log, sent, reply)
deployWithoutParent(server, log, sent) == LadderOf(server, log, sent, PipelineDependencies)

\* The optional arguments of a deploy.
PipelineArguments(opts) ==
  PipelineDependencies \cup {"workflowId"} \cup (IF opts.labels THEN {"labels"} ELSE {})

\* A pipeline that is deployed as a dependency first names its parent; a server
\* that does not know one of the arguments gets the deploy without it.
Deploy(server, opts) ==
  LET sent == PipelineArguments(opts)
      first == sent \cup {"parentWorkflowId"}
      reply == mutate(<<Reply(server, 1, first)>>)
  IN IF ~opts.parent THEN deployWithoutParent(server, <<>>, sent)
     ELSE IF isAnyUnknownArgErr(reply) THEN deployWithoutParent(server, <<first>>, sent)
     ELSE Deployed(<<>>, first, reply)

\* Only the errors of the last rung of a preview are put into words.
translateErr(reply) ==
  CASE reply = <<"error", "conflict">> -> <<"error", "preview exists with another scope">>
    [] reply = <<"error", "operation-not-permitted">> -> <<"error", "not allowed to create a global preview">>
    [] OTHER -> reply

\* A name of at most 63 characters of its alphabet.
validate(name) == name.length <= 63 /\ name.alphabet

PreviewArguments(opts) == {"dependencies", "workflowId"} \cup (IF opts.labels THEN {"labels"} ELSE {})

DeployPreview(server, opts) ==
  LET sent == PreviewArguments(opts)
      d == LadderOf(server, <<>>, sent, {"dependencies"})
      given == sent \ d.log[Len(d.log)]
  IN IF ~validate(opts.name) THEN [log |-> <<>>, outcome |-> <<"error", "invalid name">>]
     ELSE [d EXCEPT !.outcome = IF given = {"dependencies", "workflowId"} THEN translateErr(@) ELSE @]

\* The variables of a deploy: the origin is added unless it is among them.
Origin(value) == [name |-> "OKTETO_ORIGIN", value |-> value]
getDeployVariables(variables, origin) ==
  IF \E i \in DOMAIN variables : variables[i].name = "OKTETO_ORIGIN" THEN variables
  ELSE Append(variables, Origin(origin))
-----------------------------------------------------------------------------
(* Destroying.                                                               *)

\* The arguments that a server does not know are dropped once.
DestroyWith(server, sent, argument, dropped) ==
  LET reply == mutate(<<Reply(server, 1, sent)>>) IN
  IF isUnknownArgErr(reply, argument) THEN LastRung(server, <<sent>>, sent \ dropped)
  ELSE Deployed(<<>>, sent, reply)

Destroy(server) ==
  DestroyWith(server, {"destroyVolumes"} \cup PipelineDependencies, "dependencies", PipelineDependencies)
DestroyPreview(server) == DestroyWith(server, {"timeout"}, "timeout", {"timeout"})

-----------------------------------------------------------------------------
(* Reading.                                                                  *)

\* The reading of a field that servers of earlier versions do not have: the
\* default stands for it, and every other failure is reported.
ReadField(replies, default) ==
  LET reply == query(replies) IN
  IF reply[1] = "field" THEN [outcome |-> Ok, value |-> default] ELSE [outcome |-> reply, value |-> "answer"]
GetExecutionEnv(replies) == ReadField(replies, "no variables")
GetKnownHostsConfig(replies) == ReadField(replies, "not enabled")
GetClusterMetadataOf(replies) == ReadField(replies, "default runner image")
GetLeastLoadedBuildKitPod(replies) ==
  LET r == ReadField(replies, "") IN
  IF r.value = "" THEN [r EXCEPT !.outcome = <<"error", "incompatible backend">>] ELSE r
GetRegistryCredentials(replies) ==
  LET reply == query(replies) IN
  IF reply[1] = "field" \/ IsNotFound(reply)
  THEN [outcome |-> <<"error", "credentials not found">>, value |-> ""]
  ELSE [outcome |-> reply, value |-> "answer"]

\* Previews are listed by labels, or all of them by a server without labels.
ListPreviews(server, labels) ==
  LET sent == {"labels"}
      reply == query(<<Reply(server, 1, sent), Reply(server, 2, sent)>>)
  IN IF isUnknownArgErr(reply, "labels") /\ labels THEN Deployed(<<>>, sent, LabelsNotSupported)
     ELSE IF isUnknownArgErr(reply, "labels") THEN Deployed(<<sent>>, {}, query(<<server.answer, server.answer>>))
     ELSE Deployed(<<>>, sent, reply)

\* The status of the resources of a namespace: those that the application
\* deployed, or all of a preview whose application has no name.
getResourceFullName(kind, name) == <<kind, name>>
ResourcesStatus(resources, all, app) ==
  LET chosen == {i \in DOMAIN resources : all \/ resources[i].by = app}
      keys == {getResourceFullName(resources[i].kind, resources[i].name) : i \in chosen}
  IN [k \in keys |-> resources[CHOOSE i \in chosen : /\ getResourceFullName(resources[i].kind, resources[i].name) = k
                                                     /\ \A j \in chosen : j > i => getResourceFullName(resources[j].kind, resources[j].name) # k].status]
StatusOf(reply, status) == [outcome |-> reply, status |-> IF IsOk(reply) THEN status ELSE <<>>]
GetPreviewResourcesStatus(replies, resources, app) ==
  StatusOf(query(replies), ResourcesStatus(resources, app = "", app))

\* A namespace that the server does not find may be that of a preview, which a client of
\* its own asks for.
GetResourcesStatus(replies, client, previewReplies, resources, app) ==
  LET reply == query(replies) IN
  IF ~IsNotFound(reply) THEN StatusOf(reply, ResourcesStatus(resources, FALSE, app))
  ELSE IF ~client THEN StatusOf(<<"error", "no client">>, <<>>)
  ELSE GetPreviewResourcesStatus(previewReplies, resources, app)

\* The addresses of a preview, and those of what an application deployed.
ListEndpoints(components) == UNION {ToSet(components[i].urls) : i \in DOMAIN components}
EndpointsOf(components, app) ==
  FlattenSeq([i \in DOMAIN components |->
                IF components[i].by # app THEN <<>>
                ELSE [j \in DOMAIN components[i].urls |-> <<components[i].urls[j], components[i].kind = "external">>]])

-----------------------------------------------------------------------------
(* The metadata of a cluster and its image.                                  *)

\* An image: how many digests it has and the parts of its name, each with the
\* number of its colons and whether it holds a dot.
IsDomain(p) == p.dotted \/ p.colons > 0 \/ p.text = "localhost"
WithoutTag(p) == [p EXCEPT !.colons = 0]
DockerIo == [text |-> "docker", colons |-> 0, dotted |-> TRUE]
Library == [text |-> "library", colons |-> 0, dotted |-> FALSE]
NoRepository == <<>>

getRegistryAndRepositoryFromImage(image) ==
  LET parts == image.parts
      short == Len(parts) = 1 \/ ~IsDomain(parts[1])
      domain == IF short THEN DockerIo ELSE parts[1]
      rest == IF short THEN parts ELSE Tail(parts)
      last == rest[Len(rest)]
      path == [rest EXCEPT ![Len(rest)] = WithoutTag(last)]
  IN IF image.digests > 1 \/ last.colons > 1 THEN NoRepository
     ELSE <<domain>> \o (IF domain = DockerIo /\ Len(path) = 1 THEN <<Library>> ELSE <<>>) \o path
\* One item of the metadata is taken; the repository of the CLI is set even by an
\* image that is refused.
GetClusterMetadata(items) ==
  LET Take(m, v) ==
        CASE m.failed \/ v.value = "" -> m
          [] v.name = "certificate" /\ v.value = "bad" -> [m EXCEPT !.failed = TRUE]
          [] v.name = "cliImage" -> [m EXCEPT !.cliImage = v.value, !.failed = v.value = "bad",
                                              !.repository = IF v.value = "bad" THEN "" ELSE v.value]
          [] v.name = "pipelineRunnerImage" -> [m EXCEPT !.runner = v.value]
          [] OTHER -> m
      m == FoldLeft(Take, [failed |-> FALSE, runner |-> "", cliImage |-> "", repository |-> "before"], items)
  IN [m EXCEPT !.failed = @ \/ m.runner = ""]
-----------------------------------------------------------------------------
(* Credentials of registries outside the cluster.                            *)

\* The registry of an address: the index of Docker has two names of its own.
RegistryHost(address) ==
  CASE address.host = "index" /\ address.path = "v2" -> <<"https", "index", "v2">>
    [] address.host = "index" -> <<"https", "index", "v1">>
    [] OTHER -> <<"", address.host, "">>
Failed == 0

\* Reads one after another: an answer is kept for its registry, a failure is not.
\* answers[n] is what the server would say to the n-th request.
ReadCredentials(addresses, answers) ==
  LET Read(s, address) ==
        LET host == RegistryHost(address)
            n == s.asked + 1
        IN IF host \in DOMAIN s.cache THEN [s EXCEPT !.results = Append(@, s.cache[host])]
           ELSE IF answers[n] = "error" THEN [s EXCEPT !.asked = n, !.results = Append(@, Failed)]
           ELSE [s EXCEPT !.asked = n, !.results = Append(@, n),
                          !.cache = [h \in DOMAIN @ \cup {host} |-> IF h = host THEN n ELSE @[h]]]
  IN FoldLeft(Read, [asked |-> 0, results |-> <<>>, cache |-> <<>>], addresses)


\* A login: the errors that the user can act on are told apart.
Auth(replies) ==
  LET reply == mutate(replies) IN
  IF IsOk(reply) \/ reply[2] \in {"github-not-verified", "github-business-email", "x509 with hint"} THEN reply
  ELSE <<"error", "authentication">>

-----------------------------------------------------------------------------
(* How a command finds its context, namespace, token, variables, credentials *)
(* and certificates.  A name of a context is a record of its host and of     *)
(* whether it has a scheme and a slash at the end.                           *)

(* The context.                                                              *)

NoName == [scheme |-> FALSE, host |-> "", slash |-> FALSE]
AddSchema(name) == [name EXCEPT !.scheme = TRUE]
TrimSlash(name) == [name EXCEPT !.slash = FALSE]
IsUrl(name) == name.scheme /\ name.host # ""

\* The environment of the process: what is not set is empty.
InitFromEnvVars(o, env) ==
  LET named == IF o.context = NoName THEN IF env.url # NoName THEN env.url ELSE env.context ELSE o.context IN
  [o EXCEPT !.context = named,
            !.okteto = @ \/ (o.context = NoName /\ env.url # NoName) \/ o.token # "" \/ env.token # "",
            !.token = IF @ = "" THEN env.token ELSE @,
            !.ns = IF @ = "" THEN env.ns ELSE @]

\* The current context, and the namespace and the kind of the one that is used.
InitFromContext(o, store) ==
  LET c == IF o.context # NoName THEN o.context ELSE store.current IN
  IF o.ctxCommand \/ DOMAIN store.contexts = {} THEN o
  ELSE IF c \notin DOMAIN store.contexts THEN [o EXCEPT !.context = c]
  ELSE [o EXCEPT !.context = c, !.ns = IF @ = "" THEN store.contexts[c].ns ELSE @, !.okteto = store.contexts[c].okteto]

\* The contexts of Kubernetes: kubeconfig gives each the host whose name, with underscores
\* for dots, it has.
isValidCluster(name, kubeconfig) == ~name.scheme /\ ~name.slash /\ name.host \in DOMAIN kubeconfig

\* The cluster of Okteto that a context of Kubernetes is of: one that is known by the
\* host, or else the one that its namespace names.  annotation is that name, if the
\* namespace can be read and has the label of Okteto, and NoName if it names none.
K8sContextToOktetoUrl(name, store, kubeconfig, annotation) ==
  LET same == {n \in DOMAIN store.contexts :
                 store.contexts[n].okteto /\ IsUrl(n) /\ n.host = kubeconfig[name.host]}
  IN CASE same # {} -> CHOOSE n \in same : TRUE
       [] same = {} /\ annotation # {} -> CHOOSE n \in annotation : TRUE
       [] OTHER -> name

\* A name that is spelled otherwise than the known context it means, or is the one of a
\* cluster in Kubernetes.
Invalid == [host |-> "", scheme |-> FALSE, slash |-> TRUE]
ResolveName(o, store, kubeconfig, annotation) ==
  LET known(n) == n \in DOMAIN store.contexts /\ store.contexts[n].okteto
      trimmed == IF o.okteto /\ IsUrl(o.context) THEN TrimSlash(o.context) ELSE o.context
  IN CASE known(AddSchema(trimmed)) -> [o EXCEPT !.context = AddSchema(trimmed), !.okteto = TRUE]
       [] ~known(AddSchema(trimmed)) /\ (o.okteto \/ known(trimmed)) -> [o EXCEPT !.context = trimmed, !.okteto = TRUE]
       [] ~known(AddSchema(trimmed)) /\ ~o.okteto /\ ~known(trimmed) /\ IsUrl(trimmed) ->
            [o EXCEPT !.context = TrimSlash(trimmed), !.okteto = TRUE]
       [] OTHER ->
            IF ~isValidCluster(trimmed, kubeconfig) THEN [o EXCEPT !.context = Invalid]
            ELSE LET url == K8sContextToOktetoUrl(trimmed, store, kubeconfig, annotation)
                 IN [o EXCEPT !.context = url, !.okteto = url # trimmed]

\* The token and the namespace of the context that was found.
Inferred(o, store) ==
  IF o.context \notin DOMAIN store.contexts \/ o.token # "" THEN o
  ELSE [o EXCEPT !.token = store.contexts[o.context].token,
                 !.ns = IF @ = "" THEN store.contexts[o.context].ns ELSE @]

\* Options of a command: flags, then the environment, then the store. A process in
\* a cluster needs a token.
RunOptions(flags, env, store, kubeconfig, annotation, inCluster) ==
  LET o == InitFromContext(InitFromEnvVars(flags, env), store)
      found == ResolveName(o, store, kubeconfig, annotation)
  IN IF o.token = "" /\ inCluster /\ ~isValidCluster(o.context, kubeconfig) THEN [o EXCEPT !.context = Invalid]
     ELSE IF o.context = NoName THEN o
     ELSE Inferred(found, store)

\* okteto kubetoken without a context looks at the store first.
getCtxResource(flags, env, store) ==
  IF flags.context # NoName THEN flags ELSE InitFromEnvVars(InitFromContext(flags, store), env)

-----------------------------------------------------------------------------
(* Variables: a local one is never replaced.                                 *)

exportPlatformVariablesToEnv(local, platform) ==
  [n \in DOMAIN local \cup DOMAIN platform |-> IF n \in DOMAIN local THEN local[n] ELSE platform[n]]
\* The file .env is loaded before; one that cannot be read is left out.
loadDotEnv(local, file) ==
  IF file.failed THEN local
  ELSE [n \in DOMAIN local \cup DOMAIN file.vars |-> IF n \in DOMAIN local THEN local[n] ELSE file.vars[n]]

-----------------------------------------------------------------------------
(* Versions are pairs, or a word that is none.                               *)

Less(v, w) == v[1] < w[1] \/ (v[1] = w[1] /\ v[2] < w[2])
checkCLIVersion(current, recommended, min) ==
  IF current = <<>> THEN "ok"
  ELSE IF recommended = <<>> \/ min = <<>> THEN "failed"
  ELSE IF Less(current, min) THEN "unsupported" ELSE "ok"

-----------------------------------------------------------------------------
(* Access to a namespace, of the name or of a preview.                       *)

NotFounds == {"namespace not found", "not found"}
HasAccessToOktetoClusterNamespace(namespace, preview) ==
  IF namespace \in NotFounds
  THEN CASE preview = "ok" -> "yes" [] preview = "namespace not found" -> "no" [] OTHER -> "error"
  ELSE IF namespace = "ok" THEN "yes" ELSE "error"

\* Whether a command creates the namespace it deploys to.
ShouldCreateNamespace(access, withinDeploy, answer) ==
  IF access = "error" THEN "error"
  ELSE IF access = "yes" THEN "no"
  ELSE IF withinDeploy \/ ~answer THEN "error" ELSE "yes"

\* Creating a namespace: the calls that are made, and whether the choice is saved.
CreateNamespace(o, fails) ==
  LET calls == <<"create">> \o (IF o.members THEN <<"invite">> ELSE <<>>) \o <<IF o.use THEN "save" ELSE "run">>
      failed == {i \in DOMAIN calls : calls[i] = fails}
  IN IF failed = {} THEN calls ELSE SubSeq(calls, 1, CHOOSE i \in failed : TRUE)
\* Deleting one: the personal namespace takes its place as the current one.
ExecuteDeleteNamespace(o, delete, watch) ==
  IF delete = "not found" THEN [failed |-> FALSE, chosen |-> o.current]
  ELSE IF delete # "ok" \/ watch # "ok" THEN [failed |-> TRUE, chosen |-> o.current]
  ELSE [failed |-> FALSE,
        chosen |-> IF o.current # o.namespace THEN o.current ELSE IF o.personal = "" THEN o.username ELSE o.personal]

-----------------------------------------------------------------------------
(* The kubeconfig.                                                           *)

\* The token of the credentials: a dynamic one, if there is one.
updateOktetoContextToken(static, kubetoken, personal) ==
  IF static \/ personal = "" \/ kubetoken \in {"error", ""} THEN "credentials" ELSE kubetoken

\* The cluster, the user and the context of an Okteto context in the kubeconfig,
\* which becomes the current one; the rest of the file is kept.
AddOktetoCredentialsToCfg(cfg, c, user, ns, token, skip) ==
  LET put(f, k, v) == [x \in DOMAIN f \cup {k} |-> IF x = k THEN v ELSE f[x]]
      exec == user \in DOMAIN cfg.users /\ cfg.users[user].exec
  IN IF skip THEN cfg
     ELSE [clusters |-> put(cfg.clusters, c, c), users |-> put(cfg.users, user, [token |-> token, exec |-> exec]),
           contexts |-> put(cfg.contexts, c, [user |-> user, ns |-> ns, okteto |-> TRUE]), current |-> c]

\* A kubeconfig that is written for the user asks okteto for a token whenever one
\* is needed, if the cluster can give one, and holds a token otherwise.
updateOktetoContextExec(cfg, user, static, available) ==
  IF static THEN [cfg EXCEPT !.users[user].exec = FALSE]
  ELSE IF ~available THEN cfg
  ELSE [cfg EXCEPT !.users[user] = [token |-> "", exec |-> TRUE]]

\* The contexts that the selector offers: those of the store, then those of the
\* kubeconfig that are not of Okteto, each in order.
getAvailableContexts(store, cfg, onlyOkteto) ==
  LET sorted(s) == SetToSortSeq(s, <)
      clusters == {c \in DOMAIN store : store[c].okteto}
  IN sorted(clusters) \o (IF onlyOkteto THEN <<>> ELSE sorted({c \in DOMAIN cfg : ~cfg[c].okteto}))
getInitialPosition(options, current) ==
  IF \E i \in DOMAIN options : options[i] = current
  THEN CHOOSE i \in DOMAIN options : options[i] = current /\ \A j \in 1..i - 1 : options[j] # current
  ELSE 0

-----------------------------------------------------------------------------
(* Clients.                                                                  *)

\* The certificates that a client of the API trusts: all when the user says so,
\* else that of the context when it can be read, else those of the machine.
GetContextCertificate(cert) == IF cert \in {"not base64", "not pem", "not x509", ""} THEN "error" ELSE cert
newOktetoHttpClient(token, url, insecure, cert) ==
  IF token = "" THEN "not logged" ELSE IF ~url THEN "error"
  ELSE IF insecure THEN "all" ELSE IF GetContextCertificate(cert) = "error" THEN "machine" ELSE cert

\* The token of a client: the one that is given, or that of its context.
NewOktetoClient(o, store) ==
  LET c == IF o.context # "" THEN o.context ELSE store.current
      token == IF o.token # "" THEN o.token
               ELSE IF o.context = "" /\ store.current # "" THEN store.contexts[store.current].token
               ELSE IF c \in DOMAIN store.contexts THEN store.contexts[c].token ELSE "error"
  IN [context |-> c, token |-> token]
=============================================================================
