----------------------------- MODULE BuildRequest -----------------------------
(***************************************************************************)
(* What a build asks of BuildKit and of the registry: references of        *)
(* images, the options, arguments, secrets and Dockerfile of a request,    *)
(* the connector it goes through and the credentials it is given.  A text  *)
(* is a sequence of tokens and a list of tags a sequence of texts.  The    *)
(* context c has the address of the registry (url), the namespace of the   *)
(* user (ns) and the one of shared images (global).  The registry is a     *)
(* function from references to digests.                                    *)
(***************************************************************************)
EXTENDS Integers, Sequences, FiniteSets, SequencesExt, FiniteSetsExt

DevRegistry == "okteto.dev"
GlobalRegistry == "okteto.global"
DefaultGlobalNamespace == "okteto"
OktetoDefaultImageTag == "okteto"
Dotted == {DevRegistry, GlobalRegistry, "docker.io", "reg.io", "ext.io"}   \* tokens with a dot
NoReference == <<"not found">>

HasToken(text, t) == \E k \in DOMAIN text : text[k] = t
Split(text, t) ==
  LET between(cuts) == [k \in 1..Len(cuts) - 1 |-> SubSeq(text, cuts[k] + 1, cuts[k + 1] - 1)]
  IN between(<<0>> \o SetToSortSeq({k \in DOMAIN text : text[k] = t}, <) \o <<Len(text) + 1>>)
JoinedBy(texts, t) ==
  FlattenSeq([k \in DOMAIN texts |-> IF k = 1 THEN texts[k] ELSE <<t>> \o texts[k]])

-----------------------------------------------------------------------------
(* References.                                                               *)

\* The name of a registry stands for an address at the start of a word; the first
\* one of the text is then the one that is replaced.
Replace(c, text, registryType, namespace) ==
  IF \E k \in DOMAIN text : text[k] = registryType /\ (k = 1 \/ text[k - 1] = " ")
  THEN ReplaceFirstSubSeq(c.url \o <<"/", namespace>>, <<registryType>>, text)
  ELSE text
GlobalNamespaceOf(c) == IF c.global # "" THEN c.global ELSE DefaultGlobalNamespace
ExpandOktetoGlobalRegistry(c, image) == Replace(c, image, GlobalRegistry, GlobalNamespaceOf(c))
ExpandOktetoDevRegistry(c, image) == Replace(c, image, DevRegistry, c.ns)
expandImageRegistries(c, image) ==
  IF c.isOkteto THEN ExpandOktetoGlobalRegistry(c, ExpandOktetoDevRegistry(c, image)) ELSE image

\* The last two parts are the repository, unless there are two and the first has a
\* dot: a port does not make it a registry.
GetRegistryAndRepo(image) ==
  LET of(parts, n) ==
        CASE n = 1 -> [registry |-> <<"docker.io">>, repo |-> image]
          [] n = 2 /\ \E k \in DOMAIN parts[1] : parts[1][k] \in Dotted -> [registry |-> parts[1], repo |-> parts[2]]
          [] n = 2 /\ \A k \in DOMAIN parts[1] : parts[1][k] \notin Dotted -> [registry |-> <<"docker.io">>, repo |-> image]
          [] n > 2 -> [registry |-> JoinedBy(SubSeq(parts, 1, n - 2), "/"), repo |-> JoinedBy(SubSeq(parts, n - 1, n), "/")]
  IN of(Split(image, "/"), Len(Split(image, "/")))

IsDomain(part) == part = <<"localhost">> \/ \E k \in DOMAIN part : part[k] \in Dotted \cup {":"}
GetRepoNameAndTag(image) ==
  LET at == {k \in DOMAIN image : image[k] = "@"}
      colons(parts) == {k \in DOMAIN image : image[k] = ":" /\ (Len(parts) > 1 /\ IsDomain(parts[1]) => k > Len(parts[1]))}
      cutAt(cut) == [name |-> SubSeq(image, 1, cut - 1), tag |-> SubSeq(image, cut + 1, Len(image))]
      of(marks) == IF at = {} /\ marks = {} THEN [name |-> image, tag |-> <<"latest">>]
                   ELSE cutAt(IF at # {} THEN Min(at) ELSE Max(marks))
  IN of(colons(Split(image, "/")))

\* The library's reading of a reference: the first part is the registry when it has
\* a dot or a port; Docker Hub keeps names of one part under library.
ParseReference(image) ==
  LET read(host, rest, named) ==
        LET repo == SubSeq(named.name, 3, Len(named.name)) IN
        [valid |-> rest # <<>> /\ ~HasToken(image, ",") /\ ~HasToken(image, DevRegistry) /\ ~HasToken(image, GlobalRegistry),
         host |-> host, tag |-> named.tag,
         repo |-> IF host = <<"docker.io">> /\ ~HasToken(repo, "/") THEN <<"library", "/">> \o repo ELSE repo]
      at(host, rest) == read(host, rest, GetRepoNameAndTag(<<"localhost", "/">> \o rest))
      of(parts) == IF Len(parts) > 1 /\ IsDomain(parts[1]) THEN at(parts[1], JoinedBy(Tail(parts), "/"))
                   ELSE at(<<"docker.io">>, image)
  IN of(Split(image, "/"))
KeyOf(ref) == <<ref.host, ref.repo, ref.tag>>

GetDigest(registry, image) ==
  LET of(ref) == IF ~ref.valid \/ KeyOf(ref) \notin DOMAIN registry THEN "" ELSE registry[KeyOf(ref)]
  IN of(ParseReference(image))
GetImageTagWithDigest(c, registry, image) ==
  LET named(parts, digest) ==
        IF digest = "" THEN NoReference
        ELSE parts.registry \o <<"/">> \o GetRepoNameAndTag(parts.repo).name \o <<"@", digest>>
      of(expanded) == named(GetRegistryAndRepo(expanded), GetDigest(registry, expanded))
  IN of(expandImageRegistries(c, image))

IsOktetoRegistry(c, image) == c.isOkteto /\ IsPrefix(c.url, expandImageRegistries(c, image))
\* The default of the shared namespace is not known here.
IsGlobalRegistry(c, image) == IsPrefix(c.url \o <<"/", c.global, "/">>, expandImageRegistries(c, image))
GetDevImageFromGlobal(c, image) ==
  LET prefix == IF c.global = "" THEN <<"/">> ELSE <<c.global, "/">>
      of(parts) == parts.registry \o <<"/">> \o ReplaceFirstSubSeq(<<c.ns, "/">>, prefix, GetRepoNameAndTag(parts.repo).name)
                     \o <<":", OktetoDefaultImageTag>>
  IN of(GetRegistryAndRepo(image))
\* A digest can be read by every tag and by itself.
Pushed(registry, image, digest) ==
  LET by(keys) == [k \in DOMAIN registry \cup keys |-> IF k \in keys THEN digest ELSE registry[k]]
      of(ref) == by({KeyOf(ref), <<ref.host, ref.repo, <<digest>>>>})
  IN of(ParseReference(image))
Clone(c, registry, from, to) ==
  LET after(target, reg) == [registry |-> reg, image |-> GetImageTagWithDigest(c, reg, target)]
      of(target, digest) ==
        IF ~ParseReference(target).valid \/ digest = "" THEN [registry |-> registry, image |-> NoReference]
        ELSE after(target, Pushed(registry, target, digest))
  IN of(expandImageRegistries(c, to), GetDigest(registry, from))

-----------------------------------------------------------------------------
(* Tags of a build, and where its image is looked for.                       *)

useReferenceTemplate(registryName, repoName, svcName, tag) ==
  <<registryName, "/", repoName, "-", svcName, ":", tag>>
getServiceDevImageReference(manifestName, svcName, b) ==
  IF b.image # <<>> \/ ~b.dockerfile THEN b.image
  ELSE <<useReferenceTemplate(DevRegistry, manifestName, svcName, OktetoDefaultImageTag)>>
\* A tag of the user's namespace has a copy among the shared images, by its hash. The
\* expression that finds its name knows no ports and no digests.
ExtendedImage(image) ==
  LET parts == Split(image, "/") IN
  /\ Len(parts) = 3
  /\ ~HasToken(parts[1], ":") /\ ~HasToken(image, "@")
  /\ Cardinality({k \in DOMAIN parts[3] : parts[3][k] = ":"}) = 1
GetGlobalTagFromDevIfNeccesary(c, tags, buildHash) ==
  LET expanded == [k \in DOMAIN tags |-> ExpandOktetoDevRegistry(c, tags[k])]
      mine == SelectSeq(expanded, LAMBDA t : ExtendedImage(t) /\ IsPrefix(c.url \o <<"/", c.ns, "/">>, t))
      copy(t) == <<GlobalRegistry, "/">> \o GetRepoNameAndTag(Split(t, "/")[3]).name \o <<":", buildHash>>
  IN IF ~c.globalAccess \/ ~c.smart \/ buildHash = "" THEN <<>>
     ELSE [k \in DOMAIN mine |-> ExpandOktetoGlobalRegistry(c, copy(mine[k]))]
getTargetRegistries(isOkteto) == IF isOkteto THEN <<DevRegistry, GlobalRegistry>> ELSE <<>>
GetImageReferencesForTag(c, manifestName, svc, tag) ==
  [k \in DOMAIN getTargetRegistries(c.isOkteto) |-> useReferenceTemplate(getTargetRegistries(c.isOkteto)[k], manifestName, svc, tag)]
GetImageReferencesForDeploy(manifestName, svc) ==
  <<useReferenceTemplate(DevRegistry, manifestName, svc, OktetoDefaultImageTag)>>

FirstFound(c, registry, references) ==
  LET of(images) == IF images = <<>> THEN NoReference ELSE Head(images)
  IN of(SelectSeq([k \in DOMAIN references |-> GetImageTagWithDigest(c, registry, references[k])], LAMBDA image : image # NoReference))
\* The copies of several tags are looked for as one name, that is not found.
IsCached(c, registry, manifestName, tags, buildHash, svc) ==
  LET copies == GetGlobalTagFromDevIfNeccesary(c, tags, buildHash)
      references == CASE tags = <<>> -> GetImageReferencesForTag(c, manifestName, svc, buildHash)
                      [] tags # <<>> /\ copies # <<>> -> <<JoinedBy(copies, ",")>>
                      [] tags # <<>> /\ copies = <<>> -> <<>>
  IN IF buildHash = "" THEN NoReference ELSE FirstFound(c, registry, references)
GetImageDigestReferenceForServiceDeploy(c, registry, manifestName, svc, b) ==
  FirstFound(c, registry,
    CASE b.dockerfile /\ b.image = <<>> -> GetImageReferencesForDeploy(manifestName, svc)
      [] b.image # <<>> -> <<JoinedBy(b.image, ",")>>
      [] ~b.dockerfile /\ b.image = <<>> -> <<>>)
CloneGlobalImageToDev(c, registry, globalImage, svcImage) ==
  IF ~IsGlobalRegistry(c, globalImage) THEN [registry |-> registry, image |-> globalImage]
  ELSE Clone(c, registry, globalImage, IF svcImage = <<>> THEN GetDevImageFromGlobal(c, globalImage) ELSE svcImage)
cloneGlobalImageToDev(c, registry, cachedImage, manifestName, svc, b) ==
  CloneGlobalImageToDev(c, registry, cachedImage,
    IF b.dockerfile /\ b.image = <<>> THEN GetImageReferencesForDeploy(manifestName, svc)[1] ELSE JoinedBy(b.image, ","))

\* A compose file names the images that it pulls: only those of okteto are built.
getBuildInfoWithoutVolumeMounts(c, b, isStack) ==
  IF isStack /\ c.isOkteto /\ (b.image = <<>> \/ ~IsOktetoRegistry(c, b.image[1])) THEN [b EXCEPT !.image = <<>>] ELSE b
TagsToBuild(c, manifestName, svc, b, buildHash) ==
  LET tags == getServiceDevImageReference(manifestName, svc, b)
  IN tags \o GetGlobalTagFromDevIfNeccesary(c, tags, buildHash)
-----------------------------------------------------------------------------
(* The options of a build. Arguments are pairs of a name and a number, 0 for   *)
(* no value, ordered as their texts are.                                       *)

ContextArgs == {"OKTETO_CONTEXT", "OKTETO_NAMESPACE"}
NamesOf(args) == {args[k].name : k \in DOMAIN args}
\* Arguments of the command come first, then those of the manifest it does not
\* name. The context is added for what the manifest does not name.
BuildArgsOf(c, b, o, image) ==
  o.args \o SelectSeq(b.args, LAMBDA a : a.name \notin NamesOf(o.args))
    \o SetToSeq({[name |-> n, value |-> c.contextArgs] : n \in
         IF image # <<>> /\ IsOktetoRegistry(c, image[1]) /\ c.contextArgs # 0 THEN ContextArgs \ NamesOf(b.args) ELSE {}})
\* They are sorted, and BuildKit is told the last one of each name.
FrontendArgs(args) == [n \in NamesOf(args) |-> Max({args[k].value : k \in {j \in DOMAIN args : args[j].name = n}})]
OptsFromBuildInfo(c, manifestName, svc, b, o) ==
  LET image == IF o.tag # <<>> THEN o.tag
               ELSE IF b.image = <<>> /\ c.isOkteto
                    THEN <<useReferenceTemplate(DevRegistry, manifestName, svc, OktetoDefaultImageTag)>>
                    ELSE b.image
  IN [tag |-> image, target |-> IF o.target # "" THEN o.target ELSE b.target,
      cacheFrom |-> IF o.cacheFrom # <<>> THEN o.cacheFrom ELSE b.cacheFrom, exportCache |-> b.exportCache,
      args |-> BuildArgsOf(c, b, o, image), secrets |-> o.secrets \o b.secrets]

\* A tag of okteto has a registry, a namespace and a name.
validateTags(c, tags) ==
  LET slashes(t) == Cardinality({k \in DOMAIN t : t[k] = "/"})
      expanded(t) == IF IsGlobalRegistry(c, t) THEN ExpandOktetoGlobalRegistry(c, t) ELSE ExpandOktetoDevRegistry(c, t)
  IN \/ tags = <<>>
     \/ IsPrefix(c.builder, tags[1]) /\ slashes(JoinedBy(tags, ",")) = 2
     \/ \A k \in DOMAIN tags : IsOktetoRegistry(c, tags[k]) => slashes(expanded(tags[k])) = 2
extendRegistries(c, images) == [k \in DOMAIN images |-> expandImageRegistries(c, images[k])]

\* Old versions of BuildKit get the frontend as an image when they do not know extra
\* hosts; new ones when there are several caches to export.
GetFrontend(version, extraHosts, caches, custom) ==
  CASE extraHosts /\ version < 16 -> "gateway"
    [] ~(extraHosts /\ version < 16) /\ caches > 1 /\ version >= 11 -> "gateway"
    [] ~(extraHosts /\ version < 16) /\ ~(caches > 1 /\ version >= 11) -> IF custom THEN "gateway" ELSE "dockerfile"

\* The request, once its secrets are there. What is exported is what was extended.
BuildSolveOpt(c, opts, k) ==
  LET tags == extendRegistries(c, opts.tag)
      caches == extendRegistries(c, opts.exportCache)
  IN CASE ~validateTags(c, opts.tag) -> [err |-> "tag"]
       [] validateTags(c, opts.tag) /\ ~k.remote /\ ~k.file -> [err |-> "file"]
       [] validateTags(c, opts.tag) /\ (k.remote \/ k.file) /\ ~k.client -> [err |-> "client"]
       [] validateTags(c, opts.tag) /\ (k.remote \/ k.file) /\ k.client ->
            [err |-> "", pushed |-> tags, args |-> FrontendArgs(opts.args),
             localContext |-> ~k.remote, target |-> opts.target,
             frontend |-> GetFrontend(k.version, k.extraHosts, Len(caches), FALSE),
             cacheImports |-> extendRegistries(c, opts.cacheFrom),
             cacheExports |-> [i \in DOMAIN caches |-> [ref |-> caches[i],
                               type |-> IF caches[i] # JoinedBy(tags, ",") THEN "registry" ELSE "inline"]]]

-----------------------------------------------------------------------------
(* Secrets. A secret is a list of fields, a field a key and a value; files are *)
(* texts, and the temporary one of a file has its name.                        *)

validateBuildSecretFlag(secret) ==
  /\ \A k \in DOMAIN secret : Len(secret[k]) = 2 /\ secret[k][2] # <<>>
  /\ \E k \in DOMAIN secret : secret[k][1] \in {"id", "ID"}
IsSource(field) == Len(field) = 2 /\ field[1] \in {"src", "source"}
TempOf(file) == <<"temp">> \o file
\* The first secret that is malformed, or whose file is not there, ends it; the
\* files made so far stay until the folder is removed.
replaceSecretsSourceEnvWithTempFile(files, secrets) ==
  LET bad(s) == \E k \in DOMAIN s : Len(s[k]) # 2 \/ (IsSource(s[k]) /\ s[k][2] \notin files)
      fails == {k \in DOMAIN secrets : bad(secrets[k])}
      until == IF fails = {} THEN Len(secrets) ELSE Min(fails) - 1
      field(f) == IF IsSource(f) THEN <<f[1], TempOf(f[2])>> ELSE f
  IN [err |-> fails # {},
      secrets |-> [k \in DOMAIN secrets |-> IF k <= until THEN [i \in DOMAIN secrets[k] |-> field(secrets[k][i])] ELSE secrets[k]],
      temps |-> {TempOf(secrets[k][i][2]) : <<k, i>> \in {p \in (1..until) \X (1..3) : p[2] \in DOMAIN secrets[p[1]] /\ IsSource(secrets[p[1]][p[2]])}}]
\* The folder of the temporary files is removed however the run ends.
Cleanup(files, temps) == files \ temps
RunWithSecrets(files, secrets) ==
  LET r == replaceSecretsSourceEnvWithTempFile(files, secrets)
  IN [err |-> r.err, secrets |-> r.secrets, during |-> files \cup r.temps, after |-> Cleanup(files \cup r.temps, r.temps)]

\* Flags are of one image only.
validateOptions(svcs, known, o) ==
  CASE svcs = <<>> -> "nothing"
    [] svcs # <<>> /\ ~(ToSet(svcs) \subseteq known) -> "invalid"
    [] svcs # <<>> /\ ToSet(svcs) \subseteq known ->
         IF Len(svcs) # 1 /\ (o.tag # <<>> \/ o.target # "" \/ o.cacheFrom # <<>> \/ o.secrets # <<>>) THEN "flags" ELSE ""
\* The builds of a command one after the other. A build rewrites the list of the
\* command where it is (a full list is copied when the build has secrets of its own),
\* and the next one would read it.
BuildEach(files, svcs, known, o, own) ==
  LET step[k \in 0..Len(svcs)] ==
        IF k = 0 THEN [files |-> files, flags |-> o.secrets, runs |-> <<>>]
        ELSE LET before == step[k - 1]
                 r == RunWithSecrets(before.files, before.flags \o own)
             IN [files |-> r.after, flags |-> SubSeq(r.secrets, 1, Len(before.flags)),
                 runs |-> before.runs \o <<[err |-> r.err, secrets |-> r.secrets, during |-> r.during]>>]
  IN IF validateOptions(svcs, known, o) # "" THEN step[0] ELSE step[Len(svcs)]
-----------------------------------------------------------------------------
(* The Dockerfile that BuildKit gets.                                        *)

\* One registry of a line is replaced, the user's before the shared one.
translateRegistry(c, line) ==
  CASE HasToken(line, DevRegistry) -> Replace(c, line, DevRegistry, c.ns)
    [] ~HasToken(line, DevRegistry) /\ HasToken(line, GlobalRegistry) -> Replace(c, line, GlobalRegistry, GlobalNamespaceOf(c))
    [] ~HasToken(line, DevRegistry) /\ ~HasToken(line, GlobalRegistry) -> line

generateProjectHash(p, mountTarget) == JoinedBy(<<<<"build">>, p.repo, p.dockerfile, p.target, mountTarget>>, "-")
\* A mount goes up to the next space.
MountsOf(line) ==
  LET starts == SetToSortSeq({k \in DOMAIN line : line[k] = "--mount="}, <)
      end(k) == Min({j \in k..Len(line) : line[j] = " "} \cup {Len(line) + 1}) - 1
  IN [i \in DOMAIN starts |-> SubSeq(line, starts[i], end(starts[i]))]
TargetOf(mount) ==
  LET starts == {k \in DOMAIN mount : mount[k] = "target="}
      end(k) == Min({j \in k..Len(mount) : mount[j] = ","} \cup {Len(mount) + 1}) - 1
  IN IF starts = {} THEN <<>> ELSE SubSeq(mount, Min(starts) + 1, end(Min(starts)))
\* Every cache that has no id gets one of its project, at the first place that has
\* the text of its mount.
translateMount(p, line, mount) ==
  IF ~HasToken(mount, "type=cache") \/ HasToken(mount, "id=") THEN line
  ELSE ReplaceFirstSubSeq(<<"--mount=", "id=">> \o generateProjectHash(p, TargetOf(mount)) \o <<",">> \o Tail(mount), mount, line)
translateCacheMounts(p, line) ==
  IF line[1] # "RUN" \/ ~HasToken(line, "type=cache") THEN line
  ELSE FoldLeft(LAMBDA text, mount : translateMount(p, text, mount), line, MountsOf(line))

\* The files that are left by a build: the copy of the Dockerfile is removed once it
\* was made whole, the copy of its ignore file never.
GetDockerfile(fails, ignoreFile) ==
  [err |-> fails # "",
   made |-> (IF fails \in {"open", "create"} THEN {} ELSE {"dockerfile"}) \cup (IF fails = "" /\ ignoreFile THEN {"dockerignore"} ELSE {})]
buildWithOkteto(fails, ignoreFile) ==
  LET d == GetDockerfile(fails, ignoreFile) IN IF d.err THEN d.made ELSE d.made \ {"dockerfile"}

-----------------------------------------------------------------------------
(* Connectors. The in-cluster connector keeps the address of a pod; an answer  *)
(* of the backend is a pod, a place in the queue, or the end of the wait.      *)

GetBuildkitConnector(e) ==
  CASE e.queue /\ e.inCluster -> IF e.answers THEN "in-cluster" ELSE "ingress"
    [] e.queue /\ ~e.inCluster -> IF e.answers THEN "port-forward" ELSE "ingress"
    [] ~e.queue -> "ingress"
connTypeFromConnector(type) == IF type \in {"port-forward", "in-cluster"} THEN "proxy" ELSE "legacy"

\* The reason of a failure is never reset.
Track(ic, success) == [ic EXCEPT !.tracked = Append(@, [success |-> success, position |-> ic.position, reason |-> ic.reason])]
NewInClusterConnector(answer) ==
  LET ic == [pod |-> "", position |-> 0, reason |-> "", tracked |-> <<>>]
  IN IF answer.kind = "pod" THEN [Track(ic, TRUE) EXCEPT !.pod = answer.pod] ELSE ic
\* The backend is asked until it names a pod, fails, or the wait ends.
assignBuildkitPod(ic, answers) ==
  LET last == Min({k \in DOMAIN answers : answers[k].kind # "queue"})
      places == {answers[k].place : k \in 1..last}
      asked == [ic EXCEPT !.position = Max(places \cup {0})]
  IN IF answers[last].kind = "pod" THEN [Track(asked, TRUE) EXCEPT !.pod = answers[last].pod]
     ELSE Track([asked EXCEPT !.reason = answers[last].kind], FALSE)
StartInCluster(ic, alive, answers) ==
  IF ic.pod # "" /\ ic.pod \in alive THEN ic ELSE assignBuildkitPod([ic EXCEPT !.pod = ""], answers)
\* The pod is called by its address and has the certificate of the builder; the
\* token goes with a certificate only.
GetBuildkitClient(ic, f) ==
  CASE ic.pod = "" -> [err |-> "no pod"]
    [] ic.pod # "" /\ f.cert /\ f.fails -> [err |-> "certificate"]
    [] ic.pod # "" /\ f.cert /\ ~f.fails -> [err |-> "", address |-> ic.pod, server |-> "builder", token |-> TRUE]
    [] ic.pod # "" /\ ~f.cert -> [err |-> "", address |-> ic.pod, server |-> "", token |-> FALSE]

-----------------------------------------------------------------------------
(* Credentials of a registry: of the platform, and of the machine, where they  *)
(* are a pair, an identity token, none, behind a helper that is not installed, *)
(* or an error.                                                                *)

NoCredentials == [user |-> "", secret |-> ""]
areCredentialsValid(r) == r.user # "" \/ r.secret # ""
getLocalCredentials(kind) ==
  CASE kind = "pair" -> [user |-> "local", secret |-> "local"]
    [] kind = "identity" -> [user |-> "", secret |-> "local"]
    [] kind \in {"none", "no helper", "half"} -> NoCredentials
getOktetoCredentials(e) == IF e.platform \in {"error", "none"} THEN NoCredentials ELSE [user |-> "platform", secret |-> "platform"]
Credentials(e) ==
  LET platform == getOktetoCredentials(e) IN
  CASE e.host = "okteto" -> [err |-> FALSE, given |-> [user |-> "user", secret |-> "token"]]
    [] e.host # "okteto" /\ e.client = "error" -> [err |-> TRUE, given |-> NoCredentials]
    [] e.host # "okteto" /\ e.client # "error" /\ areCredentialsValid(platform) /\ ~e.localFirst -> [err |-> FALSE, given |-> platform]
    [] e.host # "okteto" /\ e.client # "error" /\ ~(areCredentialsValid(platform) /\ ~e.localFirst) ->
         IF e.machine = "error" THEN [err |-> TRUE, given |-> NoCredentials]
         ELSE [err |-> FALSE, given |-> IF areCredentialsValid(getLocalCredentials(e.machine)) THEN getLocalCredentials(e.machine) ELSE platform]

-----------------------------------------------------------------------------
(* Images that a deployment needs.                                           *)

\* A reference that the registry does not answer for, or answers with an error, is
\* built. The others are told to the commands by their variables.
checkServiceToBuildDuringDeploy(c, registry, failing, m, svc) ==
  LET b == getBuildInfoWithoutVolumeMounts(c, m.build[svc], m.isStack)
      found == GetImageDigestReferenceForServiceDeploy(c, registry, m.name, svc, b)
  IN IF svc \in failing \/ found = NoReference THEN [build |-> TRUE, image |-> <<>>] ELSE [build |-> FALSE, image |-> found]
SetServiceEnvVars(image) ==
  LET ref == ParseReference(image)
  IN [REGISTRY |-> ref.host, REPOSITORY |-> ref.repo, IMAGE |-> image, TAG |-> ref.tag, SHA |-> <<OktetoDefaultImageTag, "@">> \o ref.tag]
\* A service of the compose file without an image gets the variable.
GetServicesToBuildDuringExecution(c, registry, failing, m, svcsToDeploy) ==
  LET wanted == IF svcsToDeploy = {} THEN DOMAIN m.build ELSE DOMAIN m.build \cap svcsToDeploy
      checked == [svc \in wanted |-> checkServiceToBuildDuringDeploy(c, registry, failing, m, svc)]
      there == {svc \in wanted : ~checked[svc].build}
  IN [toBuild |-> wanted \ there,
      variables |-> [svc \in there |-> SetServiceEnvVars(checked[svc].image)],
      compose |-> [svc \in DOMAIN m.services |-> IF svc \in there /\ m.services[svc] = "" THEN "variable" ELSE m.services[svc]]]

-----------------------------------------------------------------------------
(* Errors, as the phrases that their texts have.                             *)

IsRetryable(err) ==
  \/ err.code \in {13, 14, 15}
  \/ "failed commit" \in err.text /\ err.text \cap {"500", "400"} # {}
  \/ err.text \cap {"transport is closing", "dial timeout", "server EOF"} # {}
  \/ {"lookup buildkit", "no such host"} \subseteq err.text
  \/ "failed request" \in err.text /\ err.text \cap {"idle connection", "closed connection"} # {}
  \/ "Canceled" \in err.text /\ err.text \cap {"client closing", "context canceled"} # {}
  \/ {"NotFound", "no such job"} \subseteq err.text
isBuildkitServiceUnavailable(err) == err.text \cap {"connection refused", "500", "context canceled"} # {}
isImageIsNotAccessibleErr(err) ==
  \/ err.text \cap {"insufficient scope", "anonymous token", "UNAUTHORIZED", "pull access denied", "not found"} # {}
  \/ {"failed request", "no such host"} \subseteq err.text
GetSolveErrorMessage(err) ==
  CASE isBuildkitServiceUnavailable(err) -> "service"
    [] ~isBuildkitServiceUnavailable(err) /\ isImageIsNotAccessibleErr(err) /\ "checksum" \notin err.text -> "image"
    [] ~isBuildkitServiceUnavailable(err) /\ ~(isImageIsNotAccessibleErr(err) /\ "checksum" \notin err.text) ->
         IF err.command THEN "command" ELSE "error"
=============================================================================
