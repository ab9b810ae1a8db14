------------------------------ MODULE RepoRules ------------------------------
(***************************************************************************)
(* Cases of RepoHash and BuildRequest and what has to hold of them.        *)
(***************************************************************************)
EXTENDS RuleCase, Integers, Sequences, FiniteSets, SequencesExt, FiniteSetsExt

H == INSTANCE RepoHash
Q == INSTANCE BuildRequest

-----------------------------------------------------------------------------
(* Inputs.                                                                   *)

\* A repository of one file, named for whether the rules leave it out.
GitFiles(name) == [{name} -> {H!Absent, "x", "y"}]
Repos(name) == {[head |-> h, index |-> i, work |-> w, gitignored |-> g] :
                  h, i, w \in GitFiles(name), g \in {{}, {name}}}
Gits == {g \in [found : BOOLEAN, exists : BOOLEAN, broken : BOOLEAN, dubious : BOOLEAN, fixFails : BOOLEAN, project : {"root", "directory"}] :
           /\ ~g.found => g.exists /\ ~g.broken /\ ~g.dubious
           /\ g.broken => ~g.dubious
           /\ g.fixFails => g.dubious
           /\ ~g.exists => ~g.broken /\ ~g.dubious}
GoodGit == [found |-> TRUE, exists |-> TRUE, broken |-> FALSE, dubious |-> FALSE, fixFails |-> FALSE, project |-> "root"]
\* Rules that name the file, and maybe the directory of the project, and those that
\* cannot be read.
GoodRules == [readable |-> TRUE, leaveOut |-> {"ignored"}]
WideRules == [GoodRules EXCEPT !.leaveOut = {"ignored", "elsewhere"}]
BadRules == [GoodRules EXCEPT !.readable = FALSE]
RepoOptions(rules) ==
  {o \in [shouldIgnoreFiles : BOOLEAN, rules : rules] : ~o.shouldIgnoreFiles => o.rules = GoodRules}
Timely == SUBSET {"sha", "diff", "untracked"}
AllTimely == {"sha", "diff", "untracked"}
PlainInfo == [target |-> "t", args |-> <<>>, secrets |-> <<>>, order |-> <<>>, named |-> "d", inContext |-> "missing"]

HashInputs ==
  {[a |-> a, b |-> b, git |-> git, o |-> o, timely |-> AllTimely, first |-> f] :
     a \in Repos("kept"), b \in {r \in Repos("kept") : r.gitignored = {}}, git \in {g \in Gits : g.found /\ ~g.broken /\ ~g.fixFails},
     o \in RepoOptions({GoodRules, WideRules}), f \in {"diff", "both"}}
IgnoredInputs ==
  {[a |-> a, b |-> b, git |-> [GoodGit EXCEPT !.project = p], o |-> o, timely |-> AllTimely, first |-> "both"] :
     a \in Repos("ignored"), b \in {r \in Repos("ignored") : r.gitignored = {}}, p \in {"root", "directory"}, o \in RepoOptions({GoodRules, BadRules})}
FailingInputs ==
  {[a |-> a, git |-> git, o |-> o, timely |-> t, first |-> f, isRemote |-> r] :
     a \in {r \in Repos("kept") : r.gitignored = {}}, git \in Gits, o \in RepoOptions({GoodRules}),
     t \in Timely, f \in {"diff", "untracked", "both"}, r \in BOOLEAN}

BuildInfoInputs ==
  LET Infos == [target : {"t", ""}, args : {<<>>, <<"a">>}, secrets : [{"s", "r"} -> {[env |-> "v", file |-> ""], [env |-> "", file |-> "v"]}],
                order : {<<"s", "r">>, <<"r", "s">>}, named : {"missing", "unreadable", "d"}, inContext : {"missing", "d"}]
  IN [a : Infos, b : {i \in Infos : i.target = "t" /\ i.args = <<>>}]

IgnoreLines == {<<"header", "deploy">>, <<"header", "test">>, <<"rule", "x">>, <<"rule", "y">>}
IgnoreFileInputs == UNION {[1..n -> IgnoreLines] : n \in 0..4}

RepoAddresses == [scheme : {"ssh", "https", "file"}, user : {"", "u"}, host : {"h", "i"}, port : {"", "1"}, path : {"p", "q"}, git : BOOLEAN]
AddressInputs == {[a |-> a, b |-> b] : a \in RepoAddresses, b \in {x \in RepoAddresses : x.host = "h" /\ x.path = "p"}}

Environments == [repo : {"", "r", "other"}, file : {"", "m", "okteto.yml"}, name : {"one", "two"}]
InferInputs == [remote : {"", "r"}, variable : {"", "variable"}, envs : UNION {[1..n -> Environments] : n \in 0..2},
                manifest : {"", "m"}, discovered : {"okteto.yml"}, name : {"", "flag"}, manifestName : {"", "own"}]

\* A user builds a service and another one, of the same or of another namespace,
\* looks for its image. Images are lists of tags.
DevTag == <<Q!DevRegistry, "/", "app", ":", "1">>
SharedTag == <<Q!GlobalRegistry, "/", "app", ":", "1">>
ForeignTag == <<"ext.io", "/", "team", "/", "app", ":", "1">>
TagLists == {<<>>, <<DevTag>>, <<DevTag, <<Q!DevRegistry, "/", "other", ":", "1">>>>, <<ForeignTag>>, <<SharedTag>>,
             <<<<"reg.io", "/", "n1", "/", "app", ":", "1">>>>, <<<<Q!DevRegistry, "/", "app">>>>}
RegistryUrls == {<<"reg.io">>, <<"reg.io", ":", "5000">>}
BuildContext(url, ns, global, access, smart) ==
  [isOkteto |-> TRUE, url |-> url, ns |-> ns, global |-> global, globalAccess |-> access, smart |-> smart,
   builder |-> <<"builder">>, contextArgs |-> 1]
ReuseInputs ==
  [url : RegistryUrls, global : {"g", ""}, ns : {"n1", "n2"}, access : BOOLEAN, smart : BOOLEAN, theirAccess : BOOLEAN,
   image : TagLists, isStack : BOOLEAN, built : {"h", ""}, wanted : {"h", "i", ""}]
DigestInputs ==
  {i \in [host : {<<>>, <<"localhost">>, <<"reg.io">>, <<"ext.io", ":", "5000">>, <<"host", ":", "5000">>, <<Q!DevRegistry>>, <<Q!GlobalRegistry>>},
      path : {<<"app">>, <<"team", "/", "app">>, <<"a", "/", "b", "/", "app">>},
      tag : {<<>>, <<":", "1">>, <<"@", "d1">>}, global : {"g", ""}, url : RegistryUrls] :
     i.host \in {<<Q!DevRegistry>>, <<Q!GlobalRegistry>>} => i.path = <<"app">>}

\* Arguments are names with numbers, that of the context being 1.
ArgLists == {<<>>} \cup {<<[name |-> n, value |-> v]>> : n \in {"A", "OKTETO_NAMESPACE"}, v \in {0, 2}}
OptionTags == {<<>>, <<DevTag>>, <<SharedTag>>, <<ForeignTag>>, <<<<Q!DevRegistry, "/", "a", "/", "b", ":", "1">>>>, <<DevTag, ForeignTag>>}
CacheLists == {<<>>, <<DevTag>>, <<SharedTag>>, <<DevTag, SharedTag>>}
RequestOptions(tags, targets, caches, args) == [tag : tags, target : targets, cacheFrom : caches, args : args, secrets : {<<>>}]
RequestInfos(images, targets, caches, args) ==
  [image : images, target : targets, cacheFrom : caches, exportCache : CacheLists, args : args, secrets : {<<>>}]
RequestInputs ==
  [o : RequestOptions(OptionTags, {"", "t"}, {<<>>, <<DevTag>>}, ArgLists), b : RequestInfos({<<>>, <<SharedTag>>}, {"u"}, {<<SharedTag>>}, ArgLists),
   global : {"g", ""}, k : [remote : {FALSE}, file : {TRUE}, client : {TRUE}, version : {16}, extraHosts : {FALSE}]]
  \cup [o : RequestOptions(OptionTags, {""}, {<<>>}, {<<>>}), b : RequestInfos(TagLists, {""}, {<<>>}, {<<>>}), global : {"g"},
        k : [remote : BOOLEAN, file : BOOLEAN, client : BOOLEAN, version : {10, 11, 16}, extraHosts : BOOLEAN]]

SecretFields == {<<"src", <<"f">>>>, <<"source", <<"g">>>>, <<"Src", <<"f">>>>, <<"env", <<"v">>>>, <<"src">>}
SecretTexts == {<<<<"id", <<"s">>>>, f>> : f \in SecretFields} \cup {<<<<"id", <<"s">>>>>>, <<<<"src", <<"f">>>>>>}
SecretInputs ==
  {i \in [svcs : {<<>>, <<"a">>, <<"a", "b">>, <<"a", "x">>}, secrets : UNION {[1..n -> SecretTexts] : n \in 0..2},
           own : {<<>>} \cup {<<t>> : t \in SecretTexts}, files : SUBSET {<<"f">>, <<"g">>}] :
     \A k \in DOMAIN i.secrets : Q!validateBuildSecretFlag(i.secrets[k])}

\* A line of a Dockerfile, the words before the image and the image.
LineInputs ==
  [words : {<<"FROM", " ">>, <<"FROM", " ", "--platform=", "x", " ">>, <<"COPY", " ", "--from=">>, <<"RUN", " ", "pull", " ">>},
   image : UNION {ToSet(l) : l \in TagLists}, global : {"g", ""}, url : RegistryUrls, fails : {"", "open", "create", "read", "ignore"}, ignoreFile : BOOLEAN]
MountTexts == {<<"--mount=", "type=cache", ",", "target=", "x">>, <<"--mount=", "target=", "x", "y", ",", "type=cache">>,
               <<"--mount=", "type=cache", ",", "target=", "x", "y">>, <<"--mount=", "type=cache", ",", "id=", "own", ",", "target=", "x">>,
               <<"--mount=", "type=cache", ",", "target=", "x", ",", "id=", "own">>, <<"--mount=", "type=bind", ",", "target=", "x">>}
Projects == [repo : {<<"r">>, <<"q">>}, dockerfile : {<<"d">>, <<"e">>}, target : {<<>>, <<"t">>}]
MountInputs == [p : Projects, q : Projects, first : MountTexts, second : MountTexts, other : MountTexts]

\* What the backend answers, the last answer ending the wait.
PodAnswers == {[kind |-> "pod", pod |-> p, place |-> 0] : p \in {"p1", "p2"}}
QueueAnswer(place) == [kind |-> "queue", pod |-> "", place |-> place]
EndAnswers == PodAnswers \cup {[kind |-> k, pod |-> "", place |-> 0] : k \in {"error", "timeout", "cancelled"}}
AnswerLists == {<<e>> : e \in EndAnswers} \cup {<<QueueAnswer(1), e>> : e \in EndAnswers} \cup {<<QueueAnswer(2), QueueAnswer(1), e>> : e \in EndAnswers}
ConnectorInputs ==
  [first : PodAnswers \cup {QueueAnswer(1)}, alive : SUBSET {"p1", "p2"}, answers : AnswerLists, later : SUBSET {"p1", "p2"}, again : AnswerLists,
   cert : BOOLEAN, fails : BOOLEAN]
BuildCredentialInputs == [host : {"okteto", "other"}, client : {"ok", "error"}, platform : {"pair", "none", "error"}, localFirst : BOOLEAN,
                     machine : {"pair", "identity", "none", "no helper", "half", "error"}]
NeededInputs ==
  [builds : [{"a", "b"} -> [image : {<<>>, <<DevTag>>, <<ForeignTag>>}, dockerfile : BOOLEAN]], isStack : BOOLEAN, there : SUBSET {"a", "b"},
   failing : SUBSET {"a", "b"}, wanted : SUBSET {"a", "b", "c"}, compose : {"", "image"}]
Phrases == {"failed commit", "500", "400", "transport is closing", "lookup buildkit", "no such host", "failed request", "closed connection",
            "Canceled", "context canceled", "NotFound", "no such job", "not found", "checksum", "connection refused"}
ErrorInputs == [code : {2, 13}, text : {t \in SUBSET Phrases : Cardinality(t) <= 3}, command : BOOLEAN]

RepoParts == {"repo hash", "repo ignored", "repo failing", "repo info", "repo sections", "repo addresses", "repo name",
              "image reuse", "image digests", "build request", "build secrets", "build lines", "build mounts",
              "build connector", "build credentials", "needed images", "build errors"}
RepoInputs(p) ==
  CASE p = "repo hash" -> HashInputs [] p = "repo ignored" -> IgnoredInputs [] p = "repo failing" -> FailingInputs
    [] p = "repo info" -> BuildInfoInputs [] p = "repo sections" -> IgnoreFileInputs [] p = "repo addresses" -> AddressInputs
    [] p = "repo name" -> InferInputs
    [] p = "image reuse" -> ReuseInputs [] p = "image digests" -> DigestInputs
    [] p = "build request" -> RequestInputs [] p = "build secrets" -> SecretInputs
    [] p = "build lines" -> LineInputs [] p = "build mounts" -> MountInputs
    [] p = "build connector" -> ConnectorInputs [] p = "build credentials" -> BuildCredentialInputs
    [] p = "needed images" -> NeededInputs [] p = "build errors" -> ErrorInputs

HashAt(i, repo, time) ==
  H!hashWithBuildContext(NoMap, "s", PlainInfo, repo, i.git, i.o, i.timely, i.first, time)
\* One user builds into an empty registry, the other looks, copies and deploys.
ReuseResult(i) ==
  LET mine == BuildContext(i.url, "n1", i.global, i.access, i.smart)
      theirs == BuildContext(i.url, i.ns, i.global, i.theirAccess, TRUE)
      b == [image |-> i.image, dockerfile |-> TRUE]
      used(tags, info, first, found, copied) ==
        [tags |-> tags, found |-> found, copied |-> copied.image, before |-> first, after |-> copied.registry,
         used |-> Q!GetImageDigestReferenceForServiceDeploy(theirs, copied.registry, "m", "s", info)]
      copy(tags, info, first, found) ==
        used(tags, info, first, found,
             IF found = Q!NoReference THEN [registry |-> first, image |-> found]
             ELSE Q!cloneGlobalImageToDev(theirs, first, found, "m", "s", info))
      find(tags, info, first) == copy(tags, info, first, Q!IsCached(theirs, first, "m", info.image, i.wanted, "s"))
      push(tags, info) == find(tags, info, FoldLeft(LAMBDA reg, t : Q!Pushed(reg, t, "d1"), NoMap, tags))
  IN push(Q!extendRegistries(mine, Q!TagsToBuild(mine, "m", "s", Q!getBuildInfoWithoutVolumeMounts(mine, b, i.isStack), i.built)),
          Q!getBuildInfoWithoutVolumeMounts(theirs, b, i.isStack))
\* Two starts of one connector, each with the pods that are alive then.
ConnectorResult(i) ==
  LET one == Q!StartInCluster(Q!NewInClusterConnector(i.first), i.alive, i.answers)
      two == Q!StartInCluster(one, i.later, i.again)
      f == [cert |-> i.cert, fails |-> i.fails]
  IN [one |-> one, two |-> two, clients |-> <<Q!GetBuildkitClient(one, f), Q!GetBuildkitClient(two, f)>>,
      type |-> [e \in [queue : BOOLEAN, inCluster : BOOLEAN, answers : BOOLEAN] |-> Q!connTypeFromConnector(Q!GetBuildkitConnector(e))]]
DigestOf == [a |-> "da", b |-> "db"]
NeededResult(i) ==
  LET c == BuildContext(<<"reg.io">>, "n1", "g", TRUE, TRUE)
      m == [name |-> "m", isStack |-> i.isStack, build |-> i.builds, services |-> [s \in {"a", "c"} |-> i.compose]]
      tagsOf(s) == Q!extendRegistries(c, Q!TagsToBuild(c, "m", s, Q!getBuildInfoWithoutVolumeMounts(c, i.builds[s], i.isStack), "h"))
      push(reg, s) == FoldLeft(LAMBDA r, t : Q!Pushed(r, t, DigestOf[s]), reg, tagsOf(s))
      registry == FoldLeft(push, NoMap, SetToSeq(i.there))
  IN [needed |-> Q!GetServicesToBuildDuringExecution(c, registry, i.failing, m, i.wanted), registry |-> registry]
RepoResult(p, i) ==
  CASE p \in {"repo hash", "repo ignored"} -> [a |-> HashAt(i, i.a, 1), b |-> HashAt(i, i.b, 2)]
    [] p = "repo failing" ->
         [now |-> HashAt(i, i.a, 1), later |-> HashAt(i, i.a, 2), diff |-> H!GetDiff(i.a, i.git, i.o).diff,
          commit |-> H!addEnvVars("", i.a, i.git, i.timely, i.isRemote)]
    [] p = "repo info" -> [a |-> H!hash(i.a, <<>>, <<>>), b |-> H!hash(i.b, <<>>, <<>>)]
    [] p = "repo sections" -> [deploy |-> H!Rules(i, <<H!RootSection, "deploy">>), test |-> H!Rules(i, <<H!RootSection, "test">>)]
    [] p = "repo addresses" -> [equal |-> H!IsEqual(i.a, i.b), https |-> <<H!switchRepoSchemaToHTTPS(i.a), H!switchRepoSchemaToHTTPS(i.b)>>,
                                strings |-> <<H!StringOf(i.a), H!StringOf(i.b)>>]
    [] p = "repo name" -> H!setDeployOptionsValuesFromManifest(i.name, i.manifestName,
                            H!InferName(i.remote, i.variable, "base", i.envs, i.manifest, i.discovered))
    [] p = "image reuse" -> ReuseResult(i)
    [] p = "image digests" ->
         LET c == BuildContext(i.url, "n1", i.global, TRUE, TRUE)
             image == (IF i.host = <<>> THEN i.path ELSE i.host \o <<"/">> \o i.path) \o i.tag
             expanded == Q!expandImageRegistries(c, image)
             registry == Q!Pushed(NoMap, expanded, "d1")
             digest == Q!GetImageTagWithDigest(c, registry, image)
         IN [expanded |-> Q!ParseReference(expanded), digest |-> Q!ParseReference(digest), found |-> digest # Q!NoReference,
             again |-> Q!GetDigest(registry, digest)]
    [] p = "build request" ->
         LET c == BuildContext(<<"reg.io">>, "n1", i.global, TRUE, TRUE)
             opts == Q!OptsFromBuildInfo(c, "m", "s", i.b, i.o)
         IN [opts |-> opts, request |-> Q!BuildSolveOpt(c, opts, i.k)]
    [] p = "build secrets" ->
         Q!BuildEach(i.files, i.svcs, {"a", "b"}, [tag |-> <<>>, target |-> "", cacheFrom |-> <<>>, secrets |-> i.secrets], i.own)
    [] p = "build lines" ->
         LET c == BuildContext(i.url, "n1", i.global, TRUE, TRUE)
         IN [line |-> Q!translateRegistry(c, i.words \o i.image), image |-> Q!expandImageRegistries(c, i.image),
             left |-> Q!buildWithOkteto(i.fails, i.ignoreFile)]
    [] p = "build mounts" ->
         [first |-> Q!MountsOf(Q!translateCacheMounts(i.p, <<"RUN", " ">> \o i.first \o <<" ">> \o i.second \o <<" ", "make">>)),
          other |-> Q!MountsOf(Q!translateCacheMounts(i.q, <<"RUN", " ">> \o i.other \o <<" ", "make">>))]
    [] p = "build connector" -> ConnectorResult(i)
    [] p = "build credentials" -> Q!Credentials(i)
    [] p = "needed images" -> NeededResult(i)
    [] p = "build errors" -> [retry |-> Q!IsRetryable(i), message |-> Q!GetSolveErrorMessage(i)]

-----------------------------------------------------------------------------
(* Properties.                                                               *)

\* An image is taken for that of a build only when the two builds have the same
\* files: equal hashes of two processes mean equal content on disk, whatever fails
\* and in whatever order git is met (smartbuild/hasher.go), but for what a hash with
\* the rules of .dockerignore does not see.
EqualHashesEqualBuilds ==
  Has("repo hash") /\ out.a = out.b =>
    \/ H!BuildContent(in.a, in.o) = H!BuildContent(in.b, in.o)
    \/ H!HashIsBlind(in.a, in.git, in.o) \/ H!HashIsBlind(in.b, in.git, in.o)

\* A file that the rules leave out does not change the hash, as long as the project
\* is the root of its repository; a rule that cannot be read leaves nothing out.
IgnoredFilesDoNotCount ==
  Has("repo ignored") /\ in.o.shouldIgnoreFiles /\ in.git.project = "root" =>
    /\ in.o.rules.readable => out.a = out.b
    /\ out.a = out.b => \/ H!BuildContent(in.a, in.o) = H!BuildContent(in.b, in.o)
                        \/ H!HashIsBlind(in.a, in.git, in.o) \/ H!HashIsBlind(in.b, in.git, in.o)

\* A hash is the same in a later process exactly when git said all in time: what is
\* unknown is always built.
UnknownIsBuilt ==
  Has("repo failing") =>
    LET g == in.git IN
    /\ out.now = out.later => in.timely = AllTimely /\ g.found /\ g.exists /\ ~g.broken /\ (g.dubious => in.o.shouldIgnoreFiles)
    /\ in.timely = AllTimely /\ g = GoodGit => out.now = out.later

\* A deployment has the commit of the repository only when that is what is on disk.
CommitIsWhatIsDeployed ==
  Has("repo failing") =>
    /\ out.commit[1] = "commit" => in.a.head = in.a.index /\ (in.a.work = in.a.index \/ in.a.gitignored # {})
    /\ out.commit[1] = "none" => in.isRemote

\* Builds with the same hash have the same options, and with one order of the
\* secrets the same options have the same hash. Only a Dockerfile that cannot be
\* read counts as an empty one.
HashesHaveTheOptions ==
  Has("repo info") =>
    /\ out.a = out.b => /\ in.a.target = in.b.target /\ in.a.args = in.b.args /\ in.a.secrets = in.b.secrets
                        /\ in.a.named = in.b.named \/ "d" \in {in.a.inContext, in.b.inContext}
    /\ in.a.order = in.b.order /\ [in.a EXCEPT !.inContext = "d"] = [in.b EXCEPT !.inContext = "d"] /\ in.a.named # "missing" => out.a = out.b

\* A command leaves out what the head of the file or its own section says, and
\* nothing that another section says.
SectionsAreApart ==
  Has("repo sections") =>
    LET root == {in[i][2] : i \in {j \in DOMAIN in : in[j][1] = "rule" /\ \A k \in 1..j : in[k][1] = "rule"}}
        own(s) == {in[i][2] : i \in {j \in DOMAIN in : in[j][1] = "rule" /\ \E k \in 1..j : in[k] = <<"header", s>>
                                                       /\ \A l \in k + 1..j : in[l][1] = "rule"}}
    IN ToSet(out.deploy) = root \cup own("deploy") /\ ToSet(out.test) = root \cup own("test")

\* Two addresses of a repository that the platform sees as one are one to the CLI,
\* and two that are one to the CLI are the same address, but for its port.
AddressesMeet ==
  Has("repo addresses") =>
    /\ out.https[1] = out.https[2] /\ out.https[1].path # "" => out.equal
    /\ out.equal /\ in.a.port = in.b.port /\ "file" \notin {in.a.scheme, in.b.scheme} => out.strings[1] = out.strings[2]
    /\ \A s \in {out.strings[1], out.strings[2]} : s.user = ""

\* An environment is updated only by its own name, or by the same repository and
\* manifest; a name that is given is always used.
NamesAreOfTheManifest ==
  Has("repo name") =>
    /\ in.name # "" => out = in.name
    /\ in.name = "" /\ in.manifestName # "" => out = "own"
    /\ out \in {"one", "two"} => \E e \in ToSet(in.envs) : /\ e.name = out /\ e.repo = "r" /\ in.remote = "r"
                                                           /\ e.file = IF in.manifest = "" /\ e.file # "" THEN "okteto.yml" ELSE in.manifest

\* An image is found only by the hash it was built with, and by that it is: every
\* user finds what another one with access to the shared images has built. What is
\* found is what is then deployed, and no image of another namespace is touched
\* (image_cache.go, cloner.go, tagger.go). The shared copies of several tags are not
\* found, nor is there one where the address of the registry has a port; and where
\* the platform does not name the shared namespace the image is used without a copy.
ImagesAreFoundAgain ==
  Has("image reuse") =>
    LET found == out.found # Q!NoReference
        looked == Q!getBuildInfoWithoutVolumeMounts(BuildContext(in.url, in.ns, in.global, TRUE, TRUE),
                                                    [image |-> in.image, dockerfile |-> TRUE], in.isStack).image
    IN /\ found => in.built = in.wanted /\ in.built # "" /\ in.access /\ in.smart
       /\ in.access /\ in.smart /\ in.theirAccess /\ in.built = "h" /\ in.wanted = "h" /\ in.url = <<"reg.io">>
            /\ looked \in {<<>>, <<DevTag>>} => found
       /\ found /\ in.global # "" => out.copied # Q!NoReference /\ Q!ParseReference(out.used).tag = <<"d1">>
       /\ \A k \in DOMAIN out.before \cup DOMAIN out.after : k[2][1] # in.ns =>
            k \in DOMAIN out.before /\ k \in DOMAIN out.after /\ out.before[k] = out.after[k]

\* The reference by digest names the repository that the image was asked of, and can
\* be read again (registry.go, image.go). A host without a dot is taken for a part of
\* Docker Hub unless two parts follow it.
DigestsNameTheImage ==
  Has("image digests") =>
    /\ out.found
    /\ in.host \notin {<<"localhost">>, <<"host", ":", "5000">>} \/ in.path # <<"app">> =>
         /\ out.digest.host = out.expanded.host /\ out.digest.repo = out.expanded.repo
         /\ out.again = "d1"

\* A request is what was asked: a flag of the command wins over the manifest, an
\* argument keeps the value of the one that wins, no short name of a registry reaches
\* BuildKit, and the frontend knows the options it gets (OptsFromBuildInfo, opt.go).
\* A flag for a variable of the context that the manifest does not name has the larger
\* of its value and the one of the context. Short names are refused only when they
\* have parts of their own, or name shared images that the platform has no namespace for.
RequestsAreWhatWasAsked ==
  Has("build request") =>
    LET r == out.request
        argsOf(args, n) == {args[k].value : k \in {j \in DOMAIN args : args[j].name = n}}
    IN /\ r.err = "tag" =>
            \/ in.o.tag = <<<<Q!DevRegistry, "/", "a", "/", "b", ":", "1">>>>
            \/ in.global = "" /\ <<SharedTag>> \in {in.o.tag, in.b.image}
       /\ r.err = "" =>
            /\ \A n \in Q!NamesOf(in.o.args) : argsOf(in.o.args, n) = {r.args[n]} \/ n \in Q!ContextArgs \ Q!NamesOf(in.b.args)
            /\ \A n \in Q!NamesOf(in.b.args) \ Q!NamesOf(in.o.args) : argsOf(in.b.args, n) = {r.args[n]}
            /\ r.target = IF in.o.target # "" THEN in.o.target ELSE in.b.target
            /\ \A t \in ToSet(r.pushed) \cup ToSet(r.cacheImports) \cup {e.ref : e \in ToSet(r.cacheExports)} : Q!ParseReference(t).valid
            /\ in.o.tag # <<>> => Len(r.pushed) = Len(in.o.tag) /\ (ForeignTag \in ToSet(r.pushed)) = (ForeignTag \in ToSet(in.o.tag))
            /\ Cardinality({k \in DOMAIN r.cacheExports : r.cacheExports[k].type = "inline"}) <= 1
            /\ in.k.extraHosts /\ in.k.version < 16 => r.frontend = "gateway"

\* A build runs with its secrets or not at all: each of its files is there, expanded,
\* while it runs, and none when it has ended, however it ends. A list that one build
\* rewrote is read by no other, as flags are of one image (runner.go, opt.go, command.go).
SecretsAreThere ==
  Has("build secrets") =>
    /\ out.files = in.files
    /\ \A k \in DOMAIN out.runs :
         LET asked == in.secrets \o in.own
             run == out.runs[k]
         IN /\ run.err = (\E i \in DOMAIN asked, j \in 1..2 : j \in DOMAIN asked[i]
                           /\ (Len(asked[i][j]) # 2 \/ (Q!IsSource(asked[i][j]) /\ asked[i][j][2] \notin in.files)))
            /\ ~run.err => \A i \in DOMAIN asked : \A j \in DOMAIN run.secrets[i] :
                 Q!IsSource(asked[i][j]) => /\ run.secrets[i][j][2] = Q!TempOf(asked[i][j][2])
                                            /\ run.secrets[i][j][2] \in run.during
    /\ Len(in.svcs) > 1 /\ in.secrets # <<>> => out.runs = <<>>

\* BuildKit reads the image of a line where the CLI looks for it, when its name starts
\* a word; a build that was translated leaves at most the copy of its ignore file
\* (translator.go, file.go, build.go).
LinesNameTheImages ==
  Has("build lines") =>
    /\ in.words[Len(in.words)] = " " => out.line = in.words \o out.image
    /\ in.words[Len(in.words)] # " " => out.line = in.words \o in.image
    /\ in.fails = "" => out.left \subseteq {"dockerignore"}

\* Two caches are one exactly when they are of the same repository, Dockerfile, stage
\* and folder; a cache with an id of its own keeps it (translator.go). A cache whose
\* text begins an earlier mount that has an id is left without one.
CacheMountsAreApart ==
  Has("build mounts") =>
    LET IdOf(m) == LET k == CHOOSE k \in DOMAIN m : m[k] = "id="
                   IN SubSeq(m, k + 1, Min({j \in k..Len(m) : m[j] = ","} \cup {Len(m) + 1}) - 1)
        plain(m) == Q!HasToken(m, "type=cache") /\ ~Q!HasToken(m, "id=")
        same(m, p, q) == p = q /\ Q!TargetOf(m) = Q!TargetOf(in.other)
        hidden == ~plain(in.first) /\ IsPrefix(in.second, in.first)
    IN ~hidden /\ plain(in.other) =>
         /\ plain(in.first) => (IdOf(out.first[1]) = IdOf(out.other[1])) = same(in.first, in.p, in.q)
         /\ plain(in.second) => (IdOf(out.first[2]) = IdOf(out.other[1])) = same(in.second, in.p, in.q)
         /\ ~plain(in.first) => out.first[1] = in.first

\* A build through the cluster talks to a pod that was alive when it started or was
\* assigned for it; after a failed wait there is none, also where an earlier build
\* left one, and each wait is counted once (incluster.go, metrics.go). A success after
\* a failure is counted with the reason of that failure.
ClientsReachALivePod ==
  Has("build connector") =>
    LET sound(ic, alive, answers) ==
          ic.pod # "" => ic.pod \in alive \/ answers[Len(answers)].pod = ic.pod
        before == IF in.first.kind = "pod" THEN 1 ELSE 0
        waits == Len(out.two.tracked) - before
    IN /\ sound(out.one, in.alive, in.answers) /\ sound(out.two, in.later, in.again)
       /\ out.one.pod = "" => ~out.one.tracked[Len(out.one.tracked)].success
       /\ out.two.pod # "" /\ out.one.pod # out.two.pod => waits >= 1
       /\ \A k \in DOMAIN out.two.tracked : LET t == out.two.tracked[k] IN
            t.success /\ t.reason # "" => \E j \in 1..k - 1 : ~out.two.tracked[j].success /\ out.two.tracked[j].reason = t.reason
       /\ \A k \in 1..2 : out.clients[k].err = "" => out.clients[k].token = (out.clients[k].server = "builder")
       /\ waits <= 2

\* A registry is called without credentials only when neither the platform nor the
\* machine has any, and those of okteto never go to another registry (authprovider.go).
CredentialsAreFound ==
  Has("build credentials") =>
    LET given == out.given IN
    /\ (given.secret = "token") = (in.host = "okteto")
    /\ in.host # "okteto" /\ ~out.err =>
         /\ in.platform = "pair" => given.secret # ""
         /\ in.machine \in {"pair", "identity"} /\ in.platform # "pair" => given.secret = "local"
         /\ in.machine \in {"pair", "identity"} /\ in.localFirst => given.secret = "local"
    /\ out.err => in.client = "error" \/ in.machine = "error"

\* A deployment finds every image it needs: a service is built, or its variables name
\* an image that the registry has, the one that was built for it; a registry that
\* does not answer means a build (services.go, environment.go). Two services that say
\* the same tag share the image that was pushed last.
NeededImagesAreThere ==
  Has("needed images") =>
    LET r == out.needed
        wanted == IF in.wanted = {} THEN {"a", "b"} ELSE {"a", "b"} \cap in.wanted
    IN /\ r.toBuild \cup DOMAIN r.variables = wanted /\ r.toBuild \cap DOMAIN r.variables = {}
       /\ in.failing \cap wanted \subseteq r.toBuild
       /\ \A s \in DOMAIN r.variables :
            /\ Q!GetDigest(out.registry, r.variables[s].IMAGE) \in {"da", "db"}
            /\ Q!ParseReference(r.variables[s].IMAGE).repo = r.variables[s].REPOSITORY
            /\ in.builds["a"] # in.builds["b"] /\ <<DevTag>> \notin {in.builds["a"].image, in.builds["b"].image} =>
                 Q!GetDigest(out.registry, r.variables[s].IMAGE) = DigestOf[s] \/ in.builds[s].image = <<ForeignTag>>
       /\ r.compose["c"] = in.compose
       /\ r.compose["a"] = "variable" => "a" \in DOMAIN r.variables

\* The failure of a command is not retried for what the command prints: it takes a
\* phrase of BuildKit or of the connection; and what is reported as a failed command
\* is one (errors.go).
CommandsAreNotRetried ==
  Has("build errors") =>
    /\ in.code = 2 /\ in.text \cap {"failed commit", "transport is closing", "lookup buildkit", "failed request", "Canceled", "NotFound"} = {} =>
         ~out.retry
    /\ in.command /\ in.text \cap {"500", "context canceled", "connection refused", "not found", "failed request"} = {} => out.message = "command"
    /\ out.message = "command" => in.command
=============================================================================
