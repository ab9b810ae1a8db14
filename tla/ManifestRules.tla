---------------------------- MODULE ManifestRules ----------------------------
(***************************************************************************)
(* Cases of the manifest, of its development containers and of its short   *)
(* forms: all small inputs, and what their results must satisfy.           *)
(***************************************************************************)
EXTENDS Integers, Sequences, FiniteSets, SequencesExt, RuleCase

M == INSTANCE ManifestLoad
Y == INSTANCE ManifestSyntax
K == INSTANCE PodTranslate

-----------------------------------------------------------------------------
(* Inputs.                                                                   *)

Contents == {"okteto", "composed", "compose", "cyclic", "noservice", "bad"}
Dir(o, p, c) == [okteto |-> o, pipeline |-> p, compose |-> c, section |-> "compose"]
Dirs == {Dir(o, p, c) : o \in {<<"none">>, <<"none", "okteto">>} \cup {<<x>> : x \in Contents},
                        p \in {<<>>} \cup {<<x>> : x \in Contents},
                        c \in {<<>>} \cup {<<x>> : x \in Contents}}
NoArg == [kind |-> "none", content |-> "none", composeName |-> FALSE, section |-> "none",
          dir |-> Dir(<<>>, <<>>, <<>>)]
FileInputs ==
  [cwd : Dirs,
   arg : {NoArg, [NoArg EXCEPT !.kind = "dir"],
          [NoArg EXCEPT !.kind = "dir", !.dir = Dir(<<>>, <<>>, <<"compose">>)]}
         \cup {[NoArg EXCEPT !.kind = "file", !.content = x, !.composeName = n, !.section = s] :
                 x \in Contents, n \in BOOLEAN, s \in {"compose", "bad"}}]

Services == {"s", "t"}
StackService ==
  {v \in [build : BOOLEAN, image : {"", "img"}, mounts : 0..2, dirs : 0..1] :
     v.dirs <= v.mounts /\ (v.build \/ v.image # "")}
SectionInputs ==
  [services : [Services -> StackService], devs : {NoMap, [s |-> "manifest"]},
   builds : {NoMap, [s |-> "manifest"]}, devImage : {"", "img"}, autocreate : BOOLEAN]

Sane == [x \in {"A_b", "a_b", "a-b", "c"} |-> IF x = "c" THEN "c" ELSE "a-b"]
SaneInputs == SUBSET DOMAIN Sane

ClosureNodes == {"x", "y", "z", "w"}
ClosureInputs ==
  [g : [ClosureNodes -> {{}} \cup {{n} : n \in ClosureNodes} \cup {{"x", "w"}, {"y", "z"}}],
   from : {<<"x">>, <<"y", "x">>}]

SmallPaths == SeqOf({"a", "b"}, 3) \ {<<>>}
Folder(l, k) == [local |-> l, remote |-> <<"r", k>>]
SyncInputs ==
  [folders : {<<Folder(l, 1)>> : l \in SmallPaths}
             \cup {<<Folder(l, 1), Folder(k, 2)>> : l \in SmallPaths, k \in SmallPaths}
             \cup {<<Folder(l, 1), Folder(<<"a">>, 2), Folder(k, 3)>> : l \in SmallPaths, k \in SmallPaths},
   service : {<<>>} \cup {<<Folder(l, 1)>> : l \in SmallPaths}]

Contexts ==
  [nonRoot : {"", "true", "false"}, user : {M!Unset, 0, 5}, group : {M!Unset, 6}, fsGroup : {M!Unset, 7},
   set : {TRUE}]
NoContext == [nonRoot |-> "", user |-> M!Unset, group |-> M!Unset, fsGroup |-> M!Unset, set |-> FALSE]
PlainDev ==
  [name |-> "d", replicas |-> M!Unset, pull |-> "", secrets |-> <<>>, sc |-> NoContext, pv |-> TRUE,
   folders |-> <<>>, volumes |-> <<>>, workdir |-> <<>>, cwd |-> <<"a">>, services |-> <<>>,
   sshPort |-> 0, command |-> <<>>, timeout |-> 0, rescan |-> 0, mode |-> "", extra |-> FALSE,
   remotePort |-> 0, reverse |-> FALSE, access |-> "ReadWriteOnce"]
Vols == {<<>>, <<[local |-> <<"b">>, remote |-> <<"v">>, synced |-> TRUE]>>,
         <<[local |-> <<>>, remote |-> <<"v">>, synced |-> FALSE]>>}
DefaultsInputs ==
  {[dev |-> [PlainDev EXCEPT !.sc = c, !.pv = p, !.pull = i, !.workdir = w, !.volumes = v,
                             !.services = s],
    var |-> r] :
     c \in Contexts \cup {NoContext}, p \in BOOLEAN, i \in {"", "Never"}, w \in {<<>>, <<"w">>},
     v \in Vols,
     s \in {<<>>, <<[PlainDev EXCEPT !.folders = <<Folder(<<"a">>, 1)>>]>>,
            <<[PlainDev EXCEPT !.workdir = <<"w">>]>>},
     r \in {0, 9}}

DevEnvInputs ==
  [env : [{"k", "l"} -> {"", "e"}], section : {<<>>, <<[name |-> "k", value |-> "s"]>>},
   files : SeqOf([{"k"} -> {"", "1", "2"}] \cup [{"k", "l"} -> {"", "1", "2"}], 2)]

\* The flags -e of okteto up; $v is set on the machine.
FlagTexts == {<<"">>, <<"k">>, <<"", "x">>, <<"OKTETO_NAMESPACE", "x">>, <<"BUILDKIT_HOST">>}
             \cup {<<n, v>> : n \in {"k", "l"}, v \in {"x", "$v", "${"}}
FlagInputs ==
  [environment : SeqOf([name : {"k"}, value : {"s", "t"}], 2), flags : SeqOf(FlagTexts, 2),
   secrets : {<<>>, <<[local |-> "key", base |-> "b"]>>}, remote : {0, 22}, pull : BOOLEAN,
   sshVar : {"", "false"}, keys : BOOLEAN]
FlagMachine == [n \in {"", "k", "v", "BUILDKIT_HOST"} |-> IF n = "v" THEN "value" ELSE "m"]

UpInputs ==
  [inside : BOOLEAN, okteto : BOOLEAN, deployFlag : BOOLEAN, autoDeploy : {FALSE}, deployed : BOOLEAN,
   deploy : {"ok", "nothing to deploy", "error"}, manifest : {M!GetManifestV2(NoArg, d) : d \in Dirs},
   needsOkteto : BOOLEAN, namespace : {"new"}, name : {""}, devs : {{}, {"d"}}, dev : {"d"},
   syncthing : {"current", "old", "missing"},
   fails : {"none", "create namespace", "wake", "build", "syncthing"}]

Var(n, v) == [name |-> n, value |-> v]
HybridInputs ==
  {[app |-> TRUE, okteto |-> o, answers |-> a, image |-> <<Var("PATH", "image"), Var("k", "image")>>,
    platform |-> <<Var("k", "platform"), Var("l", "platform")>>,
    configMap |-> [decodes |-> d, variables |-> c],
    container |-> [env |-> e, envFrom |-> f],
    objects |-> b, machine |-> <<Var("PATH", p), Var("TERM", "local"), Var("k", "local")>>,
    environment |-> v] :
     o \in BOOLEAN, a \in BOOLEAN, d \in BOOLEAN, c \in {<<>>, <<Var("k", "deploy")>>},
     e \in SeqOf({[name |-> n, value |-> "container", from |-> w] : n \in {"k", "PATH"}, w \in {"", "a"}}, 2),
     f \in SeqOf({"a", "b"}, 2),
     b \in {NoMap, [a |-> [k |-> "of a"]], [a |-> [l |-> "of a"], b |-> [k |-> "of b", l |-> "of b"]]},
     p \in {"", "local"}, v \in {<<>>, <<Var("k", "dev")>>, <<Var("PATH", "dev")>>}}

-----------------------------------------------------------------------------
(* What is computed.                                                         *)

\* The sections of the manifest after the stack, and the images after the builds.
SectionsResult(i) ==
  LET m == M!InferFromStack(i.devs, i.builds, i.services, TRUE)
      devs == [n \in DOMAIN m.devs |-> [image |-> i.devImage, autocreate |-> i.autocreate]]
  IN [manifest |-> m,
      images |-> M!ExpandEnvVars(i.services, devs, DOMAIN m.builds, <<>>,
                                 [n \in Services |-> IF n \in DOMAIN m.builds THEN "built " \o n ELSE ""])]

\* A dev with its services after the manifest was read, and the rules of the containers.
SyncResult(i) ==
  LET service == [PlainDev EXCEPT !.folders = i.service, !.pull = "Always"]
      dev == [PlainDev EXCEPT !.folders = i.folders, !.pull = "Always", !.sshPort = 1,
                              !.services = IF i.service = <<>> THEN <<>> ELSE <<service>>]
      parent == M!computeParentSyncFolder(i.folders)
      hybrid == M!setSyncDefaultsByDevMode([dev EXCEPT !.mode = "hybrid"], "temporary")
  IN [hybrid |-> M!ToTranslationRule(hybrid, hybrid, M!computeParentSyncFolder(hybrid.folders), TRUE, FALSE, ""),
      valid |-> M!Validate(dev), parent |-> parent,
      main |-> M!ToTranslationRule(dev, dev, parent, TRUE, FALSE, ""),
      service |-> M!ToTranslationRule(service, dev, parent, FALSE, FALSE, "")]

\* The manifest sets its defaults when it is read and again after the stack.
DefaultsResult(i) ==
  LET first == M!DevDefaults(i.dev, i.var)
  IN [first |-> first, second |-> M!DevDefaults(first.dev, i.var)]

FlagResult(i) ==
  LET dev == [PlainDev EXCEPT !.secrets = i.secrets, !.pull = "Never",
                              !.services = <<[PlainDev EXCEPT !.pull = "Never"]>>]
  IN M!loadManifestOverrides(dev, i.environment, [remote |-> i.remote, pull |-> i.pull, envs |-> i.flags],
                             FlagMachine, i.sshVar, i.keys)

ManifestParts == {"files", "sections", "sane", "closure", "sync", "defaults", "devenv", "flags", "up", "hybrid"}

ManifestInputs(p) ==
  CASE p = "files" -> FileInputs [] p = "sections" -> SectionInputs [] p = "sane" -> SaneInputs
    [] p = "closure" -> ClosureInputs [] p = "sync" -> SyncInputs [] p = "defaults" -> DefaultsInputs
    [] p = "devenv" -> DevEnvInputs [] p = "flags" -> FlagInputs [] p = "up" -> UpInputs
    [] p = "hybrid" -> HybridInputs

ManifestResult(p, i) ==
  CASE p = "files" -> M!GetManifestV2(i.arg, i.cwd) [] p = "sections" -> SectionsResult(i)
    [] p = "sane" -> M!SanitizeSvcNames([k \in i |-> k], Sane)
    [] p = "closure" -> [nodes |-> M!getDependentNodes(i.g, i.from), up |-> M!UpBuilds("i", Head(i.from), i.g)]
    [] p = "sync" -> SyncResult(i) [] p = "defaults" -> DefaultsResult(i)
    [] p = "devenv" -> M!expandEnvFiles(i.section, i.files, i.env)
    [] p = "flags" -> FlagResult(i) [] p = "up" -> M!UpSteps(i) [] p = "hybrid" -> M!getEnvs(i)

-----------------------------------------------------------------------------
(* Properties.                                                               *)

\* GetManifestV2: the file that decides is the first there is of the argument, the
\* manifest, the pipeline and the compose file; one that cannot be read is an error
\* and is never passed over for the next.
NoFileIsPassedOver ==
  Has("files") =>
    LET dir == IF in.arg.kind = "dir" THEN in.arg.dir ELSE in.cwd
        files == SelectSeq((IF in.arg.kind = "file" THEN <<in.arg.content>> ELSE <<>>)
                             \o dir.okteto \o dir.pipeline \o dir.compose, LAMBDA c : c # "none")
    IN IF files = <<>> THEN ~out.ok /\ out.err = "nothing to infer"
       ELSE out.ok => Head(files) \in {"okteto", "composed", "compose", "cyclic"}

\* GetManifestV2, LoadStack: a stack that is not valid is accepted only from a file
\* that is named on the command line or has the name of a manifest or a pipeline;
\* the compose file that okteto finds by itself is validated.
InvalidStacksAreNamed ==
  Has("files") /\ out.ok /\ out.type # "okteto" /\ ~out.validated =>
    \/ in.arg.kind = "file"
    \/ LET dir == IF in.arg.kind = "dir" THEN in.arg.dir ELSE in.cwd
       IN \E i \in DOMAIN (dir.okteto \o dir.pipeline) : (dir.okteto \o dir.pipeline)[i] # "none"

\* InferFromStack, ExpandEnvVars: every service whose image okteto builds runs the
\* image of its own build, whoever wrote the build section, and no other image
\* changes; a dev gets it only if it is created by okteto and has no image.
BuiltImagesAreUsed ==
  Has("sections") =>
    /\ \A n \in Services :
         out.images.services[n].image =
           (IF n \in DOMAIN out.manifest.builds THEN "built " \o n ELSE in.services[n].image)
    /\ \A n \in DOMAIN out.images.devs :
         out.images.devs[n].image =
           (IF n \in DOMAIN out.manifest.builds /\ in.devImage = "" /\ in.autocreate
            THEN "built " \o n ELSE in.devImage)

\* SanitizeSvcNames: whatever the order of the map, no entry is lost, and whether the
\* names are refused does not depend on it.
SanitizingLosesNothing ==
  Has("sane") =>
    /\ Cardinality({r.ok : r \in out}) = 1
    /\ \A r \in out : r.ok => {r.entries[n] : n \in DOMAIN r.entries} = in

\* getDependentNodes, upBuilder.build: the builds are those that are asked for and all
\* they need, each once.
BuildsAreClosed ==
  Has("closure") =>
    LET Step(R) == R \cup UNION {in.g[n] : n \in R}
        Reach(R) == Step(Step(Step(Step(R))))
    IN /\ Range(out.nodes) = Reach(Range(in.from)) /\ Len(out.nodes) = Cardinality(Reach(Range(in.from)))
       /\ out.up = Reach({Head(in.from)})

\* computeParentSyncFolder, getSourceSubPath: two folders that are one inside the
\* other on the machine are so in the volume, and others are apart, in the main
\* container and in its services, as long as no folder is above the parent.
SubPathsMirrorFolders ==
  Has("sync") /\ out.valid /\ (\A i \in DOMAIN in.folders : IsPrefix(out.parent, in.folders[i].local)) =>
    LET all == in.folders \o in.service
        Sub(f) == M!getSourceSubPath(out.parent, f.local)
    IN \A i, j \in DOMAIN all :
         IsPrefix(all[i].local, all[j].local) <=> IsPrefix(Sub(all[i]).path, Sub(all[j]).path)

\* computeParentSyncFolder: the parent is above every folder, unless a folder after
\* the first is above the part that the folders before it share.
ParentIsAbove ==
  Has("sync") =>
    \A i \in DOMAIN in.folders :
      \/ IsPrefix(out.parent, in.folders[i].local)
      \/ i > 1 /\ IsStrictPrefix(in.folders[i].local,
                                 M!computeParentSyncFolder(SubSeq(in.folders, 1, i - 1)))

\* getSourceSubPath: the directory of a folder stays in the volume, unless a later
\* folder is two levels above the parent: then the mount has ".." in it, which
\* Kubernetes refuses.  In hybrid mode (setSyncDefaultsByDevMode) no folder of the user
\* is mounted.
SubPathsStayInVolume ==
  Has("sync") /\ out.valid =>
    /\ \A r \in {out.main, out.service} : \A k \in DOMAIN r.mounts :
         r.mounts[k].sub.out > 0 =>
           \E i \in DOMAIN in.folders : Len(in.folders[i].local) + 2 <= Len(out.parent)
    /\ \A k \in DOMAIN out.hybrid.mounts : \A i \in DOMAIN in.folders :
         out.hybrid.mounts[k].path # in.folders[i].remote

\* setDefaults runs when the manifest is read and again after its stack: the second
\* time changes nothing, and it fails (which is only logged) for a dev with services,
\* whose own defaults look like fields that services may not have.
DefaultsAreStable ==
  Has("defaults") /\ out.first.ok =>
    /\ out.second.dev = out.first.dev
    /\ out.second.ok <=> in.dev.services = <<>>

\* setRunAsUserDefaults, validateSecurityContext: the defaults never make a security
\* context invalid nor valid, of the main container or of a service.
DefaultsKeepContextValid ==
  Has("defaults") /\ out.first.ok =>
    /\ M!validateSecurityContext(out.first.dev.sc) <=> M!validateSecurityContext(in.dev.sc)
    /\ in.dev.pv /\ in.dev.sc.nonRoot # "true"
         => \A x \in {out.first.dev.sc} \cup {out.first.dev.services[i].sc : i \in DOMAIN in.dev.services} :
              M!Unset \notin {x.user, x.group, x.fsGroup}

\* expandEnvFiles: a variable of a dev has the value of the environment section, else
\* of the first file that gives it one (in a compose file it is the last), and is
\* there once.
FirstEnvFileWins ==
  Has("devenv") =>
    LET Value(f, n) == IF n \notin DOMAIN f THEN "" ELSE IF f[n] = "" THEN in.env[n] ELSE f[n]
        given(n) == SelectSeq(in.files, LAMBDA f : Value(f, n) # "")
        set(n) == {i \in DOMAIN out : out[i].name = n}
    IN \A n \in {"k", "l"} :
         IF n = "k" /\ in.section # <<>> THEN {out[i].value : i \in set(n)} = {"s"}
         ELSE /\ Cardinality(set(n)) <= 1
              /\ {out[i].value : i \in set(n)}
                   = IF given(n) = <<>> THEN {} ELSE {Value(Head(given(n)), n)}

\* getOverridedEnvVarsFromCmd, loadManifestOverrides: a variable has the value of its
\* last flag, else of its last line in the manifest; none of okteto's own is set by a
\* flag; and a container that is reached by SSH has the key of the machine once.
FlagsWin ==
  Has("flags") /\ out.ok =>
    /\ IF in.flags = <<>> THEN out.env = in.environment
       ELSE /\ DOMAIN out.env \cap M!BuiltInVariables = {}
            /\ \A n \in DOMAIN out.env :
                 LET set == {i \in DOMAIN in.flags : in.flags[i][1] = n}
                     last == in.flags[CHOOSE i \in set : \A j \in set : j <= i]
                 IN out.env[n] = IF set = {} THEN Last(in.environment).value
                                 ELSE IF Len(last) = 1 THEN FlagMachine[n]
                                 ELSE IF last[2] = "$v" THEN "value" ELSE last[2]
    /\ Cardinality({i \in DOMAIN out.dev.secrets : out.dev.secrets[i].local = "key"})
         = IF in.secrets # <<>> \/ in.remote > 0 \/ in.sshVar = "" THEN 1 ELSE 0
    /\ in.pull => {out.dev.pull} \cup {out.dev.services[i].pull : i \in DOMAIN out.dev.services} = {"Always"}

\* Up: a session starts only after the environment was deployed or found, with a dev of
\* the manifest, its images and a syncthing that is installed; the environment is not
\* deployed for a manifest without devs; and no manifest that is missing is used.
SessionsStartPrepared ==
  Has("up") =>
    LET taken == ToSet(out.taken) IN
    /\ ~out.panic
    /\ "start" \in taken =>
         /\ in.manifest.ok /\ in.dev \in in.devs /\ ~in.inside
         /\ in.okteto => in.deployed \/ "deploy" \in taken
         /\ in.fails # "build" /\ ~(in.syncthing = "missing" /\ in.fails = "syncthing")
    /\ "deploy" \in taken => in.devs # {} /\ in.okteto
    /\ ~out.ok => "start" \notin taken

\* getEnvs: a command in hybrid mode sees the value of the manifest, else the path and
\* the terminal of the machine, else what the container sees, except that of a variable
\* that the container has twice it sees the value of the objects and the container the
\* other one.
HybridSeesTheContainer ==
  Has("hybrid") /\ out.ok =>
    LET At(n, env) == {env[i].value : i \in {SelectLastInSeq(env, LAMBDA v : v.name = n)} \ {0}}
        has == SelectSeq(in.container.envFrom, LAMBDA o : "k" \in DOMAIN in.objects[o])
        own == SelectLastInSeq(in.container.env, LAMBDA v : v.name = "k")
        inPod == IF own = 0 THEN in.objects[Last(has)]["k"]
                 ELSE LET v == in.container.env[own]
                      IN IF v.from = "" THEN v.value
                         ELSE IF "k" \in DOMAIN in.objects[v.from] THEN in.objects[v.from]["k"] ELSE ""
    IN /\ \A n \in {in.environment[i].name : i \in DOMAIN in.environment} : At(n, out.env) = {"dev"}
       /\ At("PATH", out.env) # {"image"}
       /\ At("PATH", in.environment) = {} /\ in.machine[1].value # "" => At("PATH", out.env) = {"local"}
       /\ At("k", in.environment) = {} /\ (own # 0 \/ has # <<>>) /\ ~(own # 0 /\ has # <<>>) =>
            At("k", out.env) = {inPod}

-----------------------------------------------------------------------------
(* The short forms of the manifest.                                          *)
(* Inputs.                                                                   *)

Texts == SeqOf({"a", "b", "&&"}, 3)
CommandInputs == SeqOf(SeqOf({"a", "&&"}, 2), 2) \cup {<<t>> : t \in Texts}

Pieces == {"", "a", "1", "2"}
ColonInputs == SeqOf(Pieces, 4) \ {<<>>}

ForwardInputs ==
  [local : {"1"}, remote : {"2"}, service : {FALSE}, name : {"", "a"}, labels : SUBSET {"l"}]
HandlerInputs == [enabled : BOOLEAN, command : {<<>>, <<"a">>}]
SwitchInputs == [postStart : HandlerInputs, preStop : HandlerInputs]

\* $v is set on the machine, $n is set to nothing.
Env == [x \in {"$v", "$n"} |-> IF x = "$v" THEN "v" ELSE ""]
Machine == [x \in {"k", "l"} |-> IF x = "k" THEN "m" ELSE ""]
KeyValues == {"x", "$v", "$n", ""}
KeyInputs == [{"k", "l"} -> KeyValues]
ListInputs == SeqOf({<<n>> : n \in {"k", "l"}} \cup {<<n, v>> : n \in {"k", "l"}, v \in KeyValues}, 3)

Variables == {<<"a", "IMAGE">>, <<"a-b", "IMAGE">>, <<"own">>}
BuildArgInputs ==
  [args : {<<>>} \cup {<<<<v, "manifest">>>> : v \in Variables}
          \cup {<<<<v, "manifest">>, <<w, "manifest">>>> : v \in Variables, w \in Variables},
   previous : UNION {[S -> {"built"}] : S \in SUBSET Variables},
   dependsOn : {<<>>, <<"a">>, <<"a-b">>, <<"a_b">>, <<"a", "a-b">>}]

CommandRecords == [name : {"a", "b"}, command : {"a", "b"}]
DeployInputs ==
  [commands : SeqOf(CommandRecords, 2), image : {"", "i"}, compose : {<<>>, <<"file">>}]

DevInputs == [mode : {"", "sync", "hybrid", "other"}, otherFields : BOOLEAN, workdir : {"dir", "file", "none"},
              image : {"img"}, pull : {"Always"}]

WrittenInputs ==
  {[name |-> "d", replicas |-> M!Unset, pull |-> p, secrets |-> <<>>, sc |-> c, pv |-> v,
    folders |-> <<[local |-> <<"a">>, remote |-> <<"r">>]>>, volumes |-> <<>>, workdir |-> w, cwd |-> <<"a">>,
    services |-> <<>>, sshPort |-> s, command |-> <<>>, timeout |-> t, rescan |-> 0, mode |-> "",
    extra |-> FALSE, remotePort |-> 0, reverse |-> FALSE, access |-> "ReadWriteOnce"] :
     p \in {"", "Always", "Never"}, v \in BOOLEAN, w \in {<<>>, <<"okteto">>, <<"w">>},
     s \in {0, 22}, t \in {0, 30},
     c \in [nonRoot : {"", "true"}, user : {M!Unset, 0, 5}, group : {M!Unset, 0, 6},
            fsGroup : {M!Unset, 7}, set : {TRUE}]}

SyncNodes == [folders : {<<"a:b">>}, compression : BOOLEAN, rescan : {0, 300, 9}]

HostInputs == {<<"text", t>> : t \in SeqOf({"", "h", "$v", "$n", "1"}, 3) \ {<<>>}}

ProbeInputs == [liveness : BOOLEAN, readiness : BOOLEAN, startup : BOOLEAN]
InfoInputs == [context : {"", ".", "c"}, dockerfile : {"", "./Dockerfile", "d"}, target : {"", "t"},
               image : {"", "i"}, args : {<<>>, <<"a">>}]
Partial(S, T) == UNION {[R -> T] : R \in SUBSET S}
EndpointInputs == [rules : {<<"r">>}, labels : Partial({"x", "y"}, {"label"}),
                   annotations : Partial({"x", "y"}, {"annotation"})]
Repository == [x \in {"u/a", "v/a", "u/b"} |-> IF x = "u/b" THEN "b" ELSE "a"]
SectionsInputs ==
  [repositories : SeqOf(DOMAIN Repository, 3), files : SeqOf({"f", "g"}, 2) \ {<<>>},
   dependency : [branch : KeyValues, repository : {"u/a", "$v"}, manifest : {"", "$n"},
                 variables : {<<>>, <<<<"$n", "$v">>>>}]]

SyntaxParts == {"probes", "info", "endpoint", "dependencies", "command", "colon", "forward", "switch", "keys", "list", "buildargs", "deploynode",
                "devnode", "written", "syncnode", "host"}

SyntaxInputs(p) ==
  CASE p = "command" -> CommandInputs [] p = "colon" -> ColonInputs [] p = "forward" -> ForwardInputs
    [] p = "switch" -> SwitchInputs [] p = "keys" -> KeyInputs [] p = "list" -> ListInputs
    [] p = "buildargs" -> BuildArgInputs [] p = "deploynode" -> DeployInputs [] p = "devnode" -> DevInputs
    [] p = "written" -> WrittenInputs [] p = "syncnode" -> SyncNodes [] p = "host" -> HostInputs [] p = "probes" -> ProbeInputs [] p = "info" -> InfoInputs
    [] p = "endpoint" -> EndpointInputs [] p = "dependencies" -> SectionsInputs

SyntaxResult(p, i) ==
  CASE p = "command" -> [entrypoint |-> Y!UnmarshalEntrypoint(Y!MarshalEntrypoint(i)),
                         command |-> Y!UnmarshalCommand(Y!MarshalCommand(i)),
                         args |-> Y!UnmarshalArgs(Y!MarshalArgs(i))]
    [] p = "colon" -> [reverse |-> Y!UnmarshalReverse(i), secret |-> Y!UnmarshalSecret(i),
                       volume |-> Y!UnmarshalExternalVolume(i), forward |-> Y!UnmarshalForward(i),
                       global |-> Y!UnmarshalGlobalForward(i)]
    [] p = "forward" -> [forward |-> Y!UnmarshalExtendedForward(i), global |-> Y!UnmarshalExtendedGlobalForward(i)]
    [] p = "switch" -> Y!UnmarshalLifecycle(Y!MarshalLifecycle(i))
    [] p = "keys" -> LET list == SetToSeq({<<n, i[n]>> : n \in DOMAIN i}) IN
                     [map |-> Y!getKeyValue(<<"map", i>>, Env, Machine),
                      list |-> Y!getKeyValue(<<"list", list>>, Env, Machine),
                      argMap |-> Y!getArgs(<<"map", i>>, Env),
                      argList |-> Y!getArgs(<<"list", list>>, Env)]
    [] p = "list" -> [keys |-> Y!getKeyValue(<<"list", i>>, Env, Machine), args |-> Y!getArgs(<<"list", i>>, Env)]
    [] p = "buildargs" -> Y!AddArgs(i.args, i.previous, i.dependsOn)
    [] p = "deploynode" -> [deploy |-> Y!UnmarshalDeployInfo(Y!MarshalDeployInfo(i)),
                            destroy |-> Y!UnmarshalDestroyInfo(Y!MarshalDestroyInfo(i)),
                            list |-> Y!UnmarshalDeployInfo(
                              <<"list", [k \in DOMAIN i.commands |-> <<"map", i.commands[k]>>]>>)]
    [] p = "devnode" -> Y!UnmarshalDev(i, TRUE)
    [] p = "written" -> LET dev == M!DevDefaults(i, 0).dev
                        IN [dev |-> dev, again |-> M!DevDefaults(M!MarshalDev(dev), 0).dev]
    [] p = "syncnode" -> Y!UnmarshalSync(Y!MarshalDevSync(i))
    [] p = "host" -> [text |-> Y!UnmarshalHost(i, Env),
                      map |-> IF Len(i[2]) < 2 THEN Y!Failed
                              ELSE Y!UnmarshalHost(<<"map", [hostname |-> <<i[2][1]>>, ip |-> Tail(i[2])]>>, Env)]
    [] p = "probes" -> Y!UnmarshalProbes(Y!MarshalProbes(i))
    [] p = "info" -> Y!SetBuildDefaults(Y!UnmarshalInfo(Y!MarshalInfo(i), Env), {})
    [] p = "endpoint" -> Y!UnmarshalEndpoint(<<"map", i>>)
    [] p = "dependencies" -> [dependencies |-> Y!UnmarshalDependencies(<<"list", i.repositories>>, Repository),
                           expanded |-> Y!ExpandVars(i.dependency, Env),
                           compose |-> Y!UnmarshalComposeInfoList(
                              IF Len(i.files) = 1 THEN <<"text", i.files[1]>>
                              ELSE <<"list", [k \in DOMAIN i.files |-> <<"text", i.files[k]>>]>>)]

-----------------------------------------------------------------------------
(* Properties.                                                               *)

\* Entrypoint, Command and Args: what is written is read again; only an entrypoint
\* of one empty word is lost.
CommandsAreKept ==
  Has("command") =>
    /\ out.entrypoint = in \/ in = <<<<>>>>
    /\ out.command = in /\ out.args = in

\* Entrypoint, Command, hybridCommand: a text runs its words, with a shell in front
\* or not, in the container and on the machine.
TextRunsItsWords ==
  Has("command") /\ Len(in) = 1 =>
    LET Run(values) == IF Len(values) = 3 /\ values[1] = <<"sh">> THEN values[3] ELSE FlattenSeq(values)
    IN \A values \in {Y!UnmarshalEntrypoint(<<"text", in[1]>>), Y!UnmarshalCommand(<<"text", in[1]>>),
                      Y!UnmarshalHybridCommand(<<"text", in[1]>>)} : Run(values) = in[1]

\* Reverse, ExternalVolume, Forward and GlobalForward: a text that is read is written
\* as a text that is read as the same value.
ColonTextsAreKept ==
  Has("colon") =>
    /\ out.reverse.ok => Y!UnmarshalReverse(Y!MarshalReverse(out.reverse.value)) = out.reverse
    /\ out.reverse.ok => out.reverse.value = in
    /\ out.volume.ok => Y!UnmarshalExternalVolume(Y!MarshalExternalVolume(out.volume.value)) = out.volume
    /\ out.forward.ok => Y!UnmarshalForward(Y!ForwardString(out.forward.value)) = out.forward
    /\ out.global.ok => Y!UnmarshalGlobalForward(Y!ForwardString(out.global.value)) = out.global

\* Secret.MarshalYAML writes the mode only when it is the default: a secret keeps its
\* paths, and any other mode becomes the default.
SecretsKeepTheirPaths ==
  Has("colon") /\ out.secret.ok =>
    LET s == out.secret.value
        again == Y!UnmarshalSecret(Y!MarshalSecret(s)).value
    IN again = <<s[1], s[2], Y!DefaultSecretMode>>

\* UnmarshalExtendedForm: a forward of a service says which one, in exactly one way;
\* every global forward does, and whatever is accepted as global is accepted as the
\* forward of a service.
ForwardsSelectOneService ==
  Has("forward") =>
    /\ out.forward.ok /\ out.forward.value.service =>
         (out.forward.value.name # "") # (out.forward.value.labels # {})
    /\ out.global.ok => out.forward.ok /\ out.forward.value.service

\* Lifecycle, LifecycleHandler: what is written is read again; only the command of a
\* handler that is off is lost.
HandlersAreKept ==
  Has("switch") =>
    \A h \in {"postStart", "preStop"} :
      IF in[h].enabled THEN out[h] = in[h] ELSE ~out[h].enabled

\* getKeyValue, getArgs: a list and a map of the same names and values are the same
\* environment, labels and build arguments.
ListsAndMapsAgree ==
  Has("keys") => out.map = out.list /\ out.argMap = out.argList

\* getArgs, ExpandEnvIfNotEmpty: an argument of a build is never emptied by a variable
\* that is set to nothing, where a variable of the environment is.
ArgsAreNotEmptied ==
  Has("list") =>
    \A n \in DOMAIN out.args :
      /\ n \in DOMAIN out.keys
      /\ out.args[n] = "" => \E i \in DOMAIN in : in[i] = <<n, "">>
      /\ out.keys[n] = "" /\ out.args[n] # "" =>
           out.args[n] \in {"$n", n}

\* AddArgs: a build sees every image of the builds it depends on and of no other, the
\* images that were built come before what the manifest says, and no name twice
\* unless the manifest has it twice.
BuildSeesItsDependencies ==
  Has("buildargs") =>
    LET names == {out[i][1] : i \in DOMAIN out}
    IN /\ \A v \in DOMAIN in.previous :
            v \in names <=> \/ Len(v) = 1 \/ v[1] \in Range(in.dependsOn)
                            \/ \E i \in DOMAIN in.args : in.args[i][1] = v
       /\ \A i \in DOMAIN out :
            out[i][2] = IF out[i][1] \in DOMAIN in.previous THEN "built" ELSE "manifest"
       /\ Len(out) - Len(in.args) = Cardinality(names \ {in.args[i][1] : i \in DOMAIN in.args})

\* DeployInfo, DestroyInfo: the commands and their names survive being written and
\* being read from a list; the rest of the section survives unless the commands have
\* no names of their own and there is no compose file.
CommandsOfSectionsAreKept ==
  Has("deploynode") =>
    /\ out.deploy.commands = in.commands /\ out.destroy.commands = in.commands
    /\ out.list.commands = in.commands
    /\ out.deploy = in \/ (in.compose = <<>> /\ out.deploy.image = "")

\* Dev.UnmarshalYAML: a dev has one of the two modes, and a mode there is not is refused
\* if the dev has any other field; a hybrid dev runs in a directory that exists.
ModesAreKnown ==
  Has("devnode") =>
    /\ out.ok => out.value.mode \in {"sync", "hybrid"}
    /\ in.mode = "other" /\ in.otherFields => ~out.ok
    /\ out.ok /\ out.value.mode = "hybrid" => in.workdir = "dir"

\* Dev.MarshalYAML: what is left out is what the defaults set again, except for a
\* working directory that is /okteto by choice (the default is only set for a dev
\* without folders) and, without a volume, for a user that is root by choice.
DefaultsAreRestored ==
  Has("written") =>
    /\ [out.again EXCEPT !.workdir = <<>>, !.sc = out.dev.sc] = [out.dev EXCEPT !.workdir = <<>>]
    /\ out.again.workdir = (IF in.workdir = <<"okteto">> THEN <<>> ELSE out.dev.workdir)
    /\ out.again.sc = out.dev.sc \/ (~in.pv /\ M!isDefaultSecurityContext(in.sc))

\* Sync: what is written is read again; only the wish not to compress is lost, with
\* the usual interval.
SyncIsKept ==
  Has("syncnode") =>
    \/ out = in
    \/ in.rescan = 300 /\ ~in.compression /\ out = [in EXCEPT !.compression = TRUE]

\* Host: the text and the map accept the same hosts.
HostFormsAgree ==
  Has("host") => out.text = out.map

\* Probes: what is written is read again.
ProbesAreKept == Has("probes") => out = in

\* Info: a build is read again as it was written, with the defaults; but a build that
\* only has an image is written as a text, and a text is read as the context.
BuildsAreKept ==
  Has("info") =>
    IF Y!MarshalInfo(in)[1] = "map" THEN out = Y!SetBuildDefaults(in, {})
    ELSE out.image = "" /\ out.context = (IF in.image = "" THEN "." ELSE in.image)

\* Endpoint: every label is an annotation, and before an annotation of the same name.
LabelsAreAnnotations ==
  Has("endpoint") =>
    /\ DOMAIN out.annotations = DOMAIN in.labels \cup DOMAIN in.annotations
    /\ \A k \in DOMAIN in.labels : out.annotations[k] = "label"

\* ManifestSection, Dependency.ExpandVars: every repository of a list is deployed
\* unless a later one has its name, and a variable that is set to nothing never
\* empties a field; a compose file alone is a list of one.
DependenciesAreKept ==
  Has("dependencies") =>
    /\ \A i \in DOMAIN in.repositories :
         LET n == Repository[in.repositories[i]]
         IN /\ n \in DOMAIN out.dependencies
            /\ (\A j \in i + 1 .. Len(in.repositories) : Repository[in.repositories[j]] # n)
                 => out.dependencies[n] = in.repositories[i]
    /\ out.expanded.branch = "" => in.dependency.branch = ""
    /\ in.dependency.manifest # "" => out.expanded.manifest # ""
    /\ \A i \in DOMAIN in.dependency.variables : "" \notin Range(out.expanded.variables[i])
    /\ [i \in DOMAIN out.compose |-> out.compose[i].file] = in.files

-----------------------------------------------------------------------------
(* The pods of development containers.                                       *)

(* Inputs.                                                                   *)

V(n, x) == [name |-> n, value |-> x]
Base == [name |-> "c", image |-> "app", workdir |-> K!Unset, command |-> K!Unset,
         env |-> <<>>, mounts |-> <<>>, probes |-> {"liveness", "readiness"},
         postStart |-> "hook", preStop |-> K!Unset, resources |-> [x \in {"cpu", "gpu"} |-> 1],
         user |-> K!Unset, caps |-> K!Unset, readOnly |-> "app"]
VolumeMount(n, p, copied, sync) == [name |-> n, path |-> p, copied |-> copied, syncthing |-> sync]

\* The rule of the main development container and of a service of it.
MainRule ==
  [main |-> TRUE, container |-> "", image |-> "dev", initImage |-> "init", workdir |-> "/src",
   command |-> "start.sh", env |-> <<>>, probes |-> <<{}>>, postStart |-> K!Unset, preStop |-> K!Unset,
   resources |-> [x \in {"memory"} |-> 2], sc |-> <<>>, secrets |-> <<>>, persistent |-> TRUE,
   access |-> "ReadWriteOnce", mainVolume |-> "vol", manifest |-> "m", affinity |-> <<>>,
   volumes |-> <<VolumeMount("vol", "/var/syncthing", FALSE, TRUE), VolumeMount("vol", "/src", TRUE, FALSE)>>]
ServiceRule ==
  [MainRule EXCEPT !.main = FALSE, !.image = K!Unset, !.command = K!Unset,
                   !.volumes = <<VolumeMount("vol", "/src", TRUE, FALSE)>>]

EnvInputs == [app : SeqOf({V("a", 1), V("b", 1)}, 3), rule : SeqOf({V("a", 2), V("a", 3), V("c", 2)}, 3)]

DevPodInputs ==
  {[pod |-> [containers |-> <<[Base EXCEPT !.mounts = mounts], [Base EXCEPT !.name = "d"]>>,
             volumes |-> [i \in DOMAIN mounts |-> K!Volume(mounts[i].name, "app")], inits |-> <<>>,
             affinity |-> <<<<"app">>>>],
    rules |-> <<[MainRule EXCEPT !.persistent = pv, !.secrets = secrets, !.manifest = name, !.access = access,
                                 !.affinity = affinity,
                                 !.volumes = IF pv THEN @ ELSE SubSeq(@, 1, 1)]>>
              \o [i \in DOMAIN service |-> [ServiceRule EXCEPT !.container = service[i], !.persistent = pv,
                    !.manifest = name, !.access = access, !.volumes = IF pv THEN @ ELSE <<>>]]] :
     mounts \in {<<>>, <<K!Mount("data", "/data")>>, <<K!Mount("vol", "/old")>>, <<K!Mount("code", "/src")>>,
                 <<K!Mount("okteto-bin", "/var/okteto/bin")>>},
     pv \in BOOLEAN, secrets \in {<<>>, <<"f">>}, service \in {<<>>, <<"d">>, <<"">>},
     name \in {"", "m"}, access \in {"ReadWriteOnce", "ReadWriteMany"},
     affinity \in {<<>>, <<<<<<"empty">>>>>>, <<<<<<"node">>>>>>}}

\* A manifest whose development container runs on.
AgainInputs == {i \in DevPodInputs : Len(i.rules) = 1}

Security == [user : {K!Unset, "dev"}, caps : {K!Unset, "dev"}, readOnly : {K!Unset, "dev"}]
ContainerInputs == [sc : {<<>>} \cup {<<s>> : s \in Security}, postStart : {K!Unset, "off", "on", "run"},
                    resources : {<<>>} \cup {[x \in R |-> 2] : R \in SUBSET {"cpu", "memory", "tpu"} \ {{}}}]

FilesInputs == SeqOf({"f", "g", ".stignore", "stignore"}, 3)

Claims == [size : {2, 5, 10, 20}, class : {K!Unset, "fast", "slow"}, access : {"ReadWriteOnce", "ReadWriteMany"}]
ClaimInputs == [pvc : {<<>>} \cup {<<c>> : c \in Claims}, dev : Claims, answer : {"ok", "forbidden", "error"}]

ItemInputs == [items : SeqOf([name : {"x", "y"}, clone : BOOLEAN], 3), kind : {"deployment", "statefulset"},
               conditions : SeqOf([failed : BOOLEAN, replicaFailure : BOOLEAN, message : {"pods", "cpu", "else"}], 1)]

PodParts == {"pod env", "pod pod", "pod again", "pod container", "pod files", "pod claim", "pod items"}

PodRuleInputs(p) ==
  CASE p = "pod env" -> EnvInputs [] p = "pod pod" -> DevPodInputs [] p = "pod again" -> AgainInputs
    [] p = "pod container" -> ContainerInputs [] p = "pod files" -> FilesInputs [] p = "pod claim" -> ClaimInputs
    [] p = "pod items" -> ItemInputs

\* The activation after a translation: the affinity of the manifest is what the
\* translation left of it.
Again(i, pod) == [i.rules[1] EXCEPT !.affinity = K!AffinityAfter(i.rules[1], pod)]

DevPodResult(p, i) ==
  CASE p = "pod env" -> K!TranslateEnvVars([Base EXCEPT !.env = i.app], [MainRule EXCEPT !.env = i.rule])
    [] p = "pod pod" -> K!TranslatePod(i.pod, i.rules)
    [] p = "pod again" -> LET pod == K!TranslatePod(i.pod, i.rules)
                      IN [first |-> pod, second |-> K!TranslatePod(i.pod, <<Again(i, pod)>>)]
    [] p = "pod container" -> K!TranslateDevContainer(Base,
                            [MainRule EXCEPT !.sc = i.sc, !.postStart = i.postStart, !.resources = i.resources])
    [] p = "pod files" -> [keys |-> K!SecretKeys(i), items |-> K!SecretItems(i)]
    [] p = "pod claim" -> K!CreateForDev(i.pvc, i.dev, i.answer)
    [] p = "pod items" -> [app |-> K!GetByDev(i.items, i.kind), error |-> K!CheckConditionErrors(i.conditions, i.kind)]

-----------------------------------------------------------------------------
(* Properties.                                                               *)

\* The value a process sees of a sequence of variables: the last of its name.
Seen(env, n) == env[SelectLastInSeq(env, LAMBDA v : v.name = n)].value
Times(env, n) == Cardinality({i \in DOMAIN env : env[i].name = n})

\* TranslateEnvVars: the container sees the last value the manifest gives to a
\* variable, unless the application itself defines it more than once; no other
\* variable changes.
ManifestVariablesWin ==
  Has("pod env") =>
    /\ \A n \in K!Names(in.rule) : Times(in.app, n) < 2 => Seen(out.env, n) = Seen(in.rule, n)
    /\ \A n \in K!Names(in.app) \ K!Names(in.rule) : Seen(out.env, n) = Seen(in.app, n)

\* TranslateVolumeMounts, TranslateOktetoVolumes, TranslateOktetoSyncthingVolumes,
\* TranslateOktetoDevSecret, TranslateOktetoInitBinContainer: every mount of every
\* container of the pod has one volume, whatever was in the pod before and however
\* many rules share it.
MountsHaveOneVolume ==
  Has("pod pod") =>
    /\ \A c \in ToSet(out.containers) \cup ToSet(out.inits) : K!Names(c.mounts) \subseteq K!Names(out.volumes)
    /\ IsInjective([i \in DOMAIN out.volumes |-> out.volumes[i].name])

\* ValidateMountPaths: a folder that is synchronized is mounted once in its container.
FoldersAreMountedOnce ==
  Has("pod pod") /\ Len(in.rules) = 1 /\ K!ValidateMountPaths(in.pod, in.rules[1], {"/src"}) =>
    Cardinality({i \in DOMAIN out.containers[1].mounts : out.containers[1].mounts[i].path = "/src"}) < 2

\* TranslateOktetoAffinity, translate: a pod that must run next to the pods of a volume
\* is one of them, or it could never be scheduled; this needs the name of the manifest.
PodsFindThemselves ==
  Has("pod pod") /\ in.rules[1].manifest # "" =>
    {out.affinity[i] : i \in DOMAIN out.affinity} \subseteq
      {<<"app">>, <<"empty">>, <<"node">>} \cup K!VolumeLabels(in.rules)

\* TranslateOktetoAffinity: a claim that one node can use holds its pods together,
\* unless the manifest has an affinity with nothing in it.
VolumesHoldTogether ==
  Has("pod pod") /\ in.rules[1].affinity # <<<<<<"empty">>>>>> =>
    ((\E i \in DOMAIN out.affinity : out.affinity[i] = K!getVolumeLabelKey(in.rules[1].manifest))
       <=> in.rules[1].persistent /\ in.rules[1].access = "ReadWriteOnce")

\* GetTranslations: an activation after another starts from the same application and from
\* the rules the one before has left.  What a translation changes of them in place is the
\* affinity of the manifest, which the pod shares and which grows with each activation:
\* it grows only by terms it has, and a manifest without one gives the same pod.
ActivationsAgree ==
  Has("pod again") =>
    /\ [out.first EXCEPT !.affinity = <<>>] = [out.second EXCEPT !.affinity = <<>>]
    /\ ToSet(out.first.affinity) = ToSet(out.second.affinity)
    /\ in.rules[1].affinity = <<>> => out.first = out.second

\* TranslateContainerSecurityContext, TranslateResources, TranslateLifecycle: the manifest
\* decides about the user, the usual resources and the handlers it names; a read-only
\* root file system is lost with capabilities.
ManifestDecides ==
  Has("pod container") =>
    /\ in.sc # <<>> /\ in.sc[1].user # K!Unset => out.user = in.sc[1].user
    /\ in.sc # <<>> /\ in.sc[1].readOnly # K!Unset /\ in.sc[1].caps = K!Unset => out.readOnly = in.sc[1].readOnly
    /\ DOMAIN out.resources \cap K!Usual = DOMAIN in.resources \cap K!Usual
    /\ in.postStart = "off" => out.postStart = K!Unset
    /\ out.postStart # K!Unset => out.postStart \in {"hook", "run"}

\* TranslateOktetoDevSecret and secrets.Create number the ignore files in the same way:
\* the pod finds each key in the secret, if no file has "stignore" in its name but not
\* ".stignore"; files of different folders keep apart.
SecretsHaveTheirKeys ==
  Has("pod files") =>
    /\ "stignore" \notin ToSet(in) => ToSet(out.items) \subseteq ToSet(out.keys)
    /\ \A i, j \in DOMAIN in : i # j /\ out.items[i] = out.items[j] => in[i] = in[j] /\ in[i] # ".stignore"

\* CreateForDev: a claim never shrinks below what another manifest asked for, except from
\* the old default, and keeps its class and its mode of access; a command that goes on has
\* a claim, of the size it asked for unless the cluster does not resize it.
ClaimsDoNotShrink ==
  Has("pod claim") =>
    /\ in.pvc # <<>> =>
         LET before == in.pvc[1]
             after == out.claim[1]
         IN /\ after.size < before.size => before.size = K!OldDefaultSize
            /\ after.class = before.class /\ after.access = before.access
    /\ out.ok => out.claim # <<>> /\ (out.claim[1].size # in.dev.size => in.answer = "forbidden")

\* GetByDev: a clone is never taken for the application, nor one of several; only a
\* statefulset whose clone is all there is ends the command with a panic.
ClonesAreNotApps ==
  Has("pod items") =>
    /\ out.app \in {"x", "y"} =>
         Cardinality({i \in DOMAIN in.items : ~in.items[i].clone}) = 1
         /\ \E i \in DOMAIN in.items : in.items[i] = [name |-> out.app, clone |-> FALSE]
    /\ out.app = "panic" => in.kind = "statefulset"

\* CheckConditionErrors: a pod that cannot be created is reported at once, for a
\* deployment only by its condition for that.
FailuresAreReported ==
  Has("pod items") =>
    (out.error # "nil" <=> \E i \in DOMAIN in.conditions :
                             in.conditions[i].failed /\ (in.conditions[i].replicaFailure \/ in.kind = "statefulset"))
=============================================================================
