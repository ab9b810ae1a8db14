---------------------------- MODULE ManifestLoad -----------------------------
(***************************************************************************)
(* From the files of a project to its manifest (pkg/model/manifest.go,     *)
(* pkg/discovery, pkg/build/manifest_section.go): which file is read and   *)
(* as what, the defaults, the dev and build sections that a compose file   *)
(* adds and the names.  Of a file it is told apart what reading it gives;  *)
(* the YAML is left out.  And its development containers (dev.go,          *)
(* volumes.go): their defaults, their env files, the folders they          *)
(* synchronize and where they are kept in the volume, their validation,    *)
(* the rule by which a deployment is translated, and what okteto up does   *)
(* with them before its session.  A path is the sequence of its parts,     *)
(* <<>> is the root.                                                       *)
(***************************************************************************)
EXTENDS Integers, Sequences, FiniteSets, SequencesExt

Failed(e) == [ok |-> FALSE, err |-> e]
Read(type, stack, valid) == [ok |-> TRUE, type |-> type, stack |-> stack, validated |-> valid]

-----------------------------------------------------------------------------
(* The files.  A content is one of                                           *)
(*   "none"      there is no file          "empty"     only spaces            *)
(*   "okteto"    a manifest                "composed"  one with a compose     *)
(*   "compose"   a compose file                        section                *)
(*   "cyclic"    one that is not valid     "noservice" one with an empty      *)
(*   "bad"       none of them                          service                *)

\* The first of the names that exists; files is in the order of the names.
FirstFile(files) ==
  LET there == SelectSeq(files, LAMBDA c : c # "none")
  IN IF there = <<>> THEN "none" ELSE Head(there)

GetOktetoManifestPath(dir) == FirstFile(dir.okteto)
GetOktetoPipelinePath(dir) == FirstFile(dir.pipeline)
GetComposePath(dir) == FirstFile(dir.compose)

getOktetoManifest(content) ==
  CASE content = "none" -> Failed("not found")
    [] content \in {"okteto", "composed"} -> Read("okteto", content = "composed", FALSE)
    [] OTHER -> Failed("manifest")

LoadStack(content, validate) ==
  CASE content = "compose" -> Read("compose", TRUE, validate)
    [] content = "cyclic" -> IF validate THEN Failed("dependsOn") ELSE Read("compose", TRUE, FALSE)
    [] content = "noservice" -> Failed("service empty")
    [] OTHER -> Failed("compose")

\* A file that is no manifest is tried as a compose file, without validation; then
\* whose error is told depends on the error and on the name of the file.  section is
\* the content of the compose file of a manifest.
getManifestFromFile(content, composeName, section) ==
  LET okteto == getOktetoManifest(content)
      stack == LoadStack(content, FALSE)
  IN IF ~okteto.ok
     THEN IF stack.ok THEN stack
          ELSE IF stack.err = "service empty" \/ composeName THEN Failed(stack.err)
          ELSE Failed(okteto.err)
     ELSE IF okteto.stack /\ ~LoadStack(section, FALSE).ok
     THEN Failed(LoadStack(section, FALSE).err) ELSE okteto

\* A path that is no file is not found.
getManifestFromDevFilePath(arg) ==
  IF arg.kind = "file" THEN getManifestFromFile(arg.content, arg.composeName, arg.section)
  ELSE Failed("not found")

getManifestFromOktetoFile(dir) ==
  LET content == GetOktetoManifestPath(dir)
  IN IF content = "none" THEN Failed("not found") ELSE getManifestFromFile(content, FALSE, dir.section)

\* A pipeline file is read as the argument of a command is; the type says what it was.
GetInferredManifest(dir) ==
  LET pipeline == GetOktetoPipelinePath(dir)
      read == getManifestFromFile(pipeline, FALSE, dir.section)
      compose == GetComposePath(dir)
  IN IF pipeline # "none" THEN IF read.ok THEN [read EXCEPT !.type = "pipeline"] ELSE read
     ELSE IF compose # "none" THEN LoadStack(compose, TRUE)
     ELSE Failed("nothing to infer")

\* cwd is replaced by the argument when that is a directory.
GetManifestV2(arg, cwd) ==
  LET dir == IF arg.kind = "dir" THEN arg.dir ELSE cwd
      fromArg == getManifestFromDevFilePath(arg)
      fromFile == getManifestFromOktetoFile(dir)
  IN IF fromArg.ok \/ fromArg.err # "not found" THEN fromArg
     ELSE IF fromFile.ok \/ fromFile.err # "not found" THEN fromFile
     ELSE GetInferredManifest(dir)

-----------------------------------------------------------------------------
(* The sections that a stack adds.  A service of the stack is [build, image, *)
(* mounts, dirs]: whether it is built, its image, how many mounts it has and *)
(* how many of them are directories.                                         *)

\* A dev for a service with a directory, and a build for one that is built or whose
\* mounts have to be put in its image; what the manifest has is kept.  defaults says
\* whether the defaults of the manifest could be set: its error is only logged.
InferFromStack(devs, builds, services, defaultsOk) ==
  LET newDevs == {n \in DOMAIN services : services[n].dirs > 0}
      newBuilds == {n \in DOMAIN services : services[n].build \/ services[n].mounts > 0}
      Info(n) == IF services[n].build THEN "own" ELSE IF services[n].image # "" THEN "generated" ELSE "empty"
  IN [devs |-> [n \in DOMAIN devs \cup newDevs |-> IF n \in DOMAIN devs THEN devs[n] ELSE "inferred"],
      builds |-> [n \in DOMAIN builds \cup newBuilds |->
                    IF n \in DOMAIN builds THEN builds[n] ELSE Info(n)],
      defaults |-> defaultsOk]

\* The images of the services that were built, of the devs that have a build and are
\* created by okteto, and of the tests; var is the image each build left.  The first
\* image of a test that cannot be expanded ends the loop, without an error.
ExpandEnvVars(services, devs, builds, tests, var) ==
  [services |-> [n \in DOMAIN services |->
                   IF (services[n].build \/ services[n].mounts > 0 \/ n \in builds) /\ var[n] # ""
                   THEN [services[n] EXCEPT !.image = var[n]] ELSE services[n]],
   devs |-> [n \in DOMAIN devs |->
               IF n \in builds /\ devs[n].image = "" /\ devs[n].autocreate
               THEN [devs[n] EXCEPT !.image = IF var[n] # "" THEN var[n] ELSE "variable"] ELSE devs[n]],
   tests |-> [i \in DOMAIN tests |->
                IF \A j \in 1..i : tests[j] # "bad" THEN "expanded" ELSE tests[i]]]

-----------------------------------------------------------------------------
(* Names.  sane: name -> the name Kubernetes takes.                          *)

\* The keys are taken in any order; a key whose new name is there is refused.
RECURSIVE SanitizeKeys(_, _, _)
SanitizeKeys(keys, entries, sane) ==
  IF keys = {} THEN {[ok |-> TRUE, entries |-> entries]}
  ELSE UNION {IF sane[k] \in DOMAIN entries THEN {Failed("exists")}
              ELSE SanitizeKeys(keys \ {k},
                     [n \in (DOMAIN entries \ {k}) \cup {sane[k]} |->
                        IF n = sane[k] THEN entries[k] ELSE entries[n]], sane) : k \in keys}

\* The outcomes for the dev section; the build section is the same.
SanitizeSvcNames(entries, sane) ==
  SanitizeKeys({k \in DOMAIN entries : sane[k] # k}, entries, sane)

\* The build with what it needs, in rounds: one that adds nothing is the last.
RECURSIVE getDependentNodes(_, _)

getDependentNodes(g, nodes) ==
  LET Add(acc, n) == acc \o SetToSeq(g[n] \ Range(acc))
      next == FoldLeft(Add, nodes, nodes)
  IN IF Len(next) = Len(nodes) THEN nodes ELSE getDependentNodes(g, next)

-----------------------------------------------------------------------------
(* Development containers.                                                   *)

Unset == -1   \* a number that is not written

-----------------------------------------------------------------------------
(* Folders: [local, remote].                                                 *)

Shared(a, b) ==
  LET k == {n \in 0 .. (IF Len(a) < Len(b) THEN Len(a) ELSE Len(b)) :
              SubSeq(a, 1, n) = SubSeq(b, 1, n)}
  IN CHOOSE n \in k : \A j \in k : j <= n

\* The way from base to path: up steps, then down.
Rel(base, path) ==
  LET n == Shared(base, path)
  IN [up |-> Len(base) - n, down |-> SubSeq(path, n + 1, Len(path))]

\* "found" is a folder itself, "sub" a folder inside one of them.
IsSubPathFolder(folders, path) ==
  LET in == {i \in DOMAIN folders : Rel(folders[i].local, path).up = 0}
  IN IF in = {} THEN "not found"
     ELSE IF \E i \in in : Rel(folders[i].local, path).down # <<>> THEN "sub" ELSE "found"

\* The parts that all folders have in common with the first; a folder that ends
\* before they differ does not shorten it.
computeParentSyncFolder(folders) ==
  LET Cut(parent, f) ==
        LET n == Shared(parent, f.local)
        IN IF n = Len(f.local) THEN parent ELSE SubSeq(parent, 1, n)
  IN IF folders = <<>> THEN <<>> ELSE FoldLeft(Cut, Head(folders).local, Tail(folders))

\* src joined with the way from the parent: a step up leaves src, a second one leaves
\* the volume.
SourceCodeSubPath == "src"

\* Mutant of getSourceSubPath: src is not in front.
getSourceSubPathNoSrc(parent, path) ==
  [out |-> Rel(parent, path).up, path |-> Rel(parent, path).down]

getSourceSubPath(parent, path) ==
  LET rel == Rel(parent, path)
  IN IF rel.up = 0 THEN [out |-> 0, path |-> <<SourceCodeSubPath>> \o rel.down]
     ELSE [out |-> rel.up - 1, path |-> rel.down]

getDataSubPath(path) == [out |-> 0, path |-> <<"data">> \o path]

\* A dev without folders synchronizes the current one.
translateDeprecatedWorkdir(dev) ==
  LET workdir == IF dev.workdir = <<>> /\ dev.folders = <<>> THEN <<"okteto">> ELSE dev.workdir
  IN IF workdir = <<>> \/ dev.folders # <<>> THEN [dev EXCEPT !.workdir = workdir]
     ELSE [dev EXCEPT !.workdir = workdir, !.folders = <<[local |-> dev.cwd, remote |-> workdir]>>]

\* A volume with a local path is a folder.
translateDeprecatedVolumes(dev) ==
  [dev EXCEPT !.folders = @ \o [i \in DOMAIN SelectSeq(dev.volumes, LAMBDA v : v.synced) |->
                                  [local |-> SelectSeq(dev.volumes, LAMBDA v : v.synced)[i].local,
                                   remote |-> SelectSeq(dev.volumes, LAMBDA v : v.synced)[i].remote]],
              !.volumes = SelectSeq(@, LAMBDA v : ~v.synced)]

\* services may not use workdir for it.
translateDeprecatedVolumeFields(dev) ==
  [ok |-> \A i \in DOMAIN dev.services : dev.services[i].workdir = <<>> \/ dev.services[i].folders # <<>>,
   dev |-> [translateDeprecatedVolumes(translateDeprecatedWorkdir(dev))
              EXCEPT !.services = [i \in DOMAIN @ |-> translateDeprecatedVolumes(@[i])]]]

-----------------------------------------------------------------------------
(* Validation.                                                               *)

validateRemotePaths(dev) ==
  \A i \in DOMAIN dev.folders : dev.folders[i].remote # <<>>

validateDuplicatedVolumes(dev) ==
  \A i, j \in DOMAIN dev.volumes : i # j => dev.volumes[i].remote # dev.volumes[j].remote

\* A local path may be there twice only when it is inside another folder.
validateDuplicatedSyncFolders(dev) ==
  \A i, j \in DOMAIN dev.folders : i # j =>
    /\ dev.folders[i] # dev.folders[j]
    /\ IsSubPathFolder(dev.folders, dev.folders[i].local) # "sub"
         => dev.folders[i].local # dev.folders[j].local

validateServiceSyncFolders(service, main) ==
  \A i \in DOMAIN service.folders :
    IsSubPathFolder(main.folders, service.folders[i].local) # "not found"

validateVolumes(dev) ==
  /\ dev.folders # <<>>
  /\ validateRemotePaths(dev)
  /\ validateDuplicatedVolumes(dev)
  /\ validateDuplicatedSyncFolders(dev)

validatePersistentVolume(dev) ==
  dev.pv \/ ( /\ dev.services = <<>>
              /\ dev.volumes = <<>>
              /\ \A i \in DOMAIN dev.folders :
                   IsSubPathFolder(dev.folders, dev.folders[i].local) # "sub" )

\* The secrets are files of one directory of the container.
validateSecrets(secrets) ==
  \A i, j \in DOMAIN secrets : i # j => secrets[i].base # secrets[j].base

validateSecurityContext(sc) == ~(sc.user = 0 /\ sc.nonRoot = "true")

PullPolicies == {"Always", "IfNotPresent", "Never"}

Validate(dev) ==
  /\ dev.name # "" /\ dev.replicas = Unset
  /\ dev.pull \in PullPolicies
  /\ validateSecrets(dev.secrets)
  /\ validateSecurityContext(dev.sc)
  /\ validatePersistentVolume(dev)
  /\ validateVolumes(dev)
  /\ dev.sshPort > 0
  /\ \A i \in DOMAIN dev.services :
       /\ dev.services[i].pull \in PullPolicies
       /\ validateVolumes(dev.services[i])
       /\ validateServiceSyncFolders(dev.services[i], dev)

-----------------------------------------------------------------------------
(* Defaults.                                                                 *)

\* Only when the volume is used, and never for a container that must not be root.
setRunAsUserDefaults(sc, pv) ==
  LET user == IF sc.user = Unset THEN 0 ELSE sc.user
      Or(n) == IF n = Unset THEN user ELSE n
  IN IF ~pv \/ sc.nonRoot = "true" THEN sc
     ELSE [nonRoot |-> sc.nonRoot, user |-> user, group |-> Or(sc.group), fsGroup |-> Or(sc.fsGroup),
           set |-> TRUE]

\* extra: the fields only a main container has.
validateForExtraFields(service) == ~service.extra /\ ~service.sc.set

DefaultSSHPort == 2222
DefaultRescan == 300
SetDefaults(dev, rescanVar) ==
  LET Service(s) == [s EXCEPT !.pull = IF @ = "" THEN "Always" ELSE @,
                              !.sc = setRunAsUserDefaults(@, dev.pv),
                              !.extra = TRUE]
  IN [dev EXCEPT !.command = IF @ = <<>> THEN <<"sh">> ELSE @,
                 !.timeout = IF @ = 0 THEN 60 ELSE @,
                 !.pull = IF @ = "" THEN "Always" ELSE @,
                 !.sshPort = IF @ = 0 THEN DefaultSSHPort ELSE @,
                 !.sc = setRunAsUserDefaults(@, dev.pv),
                 !.rescan = IF rescanVar # 0 THEN rescanVar ELSE IF @ = 0 THEN DefaultRescan ELSE @,
                 !.mode = IF @ = "" THEN "sync" ELSE @,
                 !.services = [i \in DOMAIN @ |-> Service(@[i])]]

\* The part of setDefaults of the manifest for one dev: the services are looked at
\* before the defaults are set.
DevDefaults(dev, rescanVar) ==
  IF \E i \in DOMAIN dev.services : ~validateForExtraFields(dev.services[i])
  THEN [ok |-> FALSE, dev |-> dev]
  ELSE translateDeprecatedVolumeFields(SetDefaults(dev, rescanVar))

isDefaultSecurityContext(sc) ==
  sc.nonRoot = "" /\ {sc.user, sc.group, sc.fsGroup} \subseteq {Unset, 0}

\* Written without what the defaults set.
MarshalDev(dev) ==
  [dev EXCEPT !.pull = IF @ = "Always" THEN "" ELSE @,
              !.timeout = IF @ = 60 THEN 0 ELSE @,
              !.sshPort = IF @ = DefaultSSHPort THEN 0 ELSE @,
              !.workdir = IF @ = <<"okteto">> THEN <<>> ELSE @,
              !.sc = IF isDefaultSecurityContext(@)
                     THEN [nonRoot |-> "", user |-> Unset, group |-> Unset, fsGroup |-> Unset, set |-> FALSE]
                     ELSE @]

-----------------------------------------------------------------------------
(* Environment.  A variable is [name, value].                                *)

\* Who is set is not set again; an empty value is read from the machine.  The files can
\* be read: one that cannot ends the load of the manifest.
expandEnvFiles(environment, files, env) ==
  LET Names(e) == {e[i].name : i \in DOMAIN e}
      Value(f, n) == IF f[n] = "" THEN env[n] ELSE f[n]
      AddFile(acc, f) ==
        acc \o SetToSeq({[name |-> n, value |-> Value(f, n)] :
                           n \in {x \in DOMAIN f \ Names(acc) : Value(f, x) # ""}})
  IN FoldLeft(AddFile, environment, files)

RemoteModeEnabled(dev, sshVar) == dev.remotePort > 0 \/ dev.reverse \/ sshVar # "false"

-----------------------------------------------------------------------------
(* The rule of a container: what it mounts of the volume and how it starts.  *)

Mount(path, sub) == [path |-> path, sub |-> sub]
MainMounts(dev, sshVar) ==
  <<Mount(<<"var", "syncthing">>, [out |-> 0, path |-> <<"syncthing">>]),
    Mount(<<"var", "syncthing", "data">>, [out |-> 0, path |-> <<"syncthing-data">>])>>
  \o IF RemoteModeEnabled(dev, sshVar)
     THEN <<Mount(<<"var", "okteto", "remote">>, [out |-> 0, path |-> <<"okteto-remote">>])>> ELSE <<>>

enableHistoryVolume ==
  Mount(<<"var", "okteto", "bashrc">>, [out |-> 0, path |-> <<"okteto-bash-history">>])

\* dev is the main container or one of its services.
ToTranslationRule(dev, main, parent, isMain, reset, sshVar) ==
  [mounts |->
     (IF isMain THEN MainMounts(dev, sshVar) ELSE <<>>)
     \o IF ~main.pv THEN <<>>
        ELSE [i \in DOMAIN dev.volumes |->
                Mount(dev.volumes[i].remote, getDataSubPath(dev.volumes[i].remote))]
             \o [i \in DOMAIN dev.folders |->
                   Mount(dev.folders[i].remote, getSourceSubPath(parent, dev.folders[i].local))]
             \o <<enableHistoryVolume>>,
   command |-> IF isMain THEN <<"start.sh">> ELSE dev.command,
   args |-> IF ~isMain THEN <<>>
            ELSE (IF RemoteModeEnabled(dev, sshVar) THEN <<"-r">> ELSE <<>>)
                 \o (IF reset THEN <<"-e">> ELSE <<>>),
   affinity |-> ~isMain /\ main.access # "ReadWriteMany"]

-----------------------------------------------------------------------------
(* okteto up before its session (cmd/up/up.go, deploy.go, build.go).         *)

\* What the environment needs is deployed if it is asked for or is not there yet; a
\* manifest that has nothing to deploy is no error: its devs create what they need.
DeployIfNeeded(i) ==
  LET run == i.okteto /\ (i.deployFlag \/ i.autoDeploy \/ ~i.deployed)
  IN [run |-> run, ok |-> run => i.deploy \in {"ok", "nothing to deploy"}]

\* The build of the image of a dev and the builds it depends on; buildOf is the build
\* that the image names, or "".
UpBuilds(image, buildOf, dependsOn) ==
  IF image = "" \/ buildOf = "" THEN {} ELSE ToSet(getDependentNodes(dependsOn, <<buildOf>>))

\* A flag is <<name>> or <<name, value>>; machine has the variables of the machine, and
\* the value "${" cannot be expanded.
Expanded(value, machine) == IF value = "$v" THEN machine["v"] ELSE value
BuiltInVariables == {"OKTETO_NAMESPACE", "BUILDKIT_HOST"}
getOverridedEnvVarsFromCmd(environment, flags, machine) ==
  LET Value(f) == IF Len(f) = 1 THEN machine[f[1]] ELSE f[2]
      Refused(f) == f = <<"">> \/ f[1] \in BuiltInVariables \/ Value(f) = "${"
      given == [i \in DOMAIN flags |-> [name |-> flags[i][1], value |-> Expanded(Value(flags[i]), machine)]]
      all == environment \o given
  IN IF \E i \in DOMAIN flags : Refused(flags[i]) THEN Failed("flag")
     ELSE [ok |-> TRUE,
           env |-> [n \in {all[i].name : i \in DOMAIN all} |->
                      all[SelectLastInSeq(all, LAMBDA v : v.name = n)].value]]

\* The key of the machine is one more secret, unless it is one already.
LoadRemote(dev, key) ==
  IF \E i \in DOMAIN dev.secrets : dev.secrets[i].local = key THEN dev
  ELSE [dev EXCEPT !.secrets = Append(@, [local |-> key, base |-> "authorized_keys"])]
LoadForcePull(dev) ==
  [dev EXCEPT !.pull = "Always", !.services = [i \in DOMAIN @ |-> [@[i] EXCEPT !.pull = "Always"]]]

\* keys says whether the machine has or gets its keys; without flags the variables stay
\* as they are written.
loadManifestOverrides(dev, environment, opts, machine, sshVar, keys) ==
  LET ported == IF opts.remote > 0 THEN [dev EXCEPT !.remotePort = opts.remote] ELSE dev
      ssh == RemoteModeEnabled(ported, sshVar)
      remote == IF ssh THEN LoadRemote(ported, "key") ELSE ported
      variables == IF opts.envs = <<>> THEN [ok |-> TRUE, env |-> environment]
                   ELSE getOverridedEnvVarsFromCmd(environment, opts.envs, machine)
  IN IF ssh /\ ~keys THEN Failed("keys") ELSE IF ~variables.ok THEN variables
     ELSE [ok |-> TRUE, env |-> variables.env, dev |-> IF opts.pull THEN LoadForcePull(remote) ELSE remote]

\* In hybrid mode nothing is kept and only an empty folder is synchronized.
setSyncDefaultsByDevMode(dev, temp) ==
  IF dev.mode # "hybrid" \/ temp = "" THEN dev
  ELSE [dev EXCEPT !.pv = FALSE, !.folders = <<[local |-> <<temp>>, remote |-> <<"okteto">>]>>]

\* What the command looks at first, and what it prepares for its session.
UpChecks == <<"inside", "context", "manifest", "validate", "create namespace", "infer name", "dev section">>
UpPreparation == <<"deploy", "dev", "wake", "build", "overrides", "syncthing", "secrets", "start">>

\* The steps of the command, without those it has no reason for, and how they end: the
\* one that fails ends it, except that a namespace that does not wake up and an old
\* syncthing that cannot be replaced do not.  The namespace is woken up beside the steps
\* that follow, and its place is that of its start.  A manifest that is not found is
\* passed over, and then it is used.
UpSteps(i) ==
  LET deploy == DeployIfNeeded(i)
      Needed(s) ==
        CASE s = "inside" -> i.inside
          [] s = "create namespace" -> i.okteto /\ i.namespace = "new"
          [] s = "infer name" -> i.name = ""
          [] s = "deploy" -> deploy.run
          [] s = "wake" -> i.okteto
          [] s = "syncthing" -> i.syncthing # "current"
          [] OTHER -> TRUE
      Fails(s) ==
        \/ s = "inside"
        \/ s = i.fails /\ s # "wake" /\ (s = "syncthing" => i.syncthing = "missing")
        \/ s = "manifest" /\ ~i.manifest.ok /\ i.manifest.err # "not found"
        \/ s = "validate" /\ ~i.okteto /\ i.needsOkteto
        \/ s = "dev section" /\ i.devs = {}
        \/ s = "deploy" /\ ~deploy.ok
        \/ s = "dev" /\ i.dev \notin i.devs
      steps == SelectSeq(UpChecks \o UpPreparation, Needed)
      failed == SelectInSeq(steps, Fails)
      ended == IF failed = 0 THEN steps ELSE SubSeq(steps, 1, failed - 1)
  IN [taken |-> ended, ok |-> failed = 0,
      panic |-> ~i.manifest.ok /\ i.manifest.err = "not found" /\ "manifest" \in ToSet(ended)]

-----------------------------------------------------------------------------
(* The environment of a command in hybrid mode (cmd/up/exec.go): a sequence  *)
(* of variables [name, value], of which the last of a name counts.           *)

\* The path of an image is not one of the machine.
getEnvsFromImage(image) == SelectSeq(image, LAMBDA v : v.name # "PATH")
getEnvsFromPlatformVariables(okteto, variables) == IF okteto THEN variables ELSE <<>>
getDefaultLocalEnvs(machine) == SelectSeq(machine, LAMBDA v : v.name \in {"PATH", "TERM"} /\ v.value # "")

\* A variable of the container with its value or the object that has it; then all of
\* the objects it names.  objects has what each of them holds; a key that is not there
\* is empty.
getEnvsFromDevContainer(container, objects) ==
  LET Get(o, n) == IF n \in DOMAIN objects[o] THEN objects[o][n] ELSE ""
      Value(v) == IF v.from = "" THEN v.value ELSE Get(v.from, v.name)
      own == [i \in DOMAIN container.env |-> [name |-> container.env[i].name, value |-> Value(container.env[i])]]
      Of(o) == [k \in DOMAIN SetToSeq(DOMAIN objects[o]) |->
                  LET n == SetToSeq(DOMAIN objects[o])[k] IN [name |-> n, value |-> objects[o][n]]]
      needed == {container.env[i].from : i \in DOMAIN container.env} \cup ToSet(container.envFrom)
  IN IF ~(needed \subseteq DOMAIN objects \cup {""}) THEN Failed("object not found")
     ELSE [ok |-> TRUE, env |-> own \o FlattenSeq([i \in DOMAIN container.envFrom |-> Of(container.envFrom[i])])]

\* The variables that were given to the last deployment; there may be none.
getEnvsFromConfigMap(configMap) ==
  IF configMap.decodes THEN [ok |-> TRUE, env |-> configMap.variables] ELSE Failed("config map")

getEnvs(i) ==
  LET configMap == getEnvsFromConfigMap(i.configMap)
      container == getEnvsFromDevContainer(i.container, i.objects)
  IN IF ~i.app THEN Failed("not found") ELSE IF i.okteto /\ ~i.answers THEN Failed("platform")
     ELSE IF ~configMap.ok THEN configMap ELSE IF ~container.ok THEN container
     ELSE [ok |-> TRUE,
           env |-> getEnvsFromImage(i.image) \o getEnvsFromPlatformVariables(i.okteto, i.platform)
                   \o configMap.env \o container.env \o getDefaultLocalEnvs(i.machine) \o i.environment]
=============================================================================
