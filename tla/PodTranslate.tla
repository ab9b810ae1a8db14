---------------------------- MODULE PodTranslate ----------------------------
(***************************************************************************)
(* The pod of a development container (pkg/k8s/apps): the containers, the  *)
(* volumes, the init containers and the affinity that the rules of a       *)
(* manifest give to the clone of an application, the secret they mount,    *)
(* the claim they share, and how an application is found.                  *)
(*                                                                         *)
(* A container is a record of its environment (a sequence of names and     *)
(* values), its mounts, its handlers, its resources and its security       *)
(* context.  A field that is not set has the value Unset.                  *)
(***************************************************************************)
EXTENDS Integers, Sequences, FiniteSets, SequencesExt

Unset == "unset"
Names(s) == {s[i].name : i \in DOMAIN s}

-----------------------------------------------------------------------------
(* The container.                                                            *)

TranslateProbes(c, rule) ==
  IF rule.probes = <<>> THEN c ELSE [c EXCEPT !.probes = @ \cap rule.probes[1]]

\* A handler of the manifest: not set, switched off, on as it is, or a command.
setHandler(current, handler) ==
  CASE handler = Unset -> current [] handler = "off" -> Unset [] handler = "on" -> current
    [] OTHER -> handler

TranslateLifecycle(c, rule) ==
  [c EXCEPT !.postStart = setHandler(@, rule.postStart), !.preStop = setHandler(@, rule.preStop)]

\* The usual resources are those of the rule only; extended ones are added.
Usual == {"memory", "cpu", "ephemeral-storage"}
TranslateResources(c, rule) ==
  LET kept == (DOMAIN c.resources) \ Usual
  IN [c EXCEPT !.resources = [r \in kept \cup DOMAIN rule.resources |->
        IF r \in DOMAIN rule.resources THEN rule.resources[r] ELSE c.resources[r]]]

\* A variable of the rule replaces the first of its name in the container, or is
\* added once for each time the rule names it.
TranslateEnvVars(c, rule) ==
  LET value == [n \in Names(rule.env) |-> SelectLastInSeq(rule.env, LAMBDA v : v.name = n)]
      First(i) == \A j \in 1..(i - 1) : c.env[j].name # c.env[i].name
      Replaced(i) == c.env[i].name \in DOMAIN value /\ First(i)
      Value(n) == [name |-> n, value |-> rule.env[value[n]].value]
  IN [c EXCEPT !.env =
        [i \in DOMAIN c.env |-> IF Replaced(i) THEN Value(c.env[i].name) ELSE c.env[i]]
        \o [i \in DOMAIN SelectSeq(rule.env, LAMBDA v : v.name \notin Names(c.env)) |->
              Value(SelectSeq(rule.env, LAMBDA v : v.name \notin Names(c.env))[i].name)]]

SyncSecretVolume == "okteto-sync-secret"
DevSecretVolume == "okteto-dev-secret"
OktetoBinName == "okteto-bin"

Mount(n, p) == [name |-> n, path |-> p]

TranslateVolumeMounts(c, rule) ==
  [c EXCEPT !.mounts =
     @ \o rule.volumes
       \o (IF rule.main THEN <<Mount(SyncSecretVolume, "/var/syncthing/secret/")>> ELSE <<>>)
       \o (IF rule.main /\ rule.secrets # <<>> THEN <<Mount(DevSecretVolume, "/var/okteto/secret/")>>
           ELSE <<>>)]

TranslateOktetoBinVolumeMounts(c) ==
  IF OktetoBinName \in Names(c.mounts) THEN c
  ELSE [c EXCEPT !.mounts = Append(@, Mount(OktetoBinName, "/var/okteto/bin"))]

\* Capabilities discard what is set for the root file system.
TranslateContainerSecurityContext(c, s) ==
  IF s = <<>> THEN c
  ELSE [c EXCEPT !.user = IF s[1].user = Unset THEN @ ELSE s[1].user,
                 !.caps = IF s[1].caps = Unset THEN @ ELSE s[1].caps,
                 !.readOnly = CASE s[1].caps # Unset -> Unset
                                [] s[1].caps = Unset /\ s[1].readOnly # Unset -> s[1].readOnly
                                [] OTHER -> @]

TranslateDevContainer(c, rule) ==
  LET d == [c EXCEPT !.image = rule.image,
                     !.workdir = IF rule.workdir = Unset THEN @ ELSE rule.workdir,
                     !.command = IF rule.command = Unset THEN @ ELSE rule.command]
  IN TranslateContainerSecurityContext(
       TranslateVolumeMounts(
         TranslateEnvVars(
           TranslateResources(TranslateLifecycle(TranslateProbes(d, rule), rule), rule), rule), rule),
       rule.sc)

-----------------------------------------------------------------------------
(* The pod.                                                                  *)

Volume(n, s) == [name |-> n, source |-> s]
AddVolume(pod, v) ==
  IF v.name \in Names(pod.volumes) THEN pod ELSE [pod EXCEPT !.volumes = Append(@, v)]

\* One volume for each name the rule mounts; the syncthing volume is a claim only
\* with a persistent volume.
TranslateOktetoVolumes(pod, rule) ==
  FoldLeft(LAMBDA p, v : AddVolume(p, Volume(v.name,
                           IF ~rule.persistent /\ v.syncthing THEN "empty" ELSE "claim")),
           pod, rule.volumes)

TranslateOktetoBinVolume(pod) == AddVolume(pod, Volume(OktetoBinName, "empty"))
TranslateOktetoSyncthingVolumes(pod) == AddVolume(pod, Volume(SyncSecretVolume, "secret"))

\* Names in which the two searches for ignore files differ.
HasStignore(f) == f \in {".stignore", "stignore"}
HasDotStignore(f) == f = ".stignore"

\* The file names of the secrets, with a number for each of those that are ignore files.
Numbered(files, ignore) ==
  [i \in DOMAIN files |->
     IF i \in ignore THEN <<files[i], Cardinality({j \in ignore : j <= i})>> ELSE <<files[i]>>]

\* The keys a pod mounts and the keys of the secret.
SecretItems(files) == Numbered(files, {i \in DOMAIN files : HasDotStignore(files[i])})
SecretKeys(files) == Numbered(files, {i \in DOMAIN files : HasStignore(files[i])})

TranslateOktetoDevSecret(pod, rule) ==
  IF rule.secrets = <<>> THEN pod ELSE AddVolume(pod, Volume(DevSecretVolume, "secret"))

InitContainer(n, image, mounts) == [name |-> n, image |-> image, mounts |-> mounts]

TranslateOktetoInitBinContainer(pod, rule) ==
  [pod EXCEPT !.inits = Append(@, InitContainer(OktetoBinName, rule.initImage,
                                                <<Mount(OktetoBinName, "/okteto/bin")>>))]

\* The data and the source code are copied once from the image to the volume.
Copied(rule) == SelectSeq(rule.volumes, LAMBDA v : v.copied)
TranslateOktetoInitFromImageContainer(pod, rule) ==
  IF ~rule.persistent THEN pod
  ELSE [pod EXCEPT !.inits = Append(@, InitContainer("okteto-init-volume", rule.image,
          [i \in DOMAIN Copied(rule) |-> Mount(Copied(rule)[i].name, <<"init-volume", i>>)]))]

\* Mutant: the mode of access does not matter.
TranslateOktetoAffinityAny(pod, rule, label) ==
  LET p == IF rule.affinity = <<>> THEN pod ELSE [pod EXCEPT !.affinity = rule.affinity[1]]
  IN IF (rule.affinity # <<>> /\ rule.affinity[1] = <<<<"empty">>>>) \/ ~rule.persistent THEN pod
     ELSE [p EXCEPT !.affinity = Append(@, label)]

\* An affinity of the manifest replaces that of the pod; a claim that one node at a
\* time can use brings the pods that mount it together.  An affinity with nothing in
\* it (<<<<"empty">>>>) ends the translation.
TranslateOktetoAffinity(pod, rule, label) ==
  LET p == IF rule.affinity = <<>> THEN pod ELSE [pod EXCEPT !.affinity = rule.affinity[1]]
  IN IF rule.affinity # <<>> /\ rule.affinity[1] = <<<<"empty">>>> THEN pod
     ELSE IF ~rule.persistent \/ rule.access = "ReadWriteMany" \/ rule.mainVolume \notin Names(rule.volumes)
          THEN p ELSE [p EXCEPT !.affinity = Append(@, label)]

\* What the translation leaves in the manifest, which shares the affinity with the
\* pod.
AffinityAfter(rule, pod) == IF rule.affinity = <<>> THEN <<>> ELSE
  IF rule.affinity[1] = <<<<"empty">>>> THEN rule.affinity ELSE <<pod.affinity>>

\* The label of the pods that use a volume, and the pods that get it.
getVolumeLabelKey(manifestName) == <<"volume", manifestName>>

VolumeLabels(rules) ==
  IF rules[1].persistent /\ rules[1].manifest # "" THEN {getVolumeLabelKey(rules[1].manifest)} ELSE {}

\* GetTranslations: the container of a rule, and the image it has without one.
GetDevContainer(pod, n) ==
  IF n = "" THEN 1 ELSE SelectInSeq(pod.containers, LAMBDA c : c.name = n)

TranslateRule(pod, rule) ==
  LET i == GetDevContainer(pod, rule.container)
      named == [rule EXCEPT !.image = IF @ = Unset THEN pod.containers[i].image ELSE @]
      c == TranslateDevContainer(pod.containers[i], named)
      p == TranslateOktetoDevSecret(
             TranslateOktetoAffinity(TranslateOktetoVolumes(pod, named), named,
                                     getVolumeLabelKey(rule.manifest)), named)
      d == IF rule.main THEN TranslateOktetoBinVolumeMounts(c) ELSE c
      q == [p EXCEPT !.containers[i] = d]
  IN IF ~rule.main THEN q
     ELSE TranslateOktetoInitFromImageContainer(
            TranslateOktetoBinVolume(TranslateOktetoInitBinContainer(q, named)), named)

\* Translation.translate: the pod of the clone.
TranslatePod(pod, rules) ==
  LET p == IF rules[1].main THEN TranslateOktetoSyncthingVolumes(pod) ELSE pod
  IN FoldLeft(TranslateRule, p, rules)

\* ValidateMountPaths: a folder is not synchronized over a volume of the container.
ValidateMountPaths(pod, rule, folders) ==
  ~rule.persistent \/ \A m \in ToSet(pod.containers[GetDevContainer(pod, rule.container)].mounts) :
                        m.name = rule.mainVolume \/ m.path \notin folders

-----------------------------------------------------------------------------
(* The claim.                                                                *)

DefaultSize == 5
OldDefaultSize == 10

\* checkPVCValues: a claim does not shrink, except from the old default to a size
\* the manifest names.
checkPVCValues(pvc, dev) ==
  /\ pvc.size > dev.size => pvc.size = OldDefaultSize /\ dev.size # DefaultSize
  /\ dev.class # Unset => pvc.class = dev.class
  /\ pvc.access = dev.access

\* CreateForDev: the claim afterwards and whether the command goes on, with what the
\* cluster answers.  A claim that cannot be resized ("forbidden") is kept as it is.
CreateForDev(pvc, dev, answer) ==
  LET wanted == IF pvc = <<>> THEN dev ELSE [dev EXCEPT !.class = IF @ = Unset THEN pvc[1].class ELSE @]
      written == answer = "ok" /\ (pvc # <<>> => checkPVCValues(pvc[1], dev))
  IN [claim |-> IF written THEN <<wanted>> ELSE pvc,
      ok |-> written \/ (answer = "forbidden" /\ pvc # <<>> /\ checkPVCValues(pvc[1], dev))]

-----------------------------------------------------------------------------
(* Finding an application.                                                   *)

\* GetByDev of deployments and of statefulsets, by labels: the only one that is no
\* clone.  Without such a one a deployment is not found and the first of no
\* statefulsets is read.
GetByDev(items, kind) ==
  LET valid == SelectSeq(items, LAMBDA i : ~i.clone)
  IN CASE items = <<>> -> "not found"
       [] items # <<>> /\ valid = <<>> -> IF kind = "deployment" THEN "not found" ELSE "panic"
       [] Len(valid) > 1 -> "error"
       [] Len(valid) = 1 -> valid[1].name

\* CheckConditionErrors: the first condition that says that pods cannot be created.
\* A statefulset has no type of condition for it.
FailedCreate(c, kind) == c.failed /\ (kind = "statefulset" \/ c.replicaFailure)
CheckConditionErrors(conditions, kind) ==
  LET failed == SelectSeq(conditions, LAMBDA c : FailedCreate(c, kind))
  IN IF failed = <<>> THEN "nil"
     ELSE CASE failed[1].message \in {"pods", "storage", "quota"} -> "quota"
            [] failed[1].message \in {"cpu", "memory"} -> "limit"
            [] OTHER -> "other"
=============================================================================
