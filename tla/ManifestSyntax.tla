--------------------------- MODULE ManifestSyntax ----------------------------
(***************************************************************************)
(* The short forms of the manifest (pkg/model/serializer.go, test.go,      *)
(* forward/, pkg/env, pkg/build, pkg/deps): how a node of the YAML document*)
(* is read into a value and, where okteto writes it, how the value becomes *)
(* a node.  A node is <<form, content>>.  A command is the sequence of its *)
(* words, a text with colons the sequence of its parts; a reference to a   *)
(* variable is an element of the domain of env.                            *)
(***************************************************************************)
EXTENDS Integers, Sequences, FiniteSets, SequencesExt

ExpandEnv(v, env) == IF v \in DOMAIN env THEN env[v] ELSE v

ExpandEnvIfNotEmpty(v, env) == IF ExpandEnv(v, env) = "" THEN v ELSE ExpandEnv(v, env)

-----------------------------------------------------------------------------
(* Commands: the values are commands themselves.                             *)

Shell(text) == <<<<"sh">>, <<"-c">>, text>>
Words(text) == [i \in DOMAIN text |-> <<text[i]>>]

UnmarshalEntrypoint(node) ==
  IF node[1] = "list" THEN node[2]
  ELSE IF \E i \in 2 .. Len(node[2]) - 1 : node[2][i] = "&&" THEN Shell(node[2])
  ELSE Words(node[2])

MarshalEntrypoint(values) ==
  IF Len(values) = 1 /\ Len(values[1]) <= 1 THEN <<"text", values[1]>> ELSE <<"list", values>>

UnmarshalCommand(node) ==
  IF node[1] = "list" THEN node[2] ELSE IF Len(node[2]) > 1 THEN Shell(node[2]) ELSE <<node[2]>>

MarshalCommand(values) ==
  IF Len(values) = 1 /\ Len(values[1]) <= 1 THEN <<"text", values[1]>> ELSE <<"list", values>>

UnmarshalArgs(node) == IF node[1] = "list" THEN node[2] ELSE <<node[2]>>
MarshalArgs(values) == <<"list", values>>

\* In hybrid mode there is no shell in between.
UnmarshalHybridCommand(node) == IF node[1] = "list" THEN node[2] ELSE Words(node[2])

-----------------------------------------------------------------------------
(* Texts with colons.                                                        *)

Failed == [ok |-> FALSE, value |-> <<>>]
Read(v) == [ok |-> TRUE, value |-> v]
Numbers == {"1", "2"}

\* remote:local, read as <<remote, local>>.
UnmarshalReverse(parts) ==
  IF Len(parts) = 2 /\ Range(parts) \subseteq Numbers THEN Read(<<parts[1], parts[2]>>) ELSE Failed
MarshalReverse(f) == <<f[1], f[2]>>

DefaultSecretMode == "420"

\* A text of one or of more than three parts leaves the secret empty.
UnmarshalSecret(parts) ==
  IF Len(parts) \notin {2, 3} THEN Read(<<"", "", "0">>)
  ELSE IF Len(parts) = 2 THEN Read(<<parts[1], parts[2], DefaultSecretMode>>)
  ELSE IF parts[3] \in Numbers \cup {DefaultSecretMode} THEN Read(parts) ELSE Failed

\* The mode is written when it is the default.
MarshalSecret(s) == IF s[3] = DefaultSecretMode THEN s ELSE <<s[1], s[2]>>

\* <<name, subpath, mount>>
UnmarshalExternalVolume(parts) ==
  CASE Len(parts) = 2 -> Read(<<parts[1], "", parts[2]>>)
    [] Len(parts) = 3 -> Read(parts)
    [] OTHER -> Failed

MarshalExternalVolume(v) == IF v[2] = "" THEN <<v[1], v[3]>> ELSE v

\* [local, remote, service, name, labels]
Forward(l, r, s, n, k) == [local |-> l, remote |-> r, service |-> s, name |-> n, labels |-> k]

UnmarshalForward(parts) ==
  IF Len(parts) \notin {2, 3} \/ ~({parts[1], parts[Len(parts)]} \subseteq Numbers) THEN Failed
  ELSE IF Len(parts) = 2 THEN Read(Forward(parts[1], parts[2], FALSE, "", {}))
  ELSE Read(Forward(parts[1], parts[3], TRUE, parts[2], {}))

ForwardString(f) == IF f.service THEN <<f.local, f.name, f.remote>> ELSE <<f.local, f.remote>>

UnmarshalExtendedForward(f) ==
  IF f.labels # {} /\ f.name # "" THEN Failed
  ELSE Read([f EXCEPT !.service = f.labels # {} \/ f.name # ""])

UnmarshalGlobalForward(parts) ==
  IF Len(parts) # 3 \/ parts[2] = "" \/ ~({parts[1], parts[3]} \subseteq Numbers) THEN Failed
  ELSE Read(Forward(parts[1], parts[3], TRUE, parts[2], {}))

UnmarshalExtendedGlobalForward(f) ==
  IF (f.labels # {}) = (f.name # "") THEN Failed ELSE Read(f)

\* A list of folders, or a map that also says how they are synchronized.
DefaultRescan == 300
UnmarshalSync(node) ==
  IF node[1] = "list" THEN [folders |-> node[2], compression |-> TRUE, rescan |-> DefaultRescan] ELSE node[2]

MarshalSync(s) ==
  IF ~s.compression /\ s.rescan = DefaultRescan THEN <<"list", s.folders>> ELSE <<"map", s>>

\* A dev with the usual interval and compression is written without them.
MarshalDevSync(s) ==
  MarshalSync(IF s.rescan = DefaultRescan /\ s.compression THEN [s EXCEPT !.compression = FALSE] ELSE s)

-----------------------------------------------------------------------------
(* Switches: one boolean stands for all.                                     *)

UnmarshalProbes(node) ==
  IF node[1] = "bool" THEN [liveness |-> node[2], readiness |-> node[2], startup |-> node[2]] ELSE node[2]

MarshalProbes(p) == IF p.liveness /\ p.readiness /\ p.startup THEN <<"bool", TRUE>> ELSE <<"map", p>>

\* A handler is [enabled, command].
UnmarshalHandler(node) ==
  IF node[1] = "bool" THEN [enabled |-> node[2], command |-> <<>>] ELSE node[2]

MarshalHandler(h) ==
  IF h.enabled /\ h.command # <<>> THEN <<"map", h>> ELSE <<"bool", h.enabled>>

UnmarshalLifecycle(node) ==
  IF node[1] = "bool"
  THEN LET h == [enabled |-> node[2], command |-> <<>>] IN [postStart |-> h, preStop |-> h]
  ELSE [postStart |-> UnmarshalHandler(node[2].postStart), preStop |-> UnmarshalHandler(node[2].preStop)]
MarshalLifecycle(l) ==
  IF \A h \in {l.postStart, l.preStop} : h.enabled /\ h.command = <<>> THEN <<"bool", TRUE>>
  ELSE <<"map", [postStart |-> MarshalHandler(l.postStart), preStop |-> MarshalHandler(l.preStop)]>>

-----------------------------------------------------------------------------
(* Names and values.  An entry of a list is <<name>> or <<name, value>>.     *)

LastOf(seq, n) == CHOOSE i \in DOMAIN seq : seq[i][1] = n /\ \A j \in DOMAIN seq : seq[j][1] = n => j <= i

\* Environments, labels and annotations; the value of a name alone is the one of the
\* machine.
getKeyValue(node, env, machine) ==
  LET Entry(e) == IF Len(e) = 2 THEN <<e[1], ExpandEnv(e[2], env)>> ELSE <<e[1], machine[e[1]]>>
      entries == [i \in DOMAIN node[2] |-> Entry(node[2][i])]
  IN IF node[1] = "list"
     THEN [n \in {entries[i][1] : i \in DOMAIN entries} |-> entries[LastOf(entries, n)][2]]
     ELSE [n \in DOMAIN node[2] |-> ExpandEnv(node[2][n], env)]

\* The arguments of a build; an argument without a value is its own value.
getArgs(node, env) ==
  LET Entry(e) == IF Len(e) = 2 THEN e ELSE <<e[1], e[1]>>
      entries == [i \in DOMAIN node[2] |-> Entry(node[2][i])]
  IN IF node[1] = "list"
     THEN [n \in {entries[i][1] : i \in DOMAIN entries} |->
             ExpandEnvIfNotEmpty(entries[LastOf(entries, n)][2], env)]
     ELSE [n \in DOMAIN node[2] |-> ExpandEnvIfNotEmpty(node[2][n], env)]

\* The labels of an endpoint are annotations.
UnmarshalEndpoint(node) ==
  IF node[1] = "list" THEN [rules |-> node[2], annotations |-> <<>>, labels |-> <<>>]
  ELSE [rules |-> node[2].rules, labels |-> <<>>,
        annotations |-> [k \in DOMAIN node[2].labels \cup DOMAIN node[2].annotations |->
                           IF k \in DOMAIN node[2].labels THEN node[2].labels[k]
                           ELSE node[2].annotations[k]]]

\* name:ip, the ip may have colons.
UnmarshalHost(node, env) ==
  LET host == IF node[1] = "map" THEN node[2]
              ELSE [hostname |-> <<node[2][1]>>, ip |-> Tail(node[2])]
      Ex(parts) == IF parts = <<>> THEN "" ELSE ExpandEnv(parts[1], env)
  IN IF node[1] = "text" /\ Len(node[2]) < 2 THEN Failed
     ELSE IF Ex(host.hostname) = "" \/ (Ex(host.ip) = "" /\ Len(host.ip) <= 1) THEN Failed
     ELSE Read([hostname |-> Ex(host.hostname), ip |-> <<Ex(host.ip)>> \o Tail(host.ip)])

-----------------------------------------------------------------------------
(* The image that is built.                                                  *)

UnmarshalInfo(node, env) ==
  IF node[1] = "text" THEN [context |-> node[2], dockerfile |-> "", target |-> "", image |-> "", args |-> <<>>]
  ELSE [node[2] EXCEPT !.context = ExpandEnvIfNotEmpty(@, env), !.dockerfile = ExpandEnvIfNotEmpty(@, env)]

MarshalInfo(i) ==
  IF \/ i.context \notin {"", "."} \/ i.dockerfile \notin {"", "./Dockerfile"}
     \/ i.target # "" \/ i.args # <<>>
  THEN <<"map", i>> ELSE <<"text", i.image>>

\* remote: a context that is a URL has no Dockerfile of its own.
SetBuildDefaults(i, remote) ==
  LET context == IF i.context = "" THEN "." ELSE i.context
  IN [i EXCEPT !.context = context,
               !.dockerfile = IF @ = "" /\ context \notin remote THEN "Dockerfile" ELSE @]

\* A variable of a previous image is <<service, field>>, any other variable <<name>>.
isServiceInDependencies(dependsOn, service) == service \in Range(dependsOn)

addExpandedPreviousImageArgs(args, previous, dependsOn) ==
  LET names == {args[i][1] : i \in DOMAIN args}
      added == {k \in DOMAIN previous \ names :
                  Len(k) = 2 => isServiceInDependencies(dependsOn, k[1])}
  IN args \o SetToSeq({<<k, previous[k]>> : k \in added})

expandManifestBuildArgs(args, previous) ==
  [i \in DOMAIN args |-> IF args[i][1] \in DOMAIN previous THEN <<args[i][1], previous[args[i][1]]>>
                         ELSE args[i]]

AddArgs(args, previous, dependsOn) ==
  addExpandedPreviousImageArgs(expandManifestBuildArgs(args, previous), previous, dependsOn)

-----------------------------------------------------------------------------
(* Sections.  A deploy command is [name, command].                           *)

Command(text) == [name |-> text, command |-> text]
UnmarshalDeployCommand(node) == IF node[1] = "text" THEN Command(node[2]) ELSE node[2]

\* [commands, image, compose]
UnmarshalDeployInfo(node) ==
  IF node[1] = "map" THEN node[2]
  ELSE [commands |-> [i \in DOMAIN node[2] |-> UnmarshalDeployCommand(node[2][i])],
        image |-> "", compose |-> <<>>]

\* Commands without a name of their own are written as a list, alone.
MarshalDeployInfo(d) ==
  IF d.compose = <<>> /\ \A i \in DOMAIN d.commands : d.commands[i].name = d.commands[i].command
  THEN <<"list", [i \in DOMAIN d.commands |-> <<"text", d.commands[i].command>>]>>
  ELSE <<"map", d>>

\* The commands of destroy; a context that is set before the section is read is lost.
UnmarshalDestroyInfo(node) ==
  IF node[1] = "map" THEN node[2]
  ELSE [commands |-> [i \in DOMAIN node[2] |-> UnmarshalDeployCommand(node[2][i])],
        image |-> "", compose |-> <<>>]
MarshalDestroyInfo(d) ==
  IF \A i \in DOMAIN d.commands : d.commands[i].name = d.commands[i].command
  THEN <<"list", [i \in DOMAIN d.commands |-> <<"text", d.commands[i].command>>]>> ELSE <<"map", d>>

\* A file, a list of files or a map.
UnmarshalComposeInfo(node) == IF node[1] = "text" THEN [file |-> node[2], services |-> <<>>] ELSE node[2]
UnmarshalComposeInfoList(node) ==
  IF node[1] = "list" THEN [i \in DOMAIN node[2] |-> UnmarshalComposeInfo(node[2][i])]
  ELSE <<UnmarshalComposeInfo(node)>>

\* strict: the document is read with its unknown fields as errors, so a dev that has
\* another field is looked at field by field; only then is the mode checked.
UnmarshalDev(dev, strict) ==
  LET checked == strict /\ dev.otherFields
  IN IF checked /\ dev.mode \notin {"", "sync", "hybrid"} THEN Failed
     ELSE IF dev.mode # "hybrid" THEN Read([dev EXCEPT !.mode = "sync"])
     ELSE IF dev.workdir # "dir" THEN Failed
     ELSE Read([dev EXCEPT !.image = "cli", !.pull = "IfNotPresent"])

\* What expands to nothing keeps its text.
ExpandVars(d, env) ==
  [branch |-> ExpandEnvIfNotEmpty(d.branch, env), repository |-> ExpandEnvIfNotEmpty(d.repository, env),
   manifest |-> ExpandEnvIfNotEmpty(d.manifest, env),
   variables |-> [i \in DOMAIN d.variables |->
                    <<ExpandEnvIfNotEmpty(d.variables[i][1], env),
                      ExpandEnvIfNotEmpty(d.variables[i][2], env)>>]]

\* A list of repositories; two of the same name are one.
UnmarshalDependencies(node, NameOf) ==
  IF node[1] = "map" THEN node[2]
  ELSE [n \in {NameOf[node[2][i]] : i \in DOMAIN node[2]} |->
          node[2][CHOOSE i \in DOMAIN node[2] : NameOf[node[2][i]] = n
                    /\ \A j \in DOMAIN node[2] : NameOf[node[2][j]] = n => j <= i]]
=============================================================================
