------------------------------- MODULE RepoHash ------------------------------
(***************************************************************************)
(* What the CLI asks git: the hash of a build context that decides whether *)
(* an image is built, the commit of a deployment, and whether two          *)
(* addresses are of the same repository.  A repository has for each file   *)
(* what is committed (head), staged (index) and on disk (work); git is     *)
(* what becomes of the commands of a process.  Hashes are the values that  *)
(* are hashed.                                                             *)
(***************************************************************************)
EXTENDS Integers, Sequences, FiniteSets, SequencesExt, Functions

Absent == ""
Failed == <<"failed">>

-----------------------------------------------------------------------------
(* Commands of git.                                                          *)

\* git trusts the directory once okteto has added it to its configuration: the
\* path of the project, which is not the root of its repository when the project
\* is a directory of it, or the root itself.
FixDubiousOwnershipConfig(git, where) ==
  [git EXCEPT !.dubious = @ /\ git.project = "directory" /\ where = "project"]

\* A command is tried once more after the ownership is fixed.
RunCommand(git, where) ==
  LET fixed == FixDubiousOwnershipConfig(git, where) IN
  IF git.broken THEN [ok |-> FALSE, git |-> git]
  ELSE IF ~git.dubious THEN [ok |-> TRUE, git |-> git]
  ELSE IF git.fixFails THEN [ok |-> FALSE, git |-> git]
  ELSE [ok |-> ~fixed.dubious, git |-> fixed]

\* Two commands in a pipe: their standard error is read apart, and an ownership
\* that git refuses is an error like any other.
RunPipeCommands(git) == ~git.broken /\ ~git.dubious

-----------------------------------------------------------------------------
(* Files that are left out.                                                  *)

\* Rules leave files out; those that cannot be read or matched leave out nothing.
DockerIgnorer(rules, f) == rules.readable /\ f \in rules.leaveOut
NeverIgnores(f) == FALSE
IgnorerOf(o, f) == IF o.shouldIgnoreFiles THEN DockerIgnorer(o.rules, f) ELSE NeverIgnores(f)
\* A file of a diff is named from the root of the repository and looked up from
\* the path of the project: in a directory its name begins with the directory.
resolveRelativePath(git, f) == IF git.project = "root" THEN f ELSE "elsewhere"

\* The sections of an .oktetoignore: a sequence of headers and rules.
isSectionHeader(line) == line[1] = "header"
RootSection == "root"
SectionAt(lines, i) ==
  LET headers == {j \in 1..i : isSectionHeader(lines[j])}
  IN IF headers = {} THEN RootSection ELSE lines[CHOOSE j \in headers : \A k \in headers : k <= j][2]
sectionsFromReader(lines, section) ==
  LET own == {i \in DOMAIN lines : ~isSectionHeader(lines[i]) /\ SectionAt(lines, i) = section}
  IN [i \in 1..Cardinality(own) |-> lines[SetToSortSeq(own, <)[i]][2]]
Rules(lines, sections) == FlattenSeq([i \in DOMAIN sections |-> sectionsFromReader(lines, sections[i])])

-----------------------------------------------------------------------------
(* What git says of a build context.                                         *)

Tracked(repo) == {f \in DOMAIN repo.index : repo.index[f] # Absent}
\* Files that git does not track, without those it is told to ignore.
UntrackedFiles(repo) == {f \in DOMAIN repo.work : repo.work[f] # Absent /\ f \notin Tracked(repo) /\ f \notin repo.gitignored}
Changes(old, new, files) == {<<f, old[f], new[f]>> : f \in {x \in files : old[x] # new[x]}}

\* Staged entries of the files that are not left out.
getDirContentSHAWithIgnore(repo, git, o) ==
  LET r == RunCommand(git, "project")
      kept == {f \in Tracked(repo) : ~IgnorerOf(o, f)}
  IN [sha |-> IF r.ok THEN <<"index", Restrict(repo.index, kept)>> ELSE Failed, git |-> r.git]
getDirContentSHAWithoutIgnore(repo, git) ==
  [sha |-> IF RunPipeCommands(git) THEN <<"index", Restrict(repo.index, Tracked(repo))>> ELSE Failed, git |-> git]
GetDirContentSHA(repo, git, o) ==
  IF o.shouldIgnoreFiles THEN getDirContentSHAWithIgnore(repo, git, o) ELSE getDirContentSHAWithoutIgnore(repo, git)

\* Without rules the disk is compared with what is staged (HEAD is read as a path),
\* with them it is compared with the last commit.
diffWithoutIgnore(repo) == Changes(repo.index, repo.work, Tracked(repo))
diffWithIgnore(repo, git, o) ==
  {c \in Changes(repo.head, repo.work, Tracked(repo) \cup {f \in DOMAIN repo.head : repo.head[f] # Absent}) :
     ~IgnorerOf(o, resolveRelativePath(git, c[1]))}
\* After an ownership was fixed the hash of the staged files takes the place of
\* the diff.
DiffSinceHead(repo, git, o) == <<"diff", diffWithIgnore(repo, git, o)>>
DiffOf(repo, git, o) == <<"diff", IF o.shouldIgnoreFiles THEN diffWithIgnore(repo, git, o) ELSE diffWithoutIgnore(repo)>>
Diff(repo, git, o) ==
  LET r == RunCommand(git, "project") IN
  IF ~git.dubious \/ ~r.ok THEN [diff |-> IF r.ok THEN DiffOf(repo, git, o) ELSE Failed, git |-> r.git]
  ELSE LET s == GetDirContentSHA(repo, r.git, o) IN [diff |-> s.sha, git |-> s.git]

\* The names of untracked files, with git or without.
ListUntrackedFiles(repo, git) ==
  LET r == IF git.exists THEN RunCommand(git, "root") ELSE [ok |-> TRUE, git |-> git]
  IN [ok |-> r.ok, files |-> UntrackedFiles(repo), git |-> r.git]
\* Their content is read from the path of the project.
getUntrackedContent(repo, git, files) ==
  IF files # {} /\ git.project = "directory" THEN Failed ELSE <<"untracked", Restrict(repo.work, files)>>
filterUntracked(files, o) == {f \in files : ~IgnorerOf(o, f)}
calculateUntracked(repo, git, o) ==
  LET l == ListUntrackedFiles(repo, git)
  IN [content |-> IF l.ok THEN getUntrackedContent(repo, git, filterUntracked(l.files, o)) ELSE Failed, git |-> l.git]

-----------------------------------------------------------------------------
(* The two parts of a hash, each within a time limit.                        *)

\* Without git the log is asked for commits that touch the path of the directory
\* itself: there are none.
GetLatestSHA(repo, git, o) ==
  IF ~git.exists THEN [sha |-> <<"commit">>, git |-> git] ELSE GetDirContentSHA(repo, git, o)
GetLatestDirSHA(repo, git, o, timely) ==
  LET s == GetLatestSHA(repo, git, o) IN [sha |-> IF "sha" \in timely /\ git.found THEN s.sha ELSE Failed, git |-> s.git]

GetDiff(repo, git, o) == IF git.exists THEN Diff(repo, git, o) ELSE [diff |-> Failed, git |-> git]

\* The diff and the untracked files are collected at the same time: first says which
\* of them meets git first, "both" that each meets it as it was. What is not there
\* in time fails the whole.
GetDiffHash(repo, git, o, timely, first) ==
  LET d1 == GetDiff(repo, git, o)
      u == calculateUntracked(repo, IF first = "diff" THEN d1.git ELSE git, o)
      d == IF first = "untracked" THEN GetDiff(repo, u.git, o) ELSE d1
      parts == <<IF "diff" \in timely THEN d.diff ELSE Failed, IF "untracked" \in timely THEN u.content ELSE Failed>>
  IN IF ~git.found \/ Failed \in {parts[1], parts[2]} THEN Failed ELSE parts

-----------------------------------------------------------------------------
(* The hash of a service.                                                    *)

\* A value that no other process gets: the time at which the process began.
calculateRandomShaForService(service, time) == <<"random", service, time>>
\* The Dockerfile is looked up as it is named, then in the context; what cannot be
\* read counts as an empty file, what is nowhere as none.
getDockerfileContent(named, inContext) ==
  CASE named = "missing" /\ inContext \in {"missing", "unreadable"} -> <<"none">>
    [] named = "missing" /\ inContext \notin {"missing", "unreadable"} -> <<"file", inContext>>
    [] named = "unreadable" -> <<"file", "">>
    [] OTHER -> <<"file", named>>
\* A secret is hashed by the name of its variable or file, in the order of a map.
SecretText(s) == IF s.env # "" THEN <<"env", s.env>> ELSE <<"file", s.file>>
hash(info, commit, diff) ==
  [commit |-> commit, target |-> info.target, args |-> info.args,
   secrets |-> [i \in DOMAIN info.order |-> <<info.order[i], SecretText(info.secrets[info.order[i]])>>],
   dockerfile |-> getDockerfileContent(info.named, info.inContext), diff |-> diff]

\* A hash is computed once; what git does not say is replaced by a random value.
hashWithBuildContext(cache, service, info, repo, git, o, timely, first, time) ==
  LET s == GetLatestDirSHA(repo, git, o, timely)
      d == GetDiffHash(repo, s.git, o, timely, first)
      or(x) == IF x = Failed THEN calculateRandomShaForService(service, time) ELSE x
  IN IF service \in DOMAIN cache THEN cache[service] ELSE hash(info, or(s.sha), or(d))

-----------------------------------------------------------------------------
(* What a hash has to tell apart.                                            *)

\* What the files that count hold on disk: all but those that git is told to ignore
\* and, when the rules are used, those that they leave out.
BuildContent(repo, o) ==
  [f \in DOMAIN repo.work |->
     IF IgnorerOf(o, f) \/ (f \in repo.gitignored /\ repo.index[f] = Absent) THEN Absent ELSE repo.work[f]]

\* With the rules the disk is compared with the last commit, so that a file that was
\* staged and taken back on disk is missed; and so are the changes of a directory
\* whose own name the rules leave out.
HashIsBlind(repo, git, o) ==
  /\ o.shouldIgnoreFiles
  /\ repo.index # repo.head \/ (git.project = "directory" /\ IgnorerOf(o, "elsewhere"))

-----------------------------------------------------------------------------
(* The commit of a deployment.                                               *)

Status(repo, git) ==
  LET r == IF git.exists THEN RunCommand(git, "root") ELSE [ok |-> TRUE, git |-> git]
  IN [ok |-> r.ok, clean |-> repo.head = repo.index /\ UntrackedFiles(repo) = {} /\ \A f \in Tracked(repo) : repo.work[f] = repo.index[f]]
calculateIsClean(repo, git) == git.found /\ Status(repo, git).ok /\ Status(repo, git).clean
isClean(repo, git, timely) == "sha" \in timely /\ calculateIsClean(repo, git)
getSHA(repo, git, timely) == IF isClean(repo, git, timely) THEN <<"commit", repo.head>> ELSE <<"none">>
\* A variable that the user gave is kept; a remote command does not look whether
\* the tree is clean.
addEnvVars(given, repo, git, timely, isRemote) ==
  CASE given # Absent -> <<"given">>
    [] given = Absent /\ ~isRemote /\ ~isClean(repo, git, timely) -> <<"random">>
    [] OTHER -> getSHA(repo, git, timely)

-----------------------------------------------------------------------------
(* Addresses of repositories: scheme, user, host, port, path and suffix.     *)

cleanPath(a) == a.path
IsEqual(a, b) == a.host = b.host /\ cleanPath(a) = cleanPath(b)
StringOf(a) == [a EXCEPT !.user = "", !.scheme = IF @ \in {"ssh", "http"} THEN "https" ELSE @, !.git = FALSE]
switchRepoSchemaToHTTPS(a) ==
  CASE a.scheme \in {"ssh", "http"} -> [a EXCEPT !.scheme = "https", !.user = ""]
    [] a.scheme = "https" -> a
    [] OTHER -> [a EXCEPT !.path = ""]

\* The name of an environment: that of one in the namespace that was deployed from
\* the same repository and manifest, else that of the repository.
InferNameFromDevEnvsAndRepository(envs, repo, manifest, discovered) ==
  LET found == SelectSeq(envs, LAMBDA e : /\ e.repo # "" /\ e.repo = repo
                                          /\ e.file = manifest \/ (manifest = "" /\ e.file = discovered))
  IN IF found = <<>> THEN repo ELSE found[1].name
InferName(remote, variable, base, envs, manifest, discovered) ==
  CASE remote = "" /\ variable # "" -> variable
    [] remote = "" /\ variable = "" -> base
    [] OTHER -> InferNameFromDevEnvsAndRepository(envs, remote, manifest, discovered)
\* The name and the services of a deployment.
setDeployOptionsValuesFromManifest(name, manifestName, inferred) ==
  IF name # "" THEN name ELSE IF manifestName # "" THEN manifestName ELSE inferred
=============================================================================
