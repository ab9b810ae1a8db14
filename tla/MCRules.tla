------------------------------ MODULE MCRules -------------------------------
(***************************************************************************)
(* An instance for TLC of what is computed from the files of a project: a  *)
(* behaviour takes one of the small inputs and computes its result.        *)
(***************************************************************************)
EXTENDS ComposeRules, ManifestRules, PlatformRules, RepoRules, RemoteRules

Parts == ComposeParts \cup ManifestParts \cup SyntaxParts \cup PodParts \cup ApiParts \cup ContextParts \cup RepoParts \cup RemoteParts

Init ==
  /\ part \in Parts
  /\ in \in CASE part \in ComposeParts -> ComposeInputs(part)
            [] part \in ManifestParts -> ManifestInputs(part)
            [] part \in SyntaxParts -> SyntaxInputs(part)
            [] part \in PodParts -> PodRuleInputs(part)
            [] part \in ApiParts -> ApiInputs(part)
            [] part \in ContextParts -> ContextInputs(part)
            [] part \in RepoParts -> RepoInputs(part)
            [] part \in RemoteParts -> RemoteInputs(part)
  /\ out = <<>>
  /\ done = FALSE

Compute ==
  /\ ~done
  /\ out' = CASE part \in ComposeParts -> ComposeResult(part, in)
              [] part \in ManifestParts -> ManifestResult(part, in)
              [] part \in SyntaxParts -> SyntaxResult(part, in)
              [] part \in PodParts -> DevPodResult(part, in)
              [] part \in ApiParts -> ApiResult(part, in)
              [] part \in ContextParts -> ContextResult(part, in)
              [] part \in RepoParts -> RepoResult(part, in)
              [] part \in RemoteParts -> RemoteResult(part, in)
  /\ done' = TRUE
  /\ UNCHANGED <<part, in>>

Spec == Init /\ [][Compute]_vars

-----------------------------------------------------------------------------
(* What has to hold: the properties of the modules above, by subject.        *)

\* The services that a compose file and its overrides describe are the ones that
\* are read: names, volumes, limits, ports and variables are kept, cycles are found
\* and what is accepted has an order (model/stack.go, stack_serializer.go). The
\* Kubernetes objects of a service fit together: ports route to containers, claims
\* have the storage that was asked for, pods are valid and their selectors find them
\* (cmd/stack/translate.go).
ComposeIsFaithful ==
  /\ OverrideIsMerged /\ MergedVolumesAreDeclared /\ ServicesKeepTheirNames
  /\ CyclesAreFound /\ AcceptedStacksHaveAnOrder /\ VolumesAreKept
  /\ NameAndVariableAgree /\ LastEnvFileWins /\ LimitsAreKept
  /\ PortsAreDisjoint /\ RangesAreComplete /\ ProtocolIsKept
  /\ ServicePortsRoute /\ ProbesHaveAHandler /\ JobVolumesHaveClaims
  /\ OneKindOfWorkload /\ PodsAreValid /\ DataIsMountedOnce
  /\ AnonymousVolumesKeepApart /\ StorageReachesTheClaim /\ SelectorMatches
  /\ SharedVolumesShareANode /\ VolumesKeepTheirOptions

\* A manifest is read as it is written: no file is passed over, every spelling of a
\* field keeps what it says, defaults are stable, names and folders do not collide
\* (model/manifest.go, dev.go, serializer.go, volumes.go).
ManifestIsRead ==
  /\ NoFileIsPassedOver /\ InvalidStacksAreNamed /\ BuiltImagesAreUsed
  /\ SanitizingLosesNothing /\ BuildsAreClosed /\ SubPathsMirrorFolders
  /\ ParentIsAbove /\ SubPathsStayInVolume /\ DefaultsAreStable
  /\ DefaultsKeepContextValid /\ FirstEnvFileWins /\ CommandsAreKept
  /\ TextRunsItsWords /\ ColonTextsAreKept /\ SecretsKeepTheirPaths
  /\ ForwardsSelectOneService /\ HandlersAreKept /\ ListsAndMapsAgree
  /\ ArgsAreNotEmptied /\ BuildSeesItsDependencies /\ CommandsOfSectionsAreKept
  /\ ModesAreKnown /\ DefaultsAreRestored /\ SyncIsKept
  /\ HostFormsAgree /\ ProbesAreKept /\ BuildsAreKept
  /\ LabelsAreAnnotations /\ DependenciesAreKept
  /\ FlagsWin /\ SessionsStartPrepared /\ HybridSeesTheContainer

\* The pod of a development container holds together: every mount has one volume,
\* secrets have their keys, the pod finds itself, repeated activations agree and a
\* clone is never taken for the application (k8s/apps/translate.go).
DevPodsHoldTogether ==
  /\ ManifestVariablesWin /\ MountsHaveOneVolume /\ FoldersAreMountedOnce
  /\ PodsFindThemselves /\ VolumesHoldTogether /\ ActivationsAgree
  /\ ManifestDecides /\ SecretsHaveTheirKeys /\ ClaimsDoNotShrink
  /\ ClonesAreNotApps /\ FailuresAreReported

\* What the command asks of the platform is what the user meant, whatever its age:
\* requests are sent once, the fallbacks keep their meaning, failures are told, and
\* options, tokens and namespaces are those of one context (pkg/okteto, cmd/context).
PlatformIsTold ==
  /\ DeploysAreSentOnce /\ DeploysUseWhatIsKnown /\ LabelsAreNotDropped
  /\ FallbacksKeepTheirMeaning /\ OriginIsToldOnce /\ FailuresAreTold
  /\ StatusesAreOfTheApplication /\ MetadataIsWhole /\ RepositoriesAreStable
  /\ CredentialsAreOfTheirRegistry /\ EndpointsAreOfTheApplication /\ OptionsAreOfTheContext
  /\ SpellingsMeet /\ LocalVariablesWin /\ NewerVersionsAreTaken
  /\ NamespacesAreCreatedOnPurpose /\ DeletedNamespacesAreLeft /\ KubeconfigsStayWhole
  /\ ClientsTrustTheirCluster /\ SelectorsOfferEachOnce

\* An image is reused only for the same sources and options: equal hashes mean equal
\* builds, what is not known is built, and files that do not count do not matter
\* (pkg/repository, smartbuild/hasher.go). It is found again by its hash and nowhere
\* else, a request has the arguments, secrets, caches and credentials that were meant,
\* and what a deployment needs is built or there (pkg/build, pkg/registry, cmd/build/v2).
BuildsAreReusedSafely ==
  /\ EqualHashesEqualBuilds /\ IgnoredFilesDoNotCount /\ UnknownIsBuilt
  /\ CommitIsWhatIsDeployed /\ HashesHaveTheOptions /\ SectionsAreApart
  /\ AddressesMeet /\ NamesAreOfTheManifest
  /\ ImagesAreFoundAgain /\ DigestsNameTheImage /\ RequestsAreWhatWasAsked
  /\ SecretsAreThere /\ LinesNameTheImages /\ CacheMountsAreApart
  /\ ClientsReachALivePod /\ CredentialsAreFound /\ NeededImagesAreThere
  /\ CommandsAreNotRetried

\* Commands that run in the cluster run as they would on the machine: they see their
\* environment in its order, go through the proxy and are labelled, failures are
\* reported and nothing with a token is left (pkg/remote, deployable, cmd/remoterun).
RemoteRunsAreFaithful ==
  /\ ProxyIsTheOnlyWay /\ AppliedIsLabelled /\ CommandsSeeTheirEnvironment
  /\ ForcedDestroyReports /\ TemporaryFilesAreRemoved /\ DockerEnvIsWhatWasGiven
  /\ DockerfileIsRemoved /\ CachesAreOfOneTest /\ OriginalDirectoryIsFound
  /\ KnownHostsOfThePlatform /\ DestroyedWhereDeployed /\ TestsFollowTheirNeeds
  /\ CleanSparesSessions /\ SessionsReportTheCommand /\ KeysGuardTheServer
  /\ SyncthingStartsConfigured /\ RemoteEnvironmentIsWhole
=============================================================================
