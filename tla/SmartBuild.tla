----------------------------- MODULE SmartBuild -----------------------------
(***************************************************************************)
(* `okteto build' of a manifest: the services to build and their order,    *)
(* the smart-build cache check in its parallel strategy (a goroutine per   *)
(* service that waits for the channels of its dependencies) and in its     *)
(* sequential one, and the loop that builds what is not cached.            *)
(*                                                                         *)
(* A hash that the registry knows, a failing clone and a failing build are *)
(* choices of the environment.  Image names and hashes are left out.       *)
(***************************************************************************)
EXTENDS Naturals, Sequences, FiniteSets, SequencesExt

CONSTANTS
  Services,    \* the services of the build section
  Strategies   \* the ways to check: "parallel", "sequential", "none"

ASSUME ServicesAssumption == IsFiniteSet(Services)
ASSUME StrategiesAssumption == Strategies \subseteq {"parallel", "sequential", "none"}

VARIABLES
  dependsOn,   \* the build section: the depends_on list of each service
  strategy,    \* none: --no-cache, or smart builds are disabled
  toBuild,     \* toBuildSvcs, in the order of the graph
  phase,       \* graph, check, build, done
  pc,          \* parallel: what the goroutine of a service does: wait, clone, closed
  seen,        \* parallel: how many dependencies it has waited for
  isCached,    \* parallel: the node's result
  failed,      \* the clone of a cached image failed
  pos,         \* the loops: how many services are behind
  processed,   \* sequential
  stack,       \* sequential: the calls of addDependentsToNotCached in progress
  cloning,     \* sequential: the clone of the service at pos + 1 is in progress
  cachedSvcs, notCachedSvcs,
  ready,       \* the services whose image is known: cloned or built
  built,       \* the services built, in order
  result       \* none, ok, or the kind of error

checkVars == <<pc, seen, isCached, failed, processed, stack, cloning>>
vars == <<dependsOn, strategy, toBuild, phase, pos, cachedSvcs, notCachedSvcs, ready,
          built, result, checkVars>>

DepSet(s) == Range(dependsOn[s])
Selected == Range(toBuild)

-----------------------------------------------------------------------------
(* The services to build *)

\* getDependentNodes: the services asked for and everything they depend on.
GetDependentNodes(asked) ==
  {s \in Services : \A T \in SUBSET Services :
     (asked \subseteq T /\ \A t \in T : DepSet(t) \subseteq T) => s \in T}

\* Tree.Ordered: dependencies before their dependents.
Ordered(svcs) ==
  {o \in SetToSeqs(svcs) : \A i, j \in 1..Len(o) : o[i] \in DepSet(o[j]) => i < j}

\* The services of S in the order of the graph: what a loop over toBuildSvcs appends.
InGraphOrder(S) ==
  {o \in SetToSeqs(S) : \A i, j \in 1..Len(o) : i < j =>
     \E k, l \in 1..Len(toBuild) : k < l /\ toBuild[k] = o[i] /\ toBuild[l] = o[j]}

Init ==
  /\ dependsOn \in [Services -> UNION {SetToSeqs(D) : D \in SUBSET Services}]
  /\ strategy \in Strategies
  /\ toBuild = <<>> /\ phase = "graph"
  /\ pc = [s \in Services |-> "wait"] /\ seen = [s \in Services |-> 0]
  /\ isCached = [s \in Services |-> FALSE] /\ failed = [s \in Services |-> FALSE]
  /\ pos = 0 /\ processed = {} /\ stack = <<>> /\ cloning = FALSE
  /\ cachedSvcs = <<>> /\ notCachedSvcs = <<>>
  /\ ready = {} /\ built = <<>> /\ result = "none"

Return(r) == phase' = "done" /\ result' = r

\* getToBuildSvcs, newBuildGraph and Subtree: the graph refuses a cycle; nothing to
\* build is a success.
BuildGraph ==
  /\ phase = "graph"
  /\ \E asked \in SUBSET Services :
       LET svcs == GetDependentNodes(asked) IN
       IF svcs = {} THEN Return("ok") /\ UNCHANGED <<toBuild, notCachedSvcs>>
       ELSE IF Ordered(svcs) = {} THEN Return("cycle") /\ UNCHANGED <<toBuild, notCachedSvcs>>
       ELSE /\ toBuild' \in Ordered(svcs)
            /\ phase' = IF strategy = "none" THEN "build" ELSE "check"
            /\ notCachedSvcs' = IF strategy = "none" THEN toBuild' ELSE <<>>
            /\ UNCHANGED result
  /\ UNCHANGED <<dependsOn, strategy, pos, cachedSvcs, ready, built, checkVars>>

-----------------------------------------------------------------------------
(* ParallelCheckStrategy.CheckServicesCache *)

Parallel(s) == phase = "check" /\ strategy = "parallel" /\ s \in Selected

Close(s, cached, err) ==
  /\ pc' = [pc EXCEPT ![s] = "closed"]
  /\ isCached' = [isCached EXCEPT ![s] = cached]
  /\ failed' = [failed EXCEPT ![s] = err]

\* Variant: the result of the last dependency decides.
WaitDependencyLast(s) ==
  /\ Parallel(s) /\ pc[s] = "wait" /\ seen[s] < Len(dependsOn[s])
  /\ LET d == dependsOn[s][seen[s] + 1] IN
     /\ pc[d] = "closed"
     /\ IF ~isCached[d] /\ seen[s] + 1 = Len(dependsOn[s])
          THEN Close(s, FALSE, FALSE) /\ UNCHANGED seen
          ELSE seen' = [seen EXCEPT ![s] = @ + 1] /\ UNCHANGED <<pc, isCached, failed>>
  /\ UNCHANGED <<dependsOn, strategy, toBuild, phase, pos, cachedSvcs, notCachedSvcs, ready,
                 built, result, processed, stack, cloning>>

\* <-n.done of the next dependency; the first that is not cached decides.
WaitDependency(s) ==
  /\ Parallel(s) /\ pc[s] = "wait" /\ seen[s] < Len(dependsOn[s])
  /\ LET d == dependsOn[s][seen[s] + 1] IN
     /\ pc[d] = "closed"
     /\ IF ~isCached[d] THEN Close(s, FALSE, FALSE) /\ UNCHANGED seen
        ELSE seen' = [seen EXCEPT ![s] = @ + 1] /\ UNCHANGED <<pc, isCached, failed>>
  /\ UNCHANGED <<dependsOn, strategy, toBuild, phase, pos, cachedSvcs, notCachedSvcs, ready,
                 built, result, processed, stack, cloning>>

\* hashWithBuildContext and IsCached: the registry knows the hash or not (a failing
\* request counts as not).
IsCached(s) ==
  /\ Parallel(s) /\ pc[s] = "wait" /\ seen[s] = Len(dependsOn[s])
  /\ \/ pc' = [pc EXCEPT ![s] = "clone"] /\ UNCHANGED <<isCached, failed>>
     \/ Close(s, FALSE, FALSE)
  /\ UNCHANGED <<dependsOn, strategy, toBuild, phase, pos, cachedSvcs, notCachedSvcs, ready,
                 built, result, seen, processed, stack, cloning>>

\* Variant: an image that cannot be cloned leaves its channel open.
CloneLeavesOpen(s) ==
  /\ Parallel(s) /\ pc[s] = "clone" /\ ~failed[s]
  /\ \/ Close(s, TRUE, FALSE) /\ ready' = ready \cup {s}
     \/ failed' = [failed EXCEPT ![s] = TRUE] /\ UNCHANGED <<pc, isCached, ready>>
  /\ UNCHANGED <<dependsOn, strategy, toBuild, phase, pos, cachedSvcs, notCachedSvcs,
                 built, result, seen, processed, stack, cloning>>

\* cloneGlobalImageToDev and SetServiceEnvVars.
CloneGlobalImageToDev(s) ==
  /\ Parallel(s) /\ pc[s] = "clone"
  /\ \/ Close(s, TRUE, FALSE) /\ ready' = ready \cup {s}
     \/ Close(s, FALSE, TRUE) /\ UNCHANGED ready
  /\ UNCHANGED <<dependsOn, strategy, toBuild, phase, pos, cachedSvcs, notCachedSvcs,
                 built, result, seen, processed, stack, cloning>>

\* Variant: the images to build are listed from the last one.
CollectReversed ==
  /\ phase = "check" /\ strategy = "parallel" /\ \A s \in Selected : pc[s] = "closed"
  /\ IF \E s \in Selected : failed[s] THEN Return("check") /\ UNCHANGED <<cachedSvcs, notCachedSvcs>>
     ELSE /\ cachedSvcs' \in InGraphOrder({s \in Selected : isCached[s]})
          /\ notCachedSvcs' \in {Reverse(o) : o \in InGraphOrder({s \in Selected : ~isCached[s]})}
          /\ phase' = "build" /\ UNCHANGED result
  /\ UNCHANGED <<dependsOn, strategy, toBuild, pos, ready, built, checkVars>>

\* After wg.Wait(): an error ends the build, otherwise both lists keep the order.
Collect ==
  /\ phase = "check" /\ strategy = "parallel" /\ \A s \in Selected : pc[s] = "closed"
  /\ IF \E s \in Selected : failed[s] THEN Return("check") /\ UNCHANGED <<cachedSvcs, notCachedSvcs>>
     ELSE /\ cachedSvcs' \in InGraphOrder({s \in Selected : isCached[s]})
          /\ notCachedSvcs' \in InGraphOrder({s \in Selected : ~isCached[s]})
          /\ phase' = "build" /\ UNCHANGED result
  /\ UNCHANGED <<dependsOn, strategy, toBuild, pos, ready, built, checkVars>>

-----------------------------------------------------------------------------
(* SequentialCheckStrategy.CheckServicesCache *)

Sequential == phase = "check" /\ strategy = "sequential"
Found == Sequential /\ \A s \in Selected : ~failed[s]

Dependents(s) == {t \in Services : s \in DepSet(t)}

\* The loop over svcsToBuild, one service: skipped, found, or not found.
SequentialCheck ==
  /\ Found /\ stack = <<>> /\ ~cloning /\ pos < Len(toBuild)
  /\ LET s == toBuild[pos + 1] IN
     \/ s \in processed /\ pos' = pos + 1
        /\ UNCHANGED <<processed, stack, cloning, cachedSvcs, notCachedSvcs>>
     \/ s \notin processed /\ processed' = processed \cup {s}
        /\ \/ /\ cloning' = TRUE /\ cachedSvcs' = Append(cachedSvcs, s)
              /\ UNCHANGED <<pos, stack, notCachedSvcs>>
           \/ /\ notCachedSvcs' = Append(notCachedSvcs, s)
              /\ stack' = <<s>> /\ pos' = pos + 1
              /\ UNCHANGED <<cachedSvcs, cloning>>
  /\ UNCHANGED <<dependsOn, strategy, toBuild, phase, ready, built, result, pc, seen,
                 isCached, failed>>

SequentialClone ==
  /\ Sequential /\ cloning
  /\ cloning' = FALSE
  /\ \/ ready' = ready \cup {toBuild[pos + 1]} /\ pos' = pos + 1 /\ UNCHANGED failed
     \/ failed' = [failed EXCEPT ![toBuild[pos + 1]] = TRUE] /\ UNCHANGED <<ready, pos>>
  /\ UNCHANGED <<dependsOn, strategy, toBuild, phase, cachedSvcs, notCachedSvcs, built, result,
                 pc, seen, isCached, processed, stack>>

\* The return after a failed clone.
SequentialFail ==
  /\ Sequential /\ \E s \in Selected : failed[s]
  /\ Return("check")
  /\ UNCHANGED <<dependsOn, strategy, toBuild, pos, cachedSvcs, notCachedSvcs, ready, built,
                 checkVars>>

\* addDependentsToNotCached: the next dependent of the innermost call, in the
\* order of a Go map, or its return.
AddDependentsToNotCached ==
  /\ Sequential /\ stack # <<>>
  /\ LET left == Dependents(Last(stack)) \ processed IN
     \/ /\ left = {} /\ stack' = Front(stack) /\ UNCHANGED <<processed, notCachedSvcs>>
     \/ \E d \in left :
          /\ processed' = processed \cup {d}
          /\ IF d \in Selected
               THEN notCachedSvcs' = Append(notCachedSvcs, d) /\ stack' = Append(stack, d)
               ELSE UNCHANGED <<notCachedSvcs, stack>>
  /\ UNCHANGED <<dependsOn, strategy, toBuild, phase, pos, cachedSvcs, ready, built, result,
                 pc, seen, isCached, failed, cloning>>

SequentialEnd ==
  /\ Found /\ stack = <<>> /\ ~cloning /\ pos = Len(toBuild)
  /\ phase' = "build" /\ pos' = 0
  /\ UNCHANGED <<dependsOn, strategy, toBuild, cachedSvcs, notCachedSvcs, ready, built, result,
                 checkVars>>

-----------------------------------------------------------------------------
(* The loop over notCachedSvcs *)

\* buildServiceImages: the image is built, pushed and found again in the registry
\* (after at most three requests), or the command ends.
BuildServiceImages ==
  /\ phase = "build" /\ pos < Len(notCachedSvcs)
  /\ LET s == notCachedSvcs[pos + 1] IN
     \/ /\ built' = Append(built, s) /\ ready' = ready \cup {s}
        /\ pos' = pos + 1 /\ UNCHANGED <<phase, result>>
     \/ Return("build") /\ UNCHANGED <<built, ready, pos>>
  /\ UNCHANGED <<dependsOn, strategy, toBuild, cachedSvcs, notCachedSvcs, checkVars>>

\* ExpandEnvVars and the end of the command.
BuildEnd ==
  /\ phase = "build" /\ pos = Len(notCachedSvcs)
  /\ Return("ok") \/ Return("expand")
  /\ UNCHANGED <<dependsOn, strategy, toBuild, pos, cachedSvcs, notCachedSvcs, ready, built,
                 checkVars>>

-----------------------------------------------------------------------------
Goroutine(s) == WaitDependency(s) \/ IsCached(s) \/ CloneGlobalImageToDev(s)
Main ==
  \/ BuildGraph \/ Collect
  \/ SequentialCheck \/ SequentialClone \/ SequentialFail \/ AddDependentsToNotCached \/ SequentialEnd
  \/ BuildServiceImages \/ BuildEnd

Next == Main \/ \E s \in Services : Goroutine(s)

Spec == Init /\ [][Next]_vars

\* Goroutines are scheduled and the registry answers.
FairSpec == Spec /\ WF_vars(Main) /\ \A s \in Services : WF_vars(Goroutine(s))

-----------------------------------------------------------------------------
(* The strategies implement CacheCheck *)

Verdict(s) ==
  IF strategy = "none" THEN "unknown"
  ELSE IF failed[s] THEN "failed"
  ELSE IF strategy = "parallel"
       THEN IF pc[s] # "closed" THEN "unknown" ELSE IF isCached[s] THEN "cached" ELSE "build"
  ELSE IF s \in Range(notCachedSvcs) THEN "build"
  ELSE IF s \in Range(cachedSvcs) /\ s \in ready THEN "cached" ELSE "unknown"

Answer ==
  IF strategy = "none" \/ toBuild = <<>> \/ phase = "check" THEN "none"
  ELSE IF result = "check" THEN "error" ELSE "plan"

CC == INSTANCE CacheCheck WITH
        deps <- [s \in Services |-> DepSet(s)], selected <- Selected,
        verdict <- [s \in Services |-> Verdict(s)], answer <- Answer

\* Both strategies, with a goroutine per service or with a loop, keep the promise
\* of the interface step by step: CheckServicesCache never reuses an image on top of
\* one that is rebuilt, and answers only with a complete plan or a real failure.
ImplementsCacheCheck == CC!Spec

-----------------------------------------------------------------------------
(* Properties *)

TypeOK ==
  /\ dependsOn \in [Services -> Seq(Services)]
  /\ strategy \in Strategies
  /\ toBuild \in Seq(Services)
  /\ phase \in {"graph", "check", "build", "done"}
  /\ pc \in [Services -> {"wait", "clone", "closed"}]
  /\ seen \in [Services -> Nat]
  /\ isCached \in [Services -> BOOLEAN] /\ failed \in [Services -> BOOLEAN]
  /\ pos \in Nat /\ (phase = "check" => pos <= Len(toBuild))
  /\ phase = "build" => pos <= Len(notCachedSvcs)
  /\ processed \subseteq Services /\ stack \in Seq(Selected) /\ cloning \in BOOLEAN
  /\ cachedSvcs \in Seq(Selected) /\ notCachedSvcs \in Seq(Selected)
  /\ ready \subseteq Selected /\ built \in Seq(Selected)
  /\ result \in {"none", "ok", "cycle", "check", "build", "expand"}

\* A service is built when the images it depends on are known: the Dockerfile that
\* starts from OKTETO_BUILD_<dep>_IMAGE finds it.  This is the order of the graph,
\* through the cache check's goroutines and its two lists.  The sequential strategy
\* lists the dependents of an image right behind it, before it has looked at their
\* other dependencies (sequential.go:133): it keeps only one of them in front.
BuiltAfterDependencies ==
  \A s \in Range(built) :
    IF strategy = "sequential" THEN DepSet(s) # {} => DepSet(s) \cap ready # {}
                               ELSE DepSet(s) \subseteq ready

\* A successful command has an image for every service, and built none of them
\* twice or on top of a cached copy.
NothingForgotten ==
  /\ result = "ok" /\ toBuild # <<>> => ready = Selected
  /\ IsInjective(built)
  /\ Range(built) \cap Range(cachedSvcs) = {}

\* The three together: what the images of a successful build are built from.
BuildsFollowTheGraph == TypeOK /\ BuiltAfterDependencies /\ NothingForgotten

\* No goroutine of the check waits for a channel that is never closed: every build
\* ends, whatever is cached and whatever fails.
BuildEnds == <>(phase = "done")

-----------------------------------------------------------------------------
(* What the refinement rests on                                               *)

CheckTypes ==
  /\ dependsOn \in [Services -> Seq(Services)] /\ toBuild \in Seq(Services)
  /\ strategy \in {"parallel", "sequential", "none"} /\ phase \in {"graph", "check", "build", "done"}
  /\ pc \in [Services -> {"wait", "clone", "closed"}] /\ seen \in [Services -> Nat]
  /\ isCached \in [Services -> BOOLEAN] /\ failed \in [Services -> BOOLEAN] /\ pos \in Nat
  /\ strategy # "parallel" => cachedSvcs \in Seq(Services) /\ notCachedSvcs \in Seq(Services)

\* The phases: nothing is decided before the graph, and only a failed check gives
\* the error of one.
PhasesInOrder ==
  /\ phase = "graph" =>
       /\ toBuild = <<>> /\ cachedSvcs = <<>> /\ notCachedSvcs = <<>> /\ stack = <<>>
       /\ pos = 0 /\ processed = {} /\ ready = {} /\ ~cloning
       /\ \A s \in Services : pc[s] = "wait" /\ ~failed[s]
  /\ phase = "check" => toBuild # <<>> /\ strategy # "none"
  /\ result # "none" => phase = "done"

\* The services to build, with what they depend on in front of them.
GraphIsOrdered ==
  /\ \A s \in Selected : DepSet(s) \subseteq Selected
  /\ \A i, j \in 1..Len(toBuild) : toBuild[i] \in DepSet(toBuild[j]) => i < j

\* parallel: a goroutine has gone past the dependencies that are cached.
GoroutinesWait ==
  strategy = "parallel" =>
    \A s \in Services :
      /\ failed[s] => pc[s] = "closed" /\ ~isCached[s]
      /\ seen[s] \in 0..Len(dependsOn[s])
      /\ \A i \in 1..seen[s] :
           pc[dependsOn[s][i]] = "closed" /\ isCached[dependsOn[s][i]] /\ ~failed[dependsOn[s][i]]
      /\ pc[s] = "clone" => seen[s] = Len(dependsOn[s])

\* sequential: what the two lists hold at the service at pos + 1.
InLists == Range(cachedSvcs) \cup Range(notCachedSvcs)

ListsAreApart ==
  /\ Range(cachedSvcs) \cap Range(notCachedSvcs) = {}
  /\ InLists = processed \cap Selected /\ ready \subseteq Range(cachedSvcs)
  /\ \A s \in Services : failed[s] => s \in Range(cachedSvcs) \ ready

\* The service that is being cloned is the only cached one that is not ready.
CloneIsLast ==
  /\ cloning => /\ stack = <<>> /\ pos < Len(toBuild)
                /\ toBuild[pos + 1] \in Range(cachedSvcs) \ ready
                /\ \A s \in Services : ~failed[s]
  /\ \A s \in Range(cachedSvcs) :
       s \in ready \/ failed[s] \/ (cloning /\ s = toBuild[pos + 1])
  /\ pos <= Len(toBuild) /\ \A i \in 1..pos : toBuild[i] \in processed

\* The dependents of what is not cached are in the list too, but for the calls in
\* progress; so what is cached stands on what is cached.
DependentsAreAdded ==
  /\ stack \in Seq(Services) /\ Range(stack) \subseteq Range(notCachedSvcs)
  /\ \A s \in Range(notCachedSvcs) \ Range(stack) : Dependents(s) \subseteq processed
  /\ \A s \in Range(cachedSvcs) : DepSet(s) \subseteq Range(cachedSvcs) \cap ready

LoopInv == phase = "check" /\ strategy = "sequential" =>
             ListsAreApart /\ CloneIsLast /\ DependentsAreAdded

RefInv == CheckTypes /\ PhasesInOrder /\ GraphIsOrdered /\ GoroutinesWait /\ LoopInv

-----------------------------------------------------------------------------
(* What the order of the builds rests on                                      *)

\* No image is in a list twice or in both.
ListsAreSets ==
  IsInjective(notCachedSvcs) /\ Range(cachedSvcs) \cap Range(notCachedSvcs) = {}

\* The services that are cached or listed before the one at i.
InFrontOf(i) == Range(cachedSvcs) \cup {notCachedSvcs[j] : j \in 1..i - 1}

\* What an image is built from is cached or listed in front of it; the sequential
\* strategy has one such image in front of it, or there is none.
ListIsOrdered ==
  \A i \in 1..Len(notCachedSvcs) :
    LET deps == DepSet(notCachedSvcs[i]) IN
    IF strategy = "sequential" THEN deps # {} => deps \cap InFrontOf(i) # {}
                               ELSE deps \subseteq InFrontOf(i)

\* parallel: the images that are known are the cached ones.
ReadyIsCached ==
  phase \in {"graph", "check"} /\ strategy = "parallel" =>
    /\ pos = 0
    /\ \A s \in Services : (s \in ready <=> isCached[s]) /\ (isCached[s] => pc[s] = "closed")

\* The images built are the first of the list; with the cached ones they are known.
BuildsInOrder ==
  /\ phase \in {"graph", "check"} => built = <<>>
  /\ Len(built) <= Len(notCachedSvcs) /\ \A i \in 1..Len(built) : built[i] = notCachedSvcs[i]
  /\ phase = "build" => pos = Len(built) /\ InLists = Selected
  /\ phase = "build" \/ built # <<>> => ready = Range(cachedSvcs) \cup Range(built)
  /\ result = "ok" /\ toBuild # <<>> => ready = Selected

BuildIInv ==
  RefInv /\ TypeOK /\ ListsAreSets /\ ListIsOrdered /\ ReadyIsCached /\ BuildsInOrder
=============================================================================
