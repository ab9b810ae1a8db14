----------------------------- MODULE CacheCheck -----------------------------
(***************************************************************************)
(* What the smart-build cache check promises to `okteto build', whatever   *)
(* strategy implements the CheckStrategy interface: every service to build *)
(* gets one verdict, a service is taken from the cache only if everything  *)
(* it depends on is, and the check answers with an error or with a plan    *)
(* for all the services.                                                   *)
(***************************************************************************)
CONSTANT Services

VARIABLES
  deps,      \* the services each service depends on, directly
  selected,  \* the services to build, with their dependencies
  verdict,   \* per service: unknown, cached, build or failed
  answer     \* none, plan or error

vars == <<deps, selected, verdict, answer>>

Init ==
  /\ deps \in [Services -> SUBSET Services]
  /\ selected = {}
  /\ verdict = [s \in Services |-> "unknown"]
  /\ answer = "none"

\* The services of one check: with every service, what it depends on.
Ask(svcs) ==
  /\ answer = "none" /\ selected = {} /\ svcs # {}
  /\ \A s \in svcs : deps[s] \subseteq svcs
  /\ selected' = svcs
  /\ UNCHANGED <<deps, verdict, answer>>

\* The verdict of a service: to build once a dependency is to be built (or could
\* not be cloned), free once all of its dependencies come from the cache.
Decide(s, v) ==
  /\ answer = "none" /\ s \in selected /\ verdict[s] = "unknown"
  /\ \/ v = "build" /\ \E d \in deps[s] : verdict[d] \in {"build", "failed"}
     \/ v \in {"cached", "build", "failed"} /\ \A d \in deps[s] : verdict[d] = "cached"
  /\ verdict' = [verdict EXCEPT ![s] = v]
  /\ UNCHANGED <<deps, selected, answer>>

\* A plan has a verdict for every service and no failure; an error has a reason.
Report(a) ==
  /\ answer = "none" /\ selected # {}
  /\ \/ a = "error" /\ \E s \in selected : verdict[s] = "failed"
     \/ a = "plan" /\ \A s \in selected : verdict[s] \in {"cached", "build"}
  /\ answer' = a
  /\ UNCHANGED <<deps, selected, verdict>>

Next ==
  \/ \E svcs \in SUBSET Services : Ask(svcs)
  \/ \E s \in Services, v \in {"cached", "build", "failed"} : Decide(s, v)
  \/ \E a \in {"plan", "error"} : Report(a)

Spec == Init /\ [][Next]_vars

-----------------------------------------------------------------------------
TypeOK ==
  /\ deps \in [Services -> SUBSET Services]
  /\ selected \in SUBSET Services
  /\ \A s \in selected : deps[s] \subseteq selected
  /\ verdict \in [Services -> {"unknown", "cached", "build", "failed"}]
  /\ answer \in {"none", "plan", "error"}

\* An image is never reused on top of a dependency that is to be rebuilt.
CachedIsClosed ==
  \A s \in selected : verdict[s] = "cached" =>
    \A d \in deps[s] : verdict[d] = "cached"

\* A plan is complete and nothing in it failed.
PlanIsComplete == answer = "plan" => \A s \in selected : verdict[s] \in {"cached", "build"}

-----------------------------------------------------------------------------
(* A verdict is given once, and only after those of the dependencies that it  *)
(* needs: what is cached cannot lose the ground it stands on.                 *)

OnlySelectedDecided == \A s \in Services \ selected : verdict[s] = "unknown"

CheckInv == TypeOK /\ OnlySelectedDecided /\ CachedIsClosed /\ PlanIsComplete
=============================================================================
