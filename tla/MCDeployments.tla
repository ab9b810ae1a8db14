---------------------------- MODULE MCDeployments ---------------------------
(***************************************************************************)
(* Instances for TLC of the commands that deploy: the ones that wait for   *)
(* an operation of the backend (WaitCommands) and the deployment of a      *)
(* compose file (StackDeploy).  A behaviour is one of either model; the    *)
(* other stays in its initial state.                                       *)
(***************************************************************************)
EXTENDS WaitCommands, StackDeploy

VARIABLE part   \* the model that runs

None == [x \in Kinds |-> "absent"]
Old(k, owner) == [None EXCEPT ![k] = owner]

\* The compose file has a, of any kind and with any past, and b, which depends
\* on a or not; z is left over from an earlier one.
AllScenarios ==
  {[kind |-> [a |-> k, b |-> "deployment"],
    dependsOn |-> [a |-> <<>>, b |-> IF c = "none" THEN <<>> ELSE [a |-> c]],
    healthcheck |-> [a |-> h, b |-> FALSE], backOffLimit |-> 1,
    requested |-> r, inside |-> w, wait |-> w, ports |-> {"a"}, public |-> {"a"},
    gateway |-> w, endpointsType |-> e, defaultType |-> "unset",
    obj |-> [a |-> past[1], b |-> None, z |-> IF w THEN None ELSE Old("deployment", "this")],
    svc |-> [a |-> past[2], b |-> "absent", z |-> "unlabelled"],
    ends |-> [ingress |-> {"a", "z"}, httproute |-> {}]] :
     k \in Kinds, c \in {"none", "running", "healthy", "completed"}, h \in BOOLEAN,
     r \in {{"a", "b"}, {"b"}}, w \in BOOLEAN, e \in {"unset", "gateway"},
     past \in {<<None, "absent">>, <<Old("deployment", "this"), "this">>,
               <<Old("statefulset", "this"), "unlabelled">>, <<Old("job", "this"), "this">>}
              \cup {<<Old(x, "other"), "other">> : x \in Kinds}
              \cup {<<Old(x, "okteto"), "this">> : x \in Kinds}}

\* Of these, the ones in which each feature meets the others it interacts with.
Selected ==
  {x \in AllScenarios :
     /\ x.dependsOn["b"] = [a |-> "completed"] => x.kind["a"] = "job"
     /\ x.healthcheck["a"] => x.dependsOn["b"] = [a |-> "healthy"]
     /\ x.endpointsType = "gateway" => x.obj["a"] = None
     /\ x.requested = {"b"} <=> x.dependsOn["b"] = [a |-> "running"] \/ (x.wait /\ x.dependsOn["b"] = <<>>)
     /\ x.wait => x.dependsOn["b"] # [a |-> "healthy"]
     /\ \A j \in Kinds : x.obj["a"][j] = "okteto" => x.dependsOn["b"] = <<>>
     /\ \A j \in Kinds : x.obj["a"][j] \in {"other", "okteto"} => j = x.kind["a"]}

allVars == <<part, waitVars, stackVars>>

DeploymentsInit ==
  /\ part \in {"wait", "compose"}
  /\ WaitInit /\ StackInit
  /\ part = "wait" => scen = CHOOSE x \in Selected : TRUE
  /\ part = "compose" => command = "destroyAll"

DeploymentsNext ==
  \/ part = "wait" /\ WaitNext /\ UNCHANGED <<part, stackVars>>
  \/ part = "compose" /\ StackNext /\ UNCHANGED <<part, waitVars>>

\* The fairness of both models.
DeploymentsSpec ==
  /\ DeploymentsInit /\ [][DeploymentsNext]_allVars
  /\ WF_waitVars(part = "wait" /\ (SkipIfExists \/ Request \/ RequestDestroy))
  /\ WF_waitVars(part = "wait" /\ WaitForStatus) /\ WF_waitVars(part = "wait" /\ Operation)
  /\ SF_waitVars(part = "wait" /\ Waiter /\ waiter' # "poll")
  /\ WF_waitVars(part = "wait" /\ WaiterSend) /\ WF_waitVars(part = "wait" /\ Logs)
  /\ WF_waitVars(part = "wait" /\ Select) /\ WF_waitVars(part = "wait" /\ Join)
  /\ WF_waitVars(part = "wait" /\ ProcessExit)
  /\ WF_stackVars(part = "compose" /\ Main)
  /\ WF_stackVars(part = "compose" /\ Deploy)
  /\ \A s \in {"a", "b"} : WF_stackVars(part = "compose" /\ Loop(s))

\* Every command that waits for the backend ends, and only an unready dependency
\* keeps the deployment of a compose going (see CommandEnds in WaitCommands and
\* EndsOrWaits in StackDeploy).
DeploymentsEnd == (part = "wait" => CommandEnds) /\ (part = "compose" => EndsOrWaits)
=============================================================================
