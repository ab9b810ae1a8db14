----------------------------- MODULE MCCommands -----------------------------
(***************************************************************************)
(* Instances for TLC of commands that share state in the cluster or on the *)
(* machine: okteto up and okteto down (DevMode), the commands that share   *)
(* the file of contexts (Contexts), and those that divert the traffic of a *)
(* shared namespace (Divert).  A behaviour is one of one of the models;    *)
(* the others stay in their initial states.                                *)
(***************************************************************************)
EXTENDS DevMode, Contexts, Divert, TLC

VARIABLE part   \* the model that runs

allVars == <<part, vars, contextVars, divertVars>>

\* What the commands are asked for.
MCRequests ==
  [p |-> {Request("use", NoName, NoName, NoToken), Request("use", "B", "m", NoToken), Request("use", "A_k", "n", NoToken),
          Request("namespace", NoName, "m", NoToken), Request("stateless", "B", NoName, NoToken)},
   q |-> {Request("use", "A", NoName, Token("A", "given")), Request("run", "B", "n", NoToken),
          Request("stateless", "B", NoName, NoToken), Request("delete", "A", NoName, NoToken)}]

\* Bounds of Divert: the virtual service is shared by more commands, the objects of
\* the namespace are changed by more users.
MCDivertRuns == [istio |-> 2, nginx |-> 1]
MCDivertChanges == [istio |-> 1, nginx |-> 2]

\* The environments are alike.
DivertSymmetry == Permutations(Environments)

CommandsInit ==
  /\ part \in {"dev", "contexts", "divert"}
  /\ Init
  /\ part # "dev" => kind = "app"
  /\ ContextsInit
  /\ part # "contexts" => store = Missing
  /\ DivertInit
  /\ part # "divert" => driver = "istio"

CommandsNext ==
  \/ part = "dev" /\ Next /\ UNCHANGED <<part, contextVars, divertVars>>
  \/ part = "contexts" /\ ContextsNext /\ UNCHANGED <<part, vars, divertVars>>
  \/ part = "divert" /\ DivertNext /\ UNCHANGED <<part, vars, contextVars>>

CommandsSpec == CommandsInit /\ [][CommandsNext]_allVars
=============================================================================
