------------------------------ MODULE MCBuild -------------------------------
(***************************************************************************)
(* Instances for TLC of the two models of a build: which images are built, *)
(* in which order (SmartBuild), and one request to BuildKit (SolveBuild).  *)
(* They share nothing; a behaviour is one of SmartBuild or one of          *)
(* SolveBuild, and the other stays in its initial state.                   *)
(***************************************************************************)
EXTENDS SmartBuild, SolveBuild

VARIABLE part   \* the model that runs

allVars == <<part, vars, solveVars>>

BuildInit ==
  /\ part \in {"images", "solve"}
  /\ Init /\ SolveInit
  /\ part = "images" => progress = "plain"
  /\ part = "solve" => strategy = "none" /\ dependsOn = [s \in Services |-> <<>>]

BuildNext ==
  \/ part = "images" /\ Next /\ UNCHANGED <<part, solveVars>>
  \/ part = "solve" /\ SolveNext /\ UNCHANGED <<part, vars>>

BuildSpec == BuildInit /\ [][BuildNext]_allVars

FairBuildSpec ==
  /\ BuildSpec
  /\ WF_vars(part = "images" /\ Main)
  /\ \A s \in Services : WF_vars(part = "images" /\ Goroutine(s))
  /\ WF_solveVars(part = "solve" /\ SolveEnds)
  /\ WF_solveVars(part = "solve" /\ Dispatch)
  /\ WF_solveVars(part = "solve" /\ Display)
  /\ WF_solveVars(part = "solve" /\ Writer)
  /\ WF_solveVars(part = "solve" /\ Wait)

\* No goroutine of a build waits for a channel for ever, and a request that ends
\* well ends the build (see BuildEnds in SmartBuild and SolveReturns in SolveBuild).
BuildsEnd == (part = "images" => BuildEnds) /\ SolveReturns
=============================================================================
