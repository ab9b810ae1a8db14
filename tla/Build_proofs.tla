---------------------------- MODULE Build_proofs ----------------------------
(***************************************************************************)
(* One BuildKit request with any number of statuses, the cache check and   *)
(* the order of the builds of any number of services with any graph, and   *)
(* the hashes of any files.                                                *)
(*                                                                         *)
(* SolveBuild: an error reaches the user because of what each display and  *)
(* goroutine still has to report (DisplayReports, SolveIsOver).            *)
(* SmartBuild: the refinement needs the invariant RefInv.  With a          *)
(* goroutine per service a verdict is given once the channels of the       *)
(* dependencies are closed (GoroutinesWait); the loop of the sequential    *)
(* check relies on the order of the graph (GraphIsOrdered) and on the      *)
(* calls that are still open when it goes on (DependentsAreAdded).  A step *)
(* then decides one service, reports, or stutters.                         *)
(*                                                                         *)
(* The order of the builds needs BuildIInv: the list of what is to be      *)
(* built has no service twice and what a service is built from is cached   *)
(* or in front of it (ListIsOrdered); the images built are the first of    *)
(* the list, and with the cached ones they are all that is known.          *)
(*                                                                         *)
(* RepoHash: a hash of which no part is random was told all in time by a   *)
(* git that works (HashIsTold), and its parts are what a build sees.       *)
(***************************************************************************)
EXTENDS SmartBuild, SolveBuild, FiniteSetTheorems, TLAPS

H == INSTANCE RepoHash

\* A new request satisfies the invariant.
LEMMA SolveStart == SolveInit => SolveIInv
<1> SUFFICES ASSUME SolveInit PROVE SolveIInv
  OBVIOUS
<1>1. SolveFlags
  BY DEF SolveInit, SolveFlags
<1>2. SolveFields
  BY StatusesAssumption DEF SolveInit, SolveFields, Kinds, StatusesAssumption
<1>3. (chClosed <=> solve # "running") /\ SuccessIsReal /\ CommandErrorWins
  BY DEF SolveInit, SuccessIsReal, CommandErrorWins
<1>4. DisplayReports /\ SolveIsOver
  BY DEF SolveInit, DisplayReports, SolveIsOver
<1> QED
  BY <1>1, <1>2, <1>3, <1>4 DEF SolveIInv, SolveTellsTheTruth, SolveTypeOK

\* Every step of the request and of the goroutines around it preserves it.
LEMMA SolveStep == SolveIInv /\ [SolveNext]_solveVars => SolveIInv'
<1> SUFFICES ASSUME SolveIInv, [SolveNext]_solveVars PROVE SolveIInv'
  OBVIOUS
<1>b. SolveFlags
  BY DEF SolveIInv, SolveTellsTheTruth, SolveTypeOK
<1>f. SolveFields
  BY DEF SolveIInv, SolveTellsTheTruth, SolveTypeOK
<1>c. (chClosed <=> solve # "running")
  BY DEF SolveIInv, SolveTellsTheTruth, SolveTypeOK
<1>s. SuccessIsReal
  BY DEF SolveIInv, SolveTellsTheTruth, SolveTypeOK
<1>w. CommandErrorWins
  BY DEF SolveIInv, SolveTellsTheTruth, SolveTypeOK
<1>d. DisplayReports
  BY DEF SolveIInv, SolveTellsTheTruth, SolveTypeOK
<1>o. SolveIsOver
  BY DEF SolveIInv, SolveTellsTheTruth, SolveTypeOK
<1>1. CASE Status
  <2>1. SolveFlags'
    BY <1>b, <1>1 DEF SolveFlags, Status
  <2>2. SolveFields'
    BY <1>f, <1>1, StatusesAssumption DEF SolveFields, Status, StatusesAssumption
  <2>3. (chClosed <=> solve # "running")'
    BY <1>c, <1>1 DEF Status
  <2>4. SuccessIsReal'
    BY <1>s, <1>o, <1>d, <1>1 DEF SuccessIsReal, SolveIsOver, DisplayReports, Status
  <2>5. CommandErrorWins'
    BY <1>w, <1>d, <1>o, <1>1 DEF CommandErrorWins, DisplayReports, SolveIsOver, Status
  <2>6. DisplayReports'
    BY <1>d, <1>f, <1>1 DEF DisplayReports, SolveFields, Status
  <2>7. SolveIsOver'
    BY <1>o, <1>f, <1>1 DEF SolveIsOver, SolveFields, Status
  <2> QED
    BY <2>1, <2>2, <2>3, <2>4, <2>5, <2>6, <2>7 DEF SolveIInv, SolveTellsTheTruth,
       SolveTypeOK
<1>2. CASE SolveEnds
  <2>1. SolveFlags'
    BY <1>b, <1>2 DEF SolveFlags, SolveEnds
  <2>2. SolveFields'
    BY <1>f, <1>2 DEF SolveFields, SolveEnds
  <2>3. (chClosed <=> solve # "running")'
    BY <1>c, <1>2 DEF SolveEnds
  <2>4. SuccessIsReal'
    BY <1>s, <1>o, <1>d, <1>2 DEF SuccessIsReal, SolveIsOver, DisplayReports, SolveEnds
  <2>5. CommandErrorWins'
    BY <1>w, <1>d, <1>o, <1>2 DEF CommandErrorWins, DisplayReports, SolveIsOver, SolveEnds
  <2>6. DisplayReports'
    BY <1>d, <1>f, <1>2 DEF DisplayReports, SolveFields, SolveEnds
  <2>7. SolveIsOver'
    BY <1>o, <1>f, <1>2 DEF SolveIsOver, SolveFields, SolveEnds
  <2> QED
    BY <2>1, <2>2, <2>3, <2>4, <2>5, <2>6, <2>7 DEF SolveIInv, SolveTellsTheTruth,
       SolveTypeOK
<1>3. CASE Interrupt
  <2>1. SolveFlags'
    BY <1>b, <1>3 DEF SolveFlags, Interrupt
  <2>2. SolveFields'
    BY <1>f, <1>3 DEF SolveFields, Interrupt
  <2>3. (chClosed <=> solve # "running")'
    BY <1>c, <1>3 DEF Interrupt
  <2>4. SuccessIsReal'
    BY <1>s, <1>o, <1>d, <1>3 DEF SuccessIsReal, SolveIsOver, DisplayReports, Interrupt
  <2>5. CommandErrorWins'
    BY <1>w, <1>d, <1>o, <1>3 DEF CommandErrorWins, DisplayReports, SolveIsOver, Interrupt
  <2>6. DisplayReports'
    BY <1>d, <1>f, <1>3 DEF DisplayReports, SolveFields, Interrupt
  <2>7. SolveIsOver'
    BY <1>o, <1>f, <1>3 DEF SolveIsOver, SolveFields, Interrupt
  <2> QED
    BY <2>1, <2>2, <2>3, <2>4, <2>5, <2>6, <2>7 DEF SolveIInv, SolveTellsTheTruth,
       SolveTypeOK
<1>4. CASE DispatchPlain
  <2>1. SolveFlags'
    BY <1>b, <1>4 DEF SolveFlags, DispatchPlain
  <2>2. SolveFields'
    BY <1>f, <1>4 DEF SolveFields, DispatchPlain
  <2>3. (chClosed <=> solve # "running")'
    BY <1>c, <1>4 DEF DispatchPlain
  <2>4. SuccessIsReal'
    BY <1>s, <1>o, <1>d, <1>4 DEF SuccessIsReal, SolveIsOver, DisplayReports, DispatchPlain
  <2>5. CommandErrorWins'
    BY <1>w, <1>d, <1>o, <1>4 DEF CommandErrorWins, DisplayReports, SolveIsOver,
       DispatchPlain
  <2>6. DisplayReports'
    BY <1>d, <1>f, <1>4 DEF DisplayReports, SolveFields, DispatchPlain
  <2>7. SolveIsOver'
    BY <1>o, <1>f, <1>4 DEF SolveIsOver, SolveFields, DispatchPlain
  <2> QED
    BY <2>1, <2>2, <2>3, <2>4, <2>5, <2>6, <2>7 DEF SolveIInv, SolveTellsTheTruth,
       SolveTypeOK
<1>5. CASE DispatchTty
  <2>1. SolveFlags'
    BY <1>b, <1>5 DEF SolveFlags, DispatchTty
  <2>2. SolveFields'
    BY <1>f, <1>5 DEF SolveFields, DispatchTty
  <2>3. (chClosed <=> solve # "running")'
    BY <1>c, <1>5 DEF DispatchTty
  <2>4. SuccessIsReal'
    BY <1>s, <1>o, <1>d, <1>5 DEF SuccessIsReal, SolveIsOver, DisplayReports, DispatchTty
  <2>5. CommandErrorWins'
    BY <1>w, <1>d, <1>o, <1>5 DEF CommandErrorWins, DisplayReports, SolveIsOver, DispatchTty
  <2>6. DisplayReports'
    BY <1>d, <1>f, <1>5 DEF DisplayReports, SolveFields, DispatchTty
  <2>7. SolveIsOver'
    BY <1>o, <1>f, <1>5 DEF SolveIsOver, SolveFields, DispatchTty
  <2> QED
    BY <2>1, <2>2, <2>3, <2>4, <2>5, <2>6, <2>7 DEF SolveIInv, SolveTellsTheTruth,
       SolveTypeOK
<1>6. CASE DispatchError
  <2>1. SolveFlags'
    BY <1>b, <1>6 DEF SolveFlags, DispatchError
  <2>2. SolveFields'
    BY <1>f, <1>6, <1>o, StatusesAssumption DEF SolveFields, DispatchError, SolveIsOver,
       StatusesAssumption
  <2>3. (chClosed <=> solve # "running")'
    BY <1>c, <1>6 DEF DispatchError
  <2>4. SuccessIsReal'
    BY <1>s, <1>o, <1>d, <1>6 DEF SuccessIsReal, SolveIsOver, DisplayReports, DispatchError
  <2>5. CommandErrorWins'
    BY <1>w, <1>d, <1>o, <1>6 DEF CommandErrorWins, DisplayReports, SolveIsOver,
       DispatchError
  <2>6. DisplayReports'
    BY <1>d, <1>f, <1>6 DEF DisplayReports, SolveFields, DispatchError
  <2>7. SolveIsOver'
    BY <1>o, <1>f, <1>6 DEF SolveIsOver, SolveFields, DispatchError
  <2> QED
    BY <2>1, <2>2, <2>3, <2>4, <2>5, <2>6, <2>7 DEF SolveIInv, SolveTellsTheTruth,
       SolveTypeOK
<1>7. CASE DispatchClosed
  <2>1. SolveFlags'
    BY <1>b, <1>7 DEF SolveFlags, DispatchClosed
  <2>2. SolveFields'
    BY <1>f, <1>7 DEF SolveFields, DispatchClosed
  <2>3. (chClosed <=> solve # "running")'
    BY <1>c, <1>7 DEF DispatchClosed
  <2>4. SuccessIsReal'
    BY <1>s, <1>o, <1>d, <1>7 DEF SuccessIsReal, SolveIsOver, DisplayReports, DispatchClosed
  <2>5. CommandErrorWins'
    BY <1>w, <1>d, <1>o, <1>7 DEF CommandErrorWins, DisplayReports, SolveIsOver,
       DispatchClosed
  <2>6. DisplayReports'
    BY <1>d, <1>f, <1>7 DEF DisplayReports, SolveFields, DispatchClosed
  <2>7. SolveIsOver'
    BY <1>o, <1>f, <1>7 DEF SolveIsOver, SolveFields, DispatchClosed
  <2> QED
    BY <2>1, <2>2, <2>3, <2>4, <2>5, <2>6, <2>7 DEF SolveIInv, SolveTellsTheTruth,
       SolveTypeOK
<1>8. CASE DispatchCancelled
  <2>1. SolveFlags'
    BY <1>b, <1>8 DEF SolveFlags, DispatchCancelled
  <2>2. SolveFields'
    BY <1>f, <1>8 DEF SolveFields, DispatchCancelled
  <2>3. (chClosed <=> solve # "running")'
    BY <1>c, <1>8 DEF DispatchCancelled
  <2>4. SuccessIsReal'
    BY <1>s, <1>o, <1>d, <1>8 DEF SuccessIsReal, SolveIsOver, DisplayReports,
       DispatchCancelled
  <2>5. CommandErrorWins'
    BY <1>w, <1>d, <1>o, <1>8 DEF CommandErrorWins, DisplayReports, SolveIsOver,
       DispatchCancelled
  <2>6. DisplayReports'
    BY <1>d, <1>f, <1>8 DEF DisplayReports, SolveFields, DispatchCancelled
  <2>7. SolveIsOver'
    BY <1>o, <1>f, <1>8 DEF SolveIsOver, SolveFields, DispatchCancelled
  <2> QED
    BY <2>1, <2>2, <2>3, <2>4, <2>5, <2>6, <2>7 DEF SolveIInv, SolveTellsTheTruth,
       SolveTypeOK
<1>9. CASE DisplayStart
  <2>1. SolveFlags'
    BY <1>b, <1>9 DEF SolveFlags, DisplayStart
  <2>2. SolveFields'
    BY <1>f, <1>9 DEF SolveFields, DisplayStart
  <2>3. (chClosed <=> solve # "running")'
    BY <1>c, <1>9 DEF DisplayStart
  <2>4. SuccessIsReal'
    BY <1>s, <1>o, <1>d, <1>9 DEF SuccessIsReal, SolveIsOver, DisplayReports, DisplayStart
  <2>5. CommandErrorWins'
    BY <1>w, <1>d, <1>o, <1>9 DEF CommandErrorWins, DisplayReports, SolveIsOver,
       DisplayStart
  <2>6. DisplayReports'
    BY <1>d, <1>f, <1>9 DEF DisplayReports, SolveFields, DisplayStart
  <2>7. SolveIsOver'
    BY <1>o, <1>f, <1>9 DEF SolveIsOver, SolveFields, DisplayStart
  <2> QED
    BY <2>1, <2>2, <2>3, <2>4, <2>5, <2>6, <2>7 DEF SolveIInv, SolveTellsTheTruth,
       SolveTypeOK
<1>10. CASE DisplayEnds
  <2>1. SolveFlags'
    BY <1>b, <1>10 DEF SolveFlags, DisplayEnds
  <2>2. SolveFields'
    BY <1>f, <1>10 DEF SolveFields, DisplayEnds
  <2>3. (chClosed <=> solve # "running")'
    BY <1>c, <1>10 DEF DisplayEnds
  <2>4. SuccessIsReal'
    BY <1>s, <1>o, <1>d, <1>10 DEF SuccessIsReal, SolveIsOver, DisplayReports, DisplayEnds
  <2>5. CommandErrorWins'
    BY <1>w, <1>d, <1>o, <1>10 DEF CommandErrorWins, DisplayReports, SolveIsOver,
       DisplayEnds
  <2>6. DisplayReports'
    BY <1>d, <1>f, <1>10 DEF DisplayReports, SolveFields, DisplayEnds
  <2>7. SolveIsOver'
    BY <1>o, <1>f, <1>10 DEF SolveIsOver, SolveFields, DisplayEnds
  <2> QED
    BY <2>1, <2>2, <2>3, <2>4, <2>5, <2>6, <2>7 DEF SolveIInv, SolveTellsTheTruth,
       SolveTypeOK
<1>11. CASE DisplaySends
  <2>1. SolveFlags'
    BY <1>b, <1>11 DEF SolveFlags, DisplaySends
  <2>2. SolveFields'
    BY <1>f, <1>11 DEF SolveFields, DisplaySends
  <2>3. (chClosed <=> solve # "running")'
    BY <1>c, <1>11 DEF DisplaySends
  <2>4. SuccessIsReal'
    BY <1>s, <1>o, <1>d, <1>11 DEF SuccessIsReal, SolveIsOver, DisplayReports, DisplaySends
  <2>5. CommandErrorWins'
    BY <1>w, <1>d, <1>o, <1>11 DEF CommandErrorWins, DisplayReports, SolveIsOver,
       DisplaySends
  <2>6. DisplayReports'
    BY <1>d, <1>f, <1>11 DEF DisplayReports, SolveFields, DisplaySends
  <2>7. SolveIsOver'
    BY <1>o, <1>f, <1>11 DEF SolveIsOver, SolveFields, DisplaySends
  <2> QED
    BY <2>1, <2>2, <2>3, <2>4, <2>5, <2>6, <2>7 DEF SolveIInv, SolveTellsTheTruth,
       SolveTypeOK
<1>12. CASE WriterStart
  <2>1. SolveFlags'
    BY <1>b, <1>12 DEF SolveFlags, WriterStart
  <2>2. SolveFields'
    BY <1>f, <1>12 DEF SolveFields, WriterStart
  <2>3. (chClosed <=> solve # "running")'
    BY <1>c, <1>12 DEF WriterStart
  <2>4. SuccessIsReal'
    BY <1>s, <1>o, <1>d, <1>12 DEF SuccessIsReal, SolveIsOver, DisplayReports, WriterStart
  <2>5. CommandErrorWins'
    BY <1>w, <1>d, <1>o, <1>12 DEF CommandErrorWins, DisplayReports, SolveIsOver,
       WriterStart
  <2>6. DisplayReports'
    BY <1>d, <1>f, <1>12 DEF DisplayReports, SolveFields, WriterStart
  <2>7. SolveIsOver'
    BY <1>o, <1>f, <1>12 DEF SolveIsOver, SolveFields, WriterStart
  <2> QED
    BY <2>1, <2>2, <2>3, <2>4, <2>5, <2>6, <2>7 DEF SolveIInv, SolveTellsTheTruth,
       SolveTypeOK
<1>13. CASE WriterEnds
  <2>1. SolveFlags'
    BY <1>b, <1>13 DEF SolveFlags, WriterEnds
  <2>2. SolveFields'
    BY <1>f, <1>13 DEF SolveFields, WriterEnds
  <2>3. (chClosed <=> solve # "running")'
    BY <1>c, <1>13 DEF WriterEnds
  <2>4. SuccessIsReal'
    BY <1>s, <1>o, <1>d, <1>13 DEF SuccessIsReal, SolveIsOver, DisplayReports, WriterEnds
  <2>5. CommandErrorWins'
    BY <1>w, <1>d, <1>o, <1>13 DEF CommandErrorWins, DisplayReports, SolveIsOver, WriterEnds
  <2>6. DisplayReports'
    BY <1>d, <1>f, <1>13 DEF DisplayReports, SolveFields, WriterEnds
  <2>7. SolveIsOver'
    BY <1>o, <1>f, <1>13 DEF SolveIsOver, SolveFields, WriterEnds
  <2> QED
    BY <2>1, <2>2, <2>3, <2>4, <2>5, <2>6, <2>7 DEF SolveIInv, SolveTellsTheTruth,
       SolveTypeOK
<1>14. CASE Wait
  <2>1. SolveFlags'
    BY <1>b, <1>14 DEF SolveFlags, Wait
  <2>2. SolveFields'
    BY <1>f, <1>14 DEF SolveFields, Wait
  <2>3. (chClosed <=> solve # "running")'
    BY <1>c, <1>14 DEF Wait
  <2>4. SuccessIsReal'
    BY <1>s, <1>o, <1>d, <1>14 DEF SuccessIsReal, SolveIsOver, DisplayReports, Wait
  <2>5. CommandErrorWins'
    BY <1>w, <1>d, <1>o, <1>14 DEF CommandErrorWins, DisplayReports, SolveIsOver, Wait
  <2>6. DisplayReports'
    BY <1>d, <1>f, <1>14 DEF DisplayReports, SolveFields, Wait
  <2>7. SolveIsOver'
    BY <1>o, <1>f, <1>14 DEF SolveIsOver, SolveFields, Wait
  <2> QED
    BY <2>1, <2>2, <2>3, <2>4, <2>5, <2>6, <2>7 DEF SolveIInv, SolveTellsTheTruth,
       SolveTypeOK
<1>15. CASE UNCHANGED solveVars
  <2>1. SolveFlags'
    BY <1>b, <1>15 DEF SolveFlags, solveVars
  <2>2. SolveFields'
    BY <1>f, <1>15 DEF SolveFields, solveVars
  <2>3. (chClosed <=> solve # "running")'
    BY <1>c, <1>15 DEF solveVars
  <2>4. SuccessIsReal'
    BY <1>s, <1>15 DEF SuccessIsReal, solveVars
  <2>5. CommandErrorWins'
    BY <1>w, <1>15 DEF CommandErrorWins, solveVars
  <2>6. DisplayReports'
    BY <1>d, <1>15 DEF DisplayReports, solveVars
  <2>7. SolveIsOver'
    BY <1>o, <1>15 DEF SolveIsOver, solveVars
  <2> QED
    BY <2>1, <2>2, <2>3, <2>4, <2>5, <2>6, <2>7 DEF SolveIInv, SolveTellsTheTruth,
       SolveTypeOK
<1> QED
  BY <1>1, <1>2, <1>3, <1>4, <1>5, <1>6, <1>7, <1>8, <1>9, <1>10, <1>11, <1>12, <1>13,
     <1>14, <1>15 DEF SolveNext, Dispatch, Display, Writer

\* No error of BuildKit or of the remote command is lost between the goroutines of
\* SolveBuild, for any number of statuses and whoever ends first.
THEOREM SolveIsTruthful == SolveSpec => []SolveTellsTheTruth
<1>1. SolveIInv => SolveTellsTheTruth
  BY DEF SolveIInv
<1> QED
  BY SolveStart, SolveStep, <1>1, PTL DEF SolveSpec

-----------------------------------------------------------------------------
(* Sequences and the graph                                                    *)

\* SetToSeqs: each order of a finite set lists all of it.
LEMMA Permutation ==
  ASSUME NEW S \in SUBSET Services, NEW o \in SetToSeqs(S)
  PROVE  o \in Seq(Services) /\ Range(o) = S
<1>1. /\ o \in [1..Cardinality(S) -> S]
      /\ \A i, j \in 1..Cardinality(S) : i # j => o[i] # o[j]
  BY DEF SetToSeqs
<1>2. IsFiniteSet(S) /\ Cardinality(S) \in Nat
  BY ServicesAssumption, FS_Subset, FS_CardinalityType DEF ServicesAssumption
<1>3. o \in Injection(1..Cardinality(S), S)
  BY <1>1 DEF Injection, IsInjective
<1>4. Cardinality(1..Cardinality(S)) = Cardinality(S)
  BY <1>2, FS_Interval
<1>5. o \in Surjection(1..Cardinality(S), S)
  BY <1>2, <1>3, <1>4, FS_Injection
<1>6. Range(o) = S
  BY <1>1, <1>5 DEF Range, Surjection
<1> QED
  BY <1>1, <1>2, <1>6

\* What Append adds to a list.
LEMMA AppendAdds ==
  ASSUME NEW q \in Seq(Services), NEW x \in Services
  PROVE  Append(q, x) \in Seq(Services) /\ Range(Append(q, x)) = Range(q) \cup {x}
<1>1. /\ Append(q, x) \in Seq(Services) /\ Len(Append(q, x)) = Len(q) + 1
      /\ \A i \in 1..Len(q) : Append(q, x)[i] = q[i]
      /\ Append(q, x)[Len(q) + 1] = x
  OBVIOUS
<1>2. DOMAIN Append(q, x) = 1..Len(q) + 1 /\ DOMAIN q = 1..Len(q) /\ Len(q) \in Nat
  BY <1>1
<1> QED
  BY <1>1, <1>2 DEF Range

\* What Front leaves of the calls in progress.
LEMMA FrontLeaves ==
  ASSUME NEW q \in Seq(Services), q # <<>>
  PROVE  /\ Front(q) \in Seq(Services) /\ Last(q) \in Range(q)
         /\ Range(q) = Range(Front(q)) \cup {Last(q)}
<1>1. Len(q) \in Nat /\ Len(q) # 0 /\ DOMAIN q = 1..Len(q)
  OBVIOUS
<1>2. /\ Front(q) \in Seq(Services) /\ Len(Front(q)) = Len(q) - 1
      /\ \A i \in 1..Len(q) - 1 : Front(q)[i] = q[i]
  BY <1>1 DEF Front
<1>3. DOMAIN Front(q) = 1..Len(q) - 1
  BY <1>1, <1>2
<1> QED
  BY <1>1, <1>2, <1>3 DEF Range, Last

\* getDependentNodes: with a service it has what the service depends on.
LEMMA NodesAreClosed ==
  ASSUME NEW asked, NEW s \in GetDependentNodes(asked), DepSet(s) \subseteq Services
  PROVE  DepSet(s) \subseteq GetDependentNodes(asked)
  BY DEF GetDependentNodes

\* What a service depends on are services.
LEMMA DepsAreServices ==
  ASSUME CheckTypes, NEW s \in Services
  PROVE  DepSet(s) \subseteq Services
  BY DEF CheckTypes, DepSet, Range


\* An untouched graph stays ordered.
LEMMA GraphStays ==
  ASSUME GraphIsOrdered, dependsOn' = dependsOn, toBuild' = toBuild
  PROVE  GraphIsOrdered'
<1>1. Selected' = Selected /\ \A x : DepSet(x)' = DepSet(x)
  BY DEF Selected, DepSet
<1> QED
  BY <1>1 DEF GraphIsOrdered

\* The graph that BuildGraph hands over: closed, ordered, and not empty.
LEMMA GraphIsBuilt ==
  ASSUME CheckTypes, GraphIsOrdered, PhasesInOrder, BuildGraph
  PROVE  /\ toBuild' \in Seq(Services) /\ GraphIsOrdered'
         /\ phase' # "done" => toBuild' # <<>> /\ Selected' # {}
<1>1. dependsOn' = dependsOn
  BY DEF BuildGraph
<1>2. CASE toBuild' = toBuild /\ phase' = "done"
  BY <1>1, <1>2, GraphStays DEF CheckTypes
<1>3. CASE \E asked \in SUBSET Services :
             GetDependentNodes(asked) # {} /\ toBuild' \in Ordered(GetDependentNodes(asked))
  <2>1. PICK asked \in SUBSET Services :
          GetDependentNodes(asked) # {} /\ toBuild' \in Ordered(GetDependentNodes(asked))
    BY <1>3
  <2> DEFINE svcs == GetDependentNodes(asked)
  <2>2. svcs \in SUBSET Services
    BY DEF GetDependentNodes
  <2>3. toBuild' \in SetToSeqs(svcs)
    BY <2>1 DEF Ordered
  <2>4. toBuild' \in Seq(Services) /\ Range(toBuild') = svcs
    BY <2>2, <2>3, Permutation
  <2>5. \A i, j \in 1..Len(toBuild') : toBuild'[i] \in DepSet(toBuild'[j]) => i < j
    BY <2>1 DEF Ordered
  <2>6. \A s \in svcs : DepSet(s) \subseteq svcs
    BY <2>2, NodesAreClosed, DepsAreServices
  <2>7. \A x : DepSet(x)' = DepSet(x)
    BY <1>1 DEF DepSet
  <2>8. Selected' = svcs
    BY <2>4 DEF Selected
  <2>9. GraphIsOrdered'
    BY <2>5, <2>6, <2>7, <2>8 DEF GraphIsOrdered
  <2>10. toBuild' # <<>>
    BY <2>1, <2>4 DEF Range
  <2> QED
    BY <2>1, <2>4, <2>8, <2>9, <2>10
<1> QED
  BY <1>2, <1>3 DEF BuildGraph, Return

\* The loop of the sequential check over a service that it has not seen: everything
\* the service depends on is cached and cloned.
LEMMA DepsAreCached ==
  ASSUME CheckTypes, GraphIsOrdered, LoopInv, Found, stack = <<>>, ~cloning,
         pos < Len(toBuild), toBuild[pos + 1] \notin processed
  PROVE  DepSet(toBuild[pos + 1]) \subseteq (Range(cachedSvcs) \cap ready) \ Range(notCachedSvcs)
<1> DEFINE s == toBuild[pos + 1]
<1>1. ListsAreApart /\ CloneIsLast /\ DependentsAreAdded
  BY DEF LoopInv, Found, Sequential
<1>2. pos \in Nat /\ toBuild \in Seq(Services)
  BY DEF CheckTypes
<1>2a. pos + 1 \in 1..Len(toBuild) /\ s \in Selected /\ s \in Services
  BY <1>2 DEF Selected, Range
<1>3. SUFFICES ASSUME NEW d \in DepSet(s)
               PROVE  d \in Range(cachedSvcs) /\ d \in ready /\ d \notin Range(notCachedSvcs)
  OBVIOUS
<1>4. d \in Selected
  BY <1>2, <1>2a, <1>3 DEF GraphIsOrdered
<1>5. PICK i \in 1..Len(toBuild) : toBuild[i] = d
  BY <1>4 DEF Selected, Range, CheckTypes
<1>6. i < pos + 1
  BY <1>2, <1>2a, <1>3, <1>5 DEF GraphIsOrdered
<1>7. d \in processed
  BY <1>1, <1>2, <1>2a, <1>5, <1>6 DEF CloneIsLast
<1>8. d \in InLists
  BY <1>1, <1>4, <1>7 DEF ListsAreApart
<1>9. d \notin Range(notCachedSvcs)
  <2>1. Range(stack) = {}
    BY DEF Range
  <2>2. d \in Range(notCachedSvcs) => s \in processed
    BY <1>1, <1>2, <1>2a, <1>3, <2>1 DEF DependentsAreAdded, Dependents
  <2> QED
    BY <2>2
<1>10. d \in Range(cachedSvcs)
  BY <1>8, <1>9 DEF InLists
<1>11. ~failed[d]
  BY <1>4 DEF Found
<1> QED
  BY <1>1, <1>9, <1>10, <1>11 DEF CloneIsLast

\* Nothing has failed while the sequential check goes on.
LEMMA NothingFailed ==
  ASSUME Found, ListsAreApart
  PROVE  \A s \in Services : ~failed[s]
  BY DEF Found, ListsAreApart, InLists

\* The loop over svcsToBuild keeps its invariant: a service it skips, one it starts
\* to clone, one it does not find.
LEMMA CheckKeepsLists ==
  ASSUME CheckTypes, GraphIsOrdered, LoopInv, SequentialCheck
  PROVE  LoopInv'
<1> DEFINE s == toBuild[pos + 1]
<1>1. ListsAreApart /\ CloneIsLast /\ DependentsAreAdded
  BY DEF LoopInv, SequentialCheck, Found, Sequential
<1>2. /\ Found /\ stack = <<>> /\ ~cloning /\ pos < Len(toBuild)
      /\ dependsOn' = dependsOn /\ toBuild' = toBuild /\ ready' = ready /\ failed' = failed
  BY DEF SequentialCheck
<1>3. pos + 1 \in 1..Len(toBuild) /\ s \in Selected /\ s \in Services /\ pos \in Nat /\ Len(toBuild) \in Nat
  BY <1>2 DEF CheckTypes, Selected, Range
<1>4. \A x \in Services : ~failed[x]
  BY <1>1, <1>2, NothingFailed
<1>5. Selected' = Selected /\ \A x : DepSet(x)' = DepSet(x) /\ Dependents(x)' = Dependents(x)
  BY <1>2 DEF Selected, DepSet, Dependents
<1>6. cachedSvcs \in Seq(Services) /\ notCachedSvcs \in Seq(Services)
  BY <1>2 DEF CheckTypes, Found, Sequential
<1>7. CASE s \in processed /\ pos' = pos + 1
           /\ UNCHANGED <<processed, stack, cloning, cachedSvcs, notCachedSvcs>>
  <2>1. ListsAreApart'
    BY <1>1, <1>2, <1>5, <1>7 DEF ListsAreApart, InLists
  <2>2. CloneIsLast'
    BY <1>1, <1>2, <1>3, <1>7 DEF CloneIsLast
  <2>3. DependentsAreAdded'
    BY <1>1, <1>2, <1>5, <1>7 DEF DependentsAreAdded
  <2> QED
    BY <2>1, <2>2, <2>3 DEF LoopInv
<1>8. CASE s \notin processed /\ processed' = processed \cup {s} /\ cloning' = TRUE
           /\ cachedSvcs' = Append(cachedSvcs, s) /\ UNCHANGED <<pos, stack, notCachedSvcs>>
  <2>1. Range(cachedSvcs') = Range(cachedSvcs) \cup {s}
    BY <1>3, <1>6, <1>8, AppendAdds
  <2>2. s \notin Range(cachedSvcs) /\ s \notin Range(notCachedSvcs) /\ s \notin ready
    BY <1>1, <1>8 DEF ListsAreApart, InLists
  <2>3. ListsAreApart'
    BY <1>1, <1>2, <1>3, <1>4, <1>5, <1>8, <2>1, <2>2 DEF ListsAreApart, InLists
  <2>4. CloneIsLast'
    BY <1>1, <1>2, <1>3, <1>4, <1>8, <2>1, <2>2 DEF CloneIsLast
  <2>5. DepSet(s) \subseteq Range(cachedSvcs) \cap ready
    BY <1>2, <1>8, DepsAreCached
  <2>6. DependentsAreAdded'
    BY <1>1, <1>2, <1>5, <1>8, <2>1, <2>5 DEF DependentsAreAdded
  <2> QED
    BY <2>3, <2>4, <2>6 DEF LoopInv
<1>9. CASE s \notin processed /\ processed' = processed \cup {s} /\ stack' = <<s>> /\ pos' = pos + 1
           /\ notCachedSvcs' = Append(notCachedSvcs, s) /\ UNCHANGED <<cachedSvcs, cloning>>
  <2>1. Range(notCachedSvcs') = Range(notCachedSvcs) \cup {s}
    BY <1>3, <1>6, <1>9, AppendAdds
  <2>2. stack' \in Seq(Services) /\ Range(stack') = {s} /\ Range(stack) = {}
    BY <1>2, <1>3, <1>9 DEF Range
  <2>3. ListsAreApart'
    BY <1>1, <1>2, <1>3, <1>4, <1>5, <1>9, <2>1 DEF ListsAreApart, InLists
  <2>4. CloneIsLast'
    BY <1>1, <1>2, <1>3, <1>9 DEF CloneIsLast
  <2>5. DependentsAreAdded'
    BY <1>1, <1>2, <1>5, <1>9, <2>1, <2>2 DEF DependentsAreAdded
  <2> QED
    BY <2>3, <2>4, <2>5 DEF LoopInv
<1> QED
  BY <1>7, <1>8, <1>9 DEF SequentialCheck

\* A clone that ends, well or not, keeps it.
LEMMA CloneKeepsLists ==
  ASSUME CheckTypes, LoopInv, SequentialClone
  PROVE  LoopInv'
<1> DEFINE s == toBuild[pos + 1]
<1>1. ListsAreApart /\ CloneIsLast /\ DependentsAreAdded
  BY DEF LoopInv, SequentialClone, Sequential
<1>2. /\ cloning /\ cloning' = FALSE
      /\ dependsOn' = dependsOn /\ toBuild' = toBuild /\ processed' = processed /\ stack' = stack
      /\ cachedSvcs' = cachedSvcs /\ notCachedSvcs' = notCachedSvcs
  BY DEF SequentialClone
<1>3. /\ pos < Len(toBuild) /\ pos \in Nat /\ Len(toBuild) \in Nat /\ s \in Services
      /\ s \in Range(cachedSvcs) /\ s \notin ready /\ \A x \in Services : ~failed[x]
  BY <1>1, <1>2 DEF CloneIsLast, CheckTypes
<1>4. s \in processed
  BY <1>1, <1>3 DEF ListsAreApart, InLists
<1>5. Selected' = Selected /\ \A x : DepSet(x)' = DepSet(x) /\ Dependents(x)' = Dependents(x)
  BY <1>2 DEF Selected, DepSet, Dependents
<1>6. CASE ready' = ready \cup {s} /\ pos' = pos + 1 /\ failed' = failed
  <2>1. ListsAreApart'
    BY <1>1, <1>2, <1>3, <1>5, <1>6 DEF ListsAreApart, InLists
  <2>2. CloneIsLast'
    BY <1>1, <1>2, <1>3, <1>4, <1>6 DEF CloneIsLast
  <2>3. DependentsAreAdded'
    BY <1>1, <1>2, <1>5, <1>6 DEF DependentsAreAdded
  <2> QED
    BY <2>1, <2>2, <2>3 DEF LoopInv
<1>7. CASE failed' = [failed EXCEPT ![s] = TRUE] /\ ready' = ready /\ pos' = pos
  <2>0. \A x \in Services : failed'[x] <=> x = s
    BY <1>3, <1>7 DEF CheckTypes
  <2>1. ListsAreApart'
    BY <1>1, <1>2, <1>3, <1>5, <1>7, <2>0 DEF ListsAreApart, InLists
  <2>2. CloneIsLast'
    BY <1>1, <1>2, <1>3, <1>7, <2>0 DEF CloneIsLast
  <2>3. DependentsAreAdded'
    BY <1>1, <1>2, <1>5, <1>7 DEF DependentsAreAdded
  <2> QED
    BY <2>1, <2>2, <2>3 DEF LoopInv
<1> QED
  BY <1>6, <1>7 DEF SequentialClone

\* The calls of addDependentsToNotCached keep it: one returns, one adds a service to
\* build and calls itself, one meets a service that nobody asked for.
LEMMA CallsKeepLists ==
  ASSUME CheckTypes, LoopInv, AddDependentsToNotCached
  PROVE  LoopInv'
<1> DEFINE left == Dependents(Last(stack)) \ processed
<1>1. ListsAreApart /\ CloneIsLast /\ DependentsAreAdded
  BY DEF LoopInv, AddDependentsToNotCached, Sequential
<1>2. /\ strategy = "sequential" /\ stack # <<>> /\ ready' = ready /\ failed' = failed /\ pos' = pos
      /\ dependsOn' = dependsOn /\ toBuild' = toBuild /\ cachedSvcs' = cachedSvcs /\ cloning' = cloning
  BY DEF AddDependentsToNotCached, Sequential
<1>3. ~cloning
  BY <1>1, <1>2 DEF CloneIsLast
<1>4. stack \in Seq(Services) /\ notCachedSvcs \in Seq(Services)
  BY <1>1, <1>2 DEF DependentsAreAdded, CheckTypes
<1>5. Selected' = Selected /\ \A x : DepSet(x)' = DepSet(x) /\ Dependents(x)' = Dependents(x)
  BY <1>2 DEF Selected, DepSet, Dependents
<1>6. CASE left = {} /\ stack' = Front(stack) /\ UNCHANGED <<processed, notCachedSvcs>>
  <2>1. stack' \in Seq(Services) /\ Range(stack) = Range(stack') \cup {Last(stack)}
    BY <1>2, <1>4, <1>6, FrontLeaves
  <2>2. ListsAreApart'
    BY <1>1, <1>2, <1>5, <1>6 DEF ListsAreApart, InLists
  <2>3. CloneIsLast'
    BY <1>1, <1>2, <1>3, <1>6 DEF CloneIsLast
  <2>4. DependentsAreAdded'
    BY <1>1, <1>2, <1>5, <1>6, <2>1 DEF DependentsAreAdded
  <2> QED
    BY <2>2, <2>3, <2>4 DEF LoopInv
<1>7. ASSUME NEW d \in left, processed' = processed \cup {d}, d \in Selected,
             notCachedSvcs' = Append(notCachedSvcs, d), stack' = Append(stack, d)
      PROVE  LoopInv'
  <2>1. d \in Services /\ d \notin processed
    BY DEF Dependents
  <2>2. Range(notCachedSvcs') = Range(notCachedSvcs) \cup {d}
    BY <1>4, <1>7, <2>1, AppendAdds
  <2>3. stack' \in Seq(Services) /\ Range(stack') = Range(stack) \cup {d}
    BY <1>4, <1>7, <2>1, AppendAdds
  <2>4. ListsAreApart'
    BY <1>1, <1>2, <1>5, <1>7, <2>1, <2>2 DEF ListsAreApart, InLists
  <2>5. CloneIsLast'
    BY <1>1, <1>2, <1>3, <1>7 DEF CloneIsLast
  <2>6. DependentsAreAdded'
    BY <1>1, <1>2, <1>5, <1>7, <2>2, <2>3 DEF DependentsAreAdded
  <2> QED
    BY <2>4, <2>5, <2>6 DEF LoopInv
<1>8. ASSUME NEW d \in left, processed' = processed \cup {d}, d \notin Selected,
             UNCHANGED <<notCachedSvcs, stack>>
      PROVE  LoopInv'
  <2>1. ListsAreApart'
    BY <1>1, <1>2, <1>5, <1>8 DEF ListsAreApart, InLists
  <2>2. CloneIsLast'
    BY <1>1, <1>2, <1>3, <1>8 DEF CloneIsLast
  <2>3. DependentsAreAdded'
    BY <1>1, <1>2, <1>5, <1>8 DEF DependentsAreAdded
  <2> QED
    BY <2>1, <2>2, <2>3 DEF LoopInv
<1> QED
  BY <1>6, <1>7, <1>8 DEF AddDependentsToNotCached

\* A new build satisfies the invariant.
LEMMA RefStart == Init => RefInv
<1> SUFFICES ASSUME Init PROVE RefInv
  OBVIOUS
<1>1. dependsOn \in [Services -> Seq(Services)]
  BY Permutation DEF Init
<1>2. CheckTypes
  BY <1>1, StrategiesAssumption DEF Init, CheckTypes, StrategiesAssumption
<1>3. PhasesInOrder /\ LoopInv
  BY DEF Init, PhasesInOrder, LoopInv
<1>4. GraphIsOrdered
  BY DEF Init, GraphIsOrdered, Selected, Range
<1>5. GoroutinesWait
  BY <1>1 DEF Init, GoroutinesWait
<1> QED
  BY <1>2, <1>3, <1>4, <1>5 DEF RefInv

\* Every step of the main goroutine and of the goroutine of a service preserves it.
LEMMA RefStep == RefInv /\ [Next]_vars => RefInv'
<1> SUFFICES ASSUME RefInv, [Next]_vars PROVE RefInv'
  OBVIOUS
<1>t. CheckTypes
  BY DEF RefInv
<1>p. PhasesInOrder
  BY DEF RefInv
<1>g. GraphIsOrdered
  BY DEF RefInv
<1>w. GoroutinesWait
  BY DEF RefInv
<1>l. LoopInv
  BY DEF RefInv
<1>1. CASE BuildGraph
  <2>1. CheckTypes'
    <3>1. toBuild' \in Seq(Services)
      BY <1>t, <1>g, <1>p, <1>1, GraphIsBuilt
    <3>2. /\ phase' \in {"graph", "check", "build", "done"}
          /\ notCachedSvcs' = notCachedSvcs \/ notCachedSvcs' = toBuild' \/ notCachedSvcs' = <<>>
      BY <1>1 DEF BuildGraph, Return
    <3>3. notCachedSvcs \in Seq(Services)
      BY <1>p, <1>1 DEF PhasesInOrder, BuildGraph
    <3>4. UNCHANGED <<dependsOn, strategy, pos, cachedSvcs, pc, seen, isCached, failed>>
      BY <1>1 DEF BuildGraph, checkVars
    <3>5. notCachedSvcs' \in Seq(Services)
      <4>1. CASE notCachedSvcs' = notCachedSvcs
        BY <4>1, <3>3
      <4>2. CASE notCachedSvcs' = toBuild'
        BY <4>2, <3>1
      <4>3. CASE notCachedSvcs' = <<>>
        BY <4>3
      <4> QED
        BY <3>2, <4>1, <4>2, <4>3
    <3> QED
      BY <1>t, <3>1, <3>2, <3>4, <3>5 DEF CheckTypes
  <2>2. PhasesInOrder'
    <3>1. phase' # "done" => toBuild' # <<>>
      BY <1>t, <1>g, <1>p, <1>1, GraphIsBuilt
    <3>2. /\ phase' # "graph" /\ (phase' = "check" => strategy # "none") /\ strategy' = strategy
          /\ phase' = "done" \/ result' = result
      BY <1>1 DEF BuildGraph, Return
    <3>3. result = "none"
      BY <1>p, <1>1 DEF PhasesInOrder, BuildGraph
    <3> QED
      BY <3>1, <3>2, <3>3 DEF PhasesInOrder
  <2>3. GraphIsOrdered'
    BY <1>t, <1>g, <1>p, <1>1, GraphIsBuilt
  <2>4. GoroutinesWait'
    BY <1>w, <1>t, <1>1 DEF GoroutinesWait, BuildGraph, Return, checkVars
  <2>5. LoopInv'
    <3> SUFFICES ASSUME phase' = "check", strategy' = "sequential"
                 PROVE  ListsAreApart' /\ CloneIsLast' /\ DependentsAreAdded'
      BY DEF LoopInv
    <3>1. /\ cachedSvcs' = <<>> /\ notCachedSvcs' = <<>> /\ stack' = <<>> /\ pos' = 0 /\ processed' = {}
          /\ ready' = {} /\ cloning' = FALSE /\ \A s \in Services : ~failed'[s]
      BY <1>p, <1>1 DEF PhasesInOrder, BuildGraph, Return, checkVars
    <3>2. Range(cachedSvcs') = {} /\ Range(notCachedSvcs') = {} /\ Range(stack') = {}
      BY <3>1 DEF Range
    <3>3. toBuild' \in Seq(Services)
      BY <2>1 DEF CheckTypes
    <3>4. ListsAreApart'
      BY <3>1, <3>2 DEF ListsAreApart, InLists
    <3>5. CloneIsLast'
      BY <3>1, <3>2, <3>3 DEF CloneIsLast
    <3>6. DependentsAreAdded'
      BY <3>1, <3>2 DEF DependentsAreAdded
    <3> QED
      BY <3>4, <3>5, <3>6
  <2> QED
    BY <2>1, <2>2, <2>3, <2>4, <2>5 DEF RefInv
<1>2. CASE Collect
  <2>1. CheckTypes'
    BY <1>t, <1>2 DEF CheckTypes, Collect, Return, checkVars, Selected
  <2>2. PhasesInOrder'
    BY <1>p, <1>t, <1>2 DEF PhasesInOrder, Collect, Return, checkVars, Selected
  <2>3. GraphIsOrdered'
    BY <1>g, <1>2, GraphStays DEF Collect
  <2>4. GoroutinesWait'
    BY <1>w, <1>t, <1>2 DEF GoroutinesWait, Collect, Return, checkVars, Selected
  <2>5. LoopInv'
    BY <1>l, <1>2 DEF LoopInv, Collect, Return, checkVars, Selected
  <2> QED
    BY <2>1, <2>2, <2>3, <2>4, <2>5 DEF RefInv
<1>3. CASE SequentialCheck
  <2>1. CheckTypes'
    <3>1. strategy = "sequential" /\ pos \in Nat /\ cachedSvcs \in Seq(Services) /\ notCachedSvcs \in Seq(Services)
      BY <1>t, <1>3 DEF CheckTypes, SequentialCheck, Found, Sequential
    <3>2. toBuild[pos + 1] \in Services
      BY <1>t, <1>3 DEF CheckTypes, SequentialCheck
    <3>3. /\ pos' \in Nat /\ cachedSvcs' \in Seq(Services) /\ notCachedSvcs' \in Seq(Services)
      <4>1. /\ pos' = pos \/ pos' = pos + 1
            /\ cachedSvcs' = cachedSvcs \/ cachedSvcs' = Append(cachedSvcs, toBuild[pos + 1])
            /\ notCachedSvcs' = notCachedSvcs \/ notCachedSvcs' = Append(notCachedSvcs, toBuild[pos + 1])
        BY <1>3 DEF SequentialCheck
      <4>2. pos' \in Nat
        BY <3>1, <4>1
      <4>3. Append(cachedSvcs, toBuild[pos + 1]) \in Seq(Services)
        BY <3>1, <3>2, AppendAdds
      <4>4. Append(notCachedSvcs, toBuild[pos + 1]) \in Seq(Services)
        BY <3>1, <3>2, AppendAdds
      <4> QED
        BY <3>1, <4>1, <4>2, <4>3, <4>4
    <3>4. UNCHANGED <<dependsOn, strategy, toBuild, phase, pc, seen, isCached, failed>>
      BY <1>3 DEF SequentialCheck
    <3> QED
      BY <1>t, <3>3, <3>4 DEF CheckTypes
  <2>2. PhasesInOrder'
    BY <1>p, <1>t, <1>3 DEF PhasesInOrder, SequentialCheck, Found, Sequential
  <2>3. GraphIsOrdered'
    BY <1>g, <1>3, GraphStays DEF SequentialCheck
  <2>4. GoroutinesWait'
    BY <1>w, <1>t, <1>3 DEF GoroutinesWait, SequentialCheck, Found, Sequential
  <2>5. LoopInv'
    BY <1>t, <1>g, <1>l, <1>3, CheckKeepsLists
  <2> QED
    BY <2>1, <2>2, <2>3, <2>4, <2>5 DEF RefInv
<1>4. CASE SequentialClone
  <2>1. CheckTypes'
    <3>1. pos' \in Nat
      BY <1>t, <1>4 DEF CheckTypes, SequentialClone
    <3>2. failed' \in [Services -> BOOLEAN]
      BY <1>t, <1>4 DEF CheckTypes, SequentialClone
    <3>3. UNCHANGED <<dependsOn, strategy, toBuild, phase, pc, seen, isCached, cachedSvcs, notCachedSvcs>>
      BY <1>4 DEF SequentialClone
    <3> QED
      BY <1>t, <3>1, <3>2, <3>3 DEF CheckTypes
  <2>2. PhasesInOrder'
    BY <1>p, <1>t, <1>4 DEF PhasesInOrder, SequentialClone, Sequential
  <2>3. GraphIsOrdered'
    BY <1>g, <1>4, GraphStays DEF SequentialClone
  <2>4. GoroutinesWait'
    BY <1>w, <1>t, <1>4 DEF GoroutinesWait, SequentialClone, Sequential
  <2>5. LoopInv'
    BY <1>t, <1>l, <1>4, CloneKeepsLists
  <2> QED
    BY <2>1, <2>2, <2>3, <2>4, <2>5 DEF RefInv
<1>5. CASE SequentialFail
  <2>1. CheckTypes'
    BY <1>t, <1>5 DEF CheckTypes, SequentialFail, Return, Sequential, checkVars, Selected
  <2>2. PhasesInOrder'
    BY <1>p, <1>t, <1>5 DEF PhasesInOrder, SequentialFail, Return, Sequential, checkVars,
       Selected
  <2>3. GraphIsOrdered'
    BY <1>g, <1>5, GraphStays DEF SequentialFail
  <2>4. GoroutinesWait'
    BY <1>w, <1>t, <1>5 DEF GoroutinesWait, SequentialFail, Return, Sequential, checkVars,
       Selected
  <2>5. LoopInv'
    BY <1>l, <1>5 DEF LoopInv, SequentialFail, Return, Sequential, checkVars, Selected
  <2> QED
    BY <2>1, <2>2, <2>3, <2>4, <2>5 DEF RefInv
<1>6. CASE AddDependentsToNotCached
  <2>1. CheckTypes'
    <3>1. strategy = "sequential" /\ notCachedSvcs \in Seq(Services)
      BY <1>t, <1>6 DEF CheckTypes, AddDependentsToNotCached, Sequential
    <3>2. notCachedSvcs' = notCachedSvcs
          \/ \E d \in Services : notCachedSvcs' = Append(notCachedSvcs, d)
      BY <1>6 DEF AddDependentsToNotCached, Dependents
    <3>3. notCachedSvcs' \in Seq(Services)
      BY <3>1, <3>2
    <3>4. UNCHANGED <<dependsOn, strategy, toBuild, phase, pos, pc, seen, isCached, failed, cachedSvcs>>
      BY <1>6 DEF AddDependentsToNotCached
    <3> QED
      BY <1>t, <3>3, <3>4 DEF CheckTypes
  <2>2. PhasesInOrder'
    BY <1>p, <1>t, <1>6 DEF PhasesInOrder, AddDependentsToNotCached, Sequential, Selected
  <2>3. GraphIsOrdered'
    BY <1>g, <1>6, GraphStays DEF AddDependentsToNotCached
  <2>4. GoroutinesWait'
    BY <1>w, <1>t, <1>6 DEF GoroutinesWait, AddDependentsToNotCached, Sequential, Selected
  <2>5. LoopInv'
    BY <1>t, <1>l, <1>6, CallsKeepLists
  <2> QED
    BY <2>1, <2>2, <2>3, <2>4, <2>5 DEF RefInv
<1>7. CASE SequentialEnd
  <2>1. CheckTypes'
    BY <1>t, <1>7 DEF CheckTypes, SequentialEnd, Found, Sequential, checkVars
  <2>2. PhasesInOrder'
    BY <1>p, <1>t, <1>7 DEF PhasesInOrder, SequentialEnd, Found, Sequential, checkVars
  <2>3. GraphIsOrdered'
    BY <1>g, <1>7, GraphStays DEF SequentialEnd
  <2>4. GoroutinesWait'
    BY <1>w, <1>t, <1>7 DEF GoroutinesWait, SequentialEnd, Found, Sequential, checkVars
  <2>5. LoopInv'
    BY <1>l, <1>7 DEF LoopInv, SequentialEnd, Found, Sequential, checkVars
  <2> QED
    BY <2>1, <2>2, <2>3, <2>4, <2>5 DEF RefInv
<1>8. CASE BuildServiceImages
  <2>1. CheckTypes'
    BY <1>t, <1>8 DEF CheckTypes, BuildServiceImages, Return, checkVars
  <2>2. PhasesInOrder'
    BY <1>p, <1>t, <1>8 DEF PhasesInOrder, BuildServiceImages, Return, checkVars
  <2>3. GraphIsOrdered'
    BY <1>g, <1>8, GraphStays DEF BuildServiceImages
  <2>4. GoroutinesWait'
    BY <1>w, <1>t, <1>8 DEF GoroutinesWait, BuildServiceImages, Return, checkVars
  <2>5. LoopInv'
    BY <1>l, <1>8 DEF LoopInv, BuildServiceImages, Return, checkVars
  <2> QED
    BY <2>1, <2>2, <2>3, <2>4, <2>5 DEF RefInv
<1>9. CASE BuildEnd
  <2>1. CheckTypes'
    BY <1>t, <1>9 DEF CheckTypes, BuildEnd, Return, checkVars
  <2>2. PhasesInOrder'
    BY <1>p, <1>t, <1>9 DEF PhasesInOrder, BuildEnd, Return, checkVars
  <2>3. GraphIsOrdered'
    BY <1>g, <1>9, GraphStays DEF BuildEnd
  <2>4. GoroutinesWait'
    BY <1>w, <1>t, <1>9 DEF GoroutinesWait, BuildEnd, Return, checkVars
  <2>5. LoopInv'
    BY <1>l, <1>9 DEF LoopInv, BuildEnd, Return, checkVars
  <2> QED
    BY <2>1, <2>2, <2>3, <2>4, <2>5 DEF RefInv
<1>10. ASSUME NEW s \in Services, WaitDependency(s) PROVE RefInv'
  <2>1. CheckTypes'
    <3>1. /\ pc' \in [Services -> {"wait", "clone", "closed"}] /\ isCached' \in [Services -> BOOLEAN]
          /\ failed' \in [Services -> BOOLEAN]
      BY <1>t, <1>10 DEF CheckTypes, WaitDependency, Close
    <3>2. seen' \in [Services -> Nat]
      <4>1. seen' = seen \/ seen' = [seen EXCEPT ![s] = seen[s] + 1]
        BY <1>10 DEF WaitDependency
      <4>2. seen \in [Services -> Nat] /\ seen[s] + 1 \in Nat
        BY <1>t DEF CheckTypes
      <4> QED
        BY <4>1, <4>2
    <3>3. UNCHANGED <<dependsOn, strategy, toBuild, phase, pos, cachedSvcs, notCachedSvcs>>
      BY <1>10 DEF WaitDependency
    <3> QED
      BY <1>t, <3>1, <3>2, <3>3 DEF CheckTypes
  <2>2. PhasesInOrder'
    BY <1>p, <1>t, <1>10 DEF PhasesInOrder, WaitDependency, Parallel, Close
  <2>3. GraphIsOrdered'
    BY <1>g, <1>10, GraphStays DEF WaitDependency
  <2>4. GoroutinesWait'
    <3>1. /\ strategy = "parallel" /\ pc[s] = "wait" /\ dependsOn' = dependsOn /\ s \in Services
          /\ dependsOn[s] \in Seq(Services)
      BY <1>t, <1>10 DEF CheckTypes, WaitDependency, Parallel
    <3>2. ~failed[s]
      BY <1>w, <3>1 DEF GoroutinesWait
    <3>3. ASSUME NEW t \in Services, NEW i \in 1..seen[t]
          PROVE  LET d == dependsOn[t][i] IN
                 d \in Services /\ d # s /\ pc[d] = "closed" /\ isCached[d] /\ ~failed[d]
      BY SMTT(60), <1>w, <1>t, <3>1 DEF GoroutinesWait, CheckTypes
    <3>4. CASE Close(s, FALSE, FALSE) /\ seen' = seen
      BY SMTT(60), <1>w, <1>t, <3>1, <3>2, <3>3, <3>4 DEF GoroutinesWait, CheckTypes, Close
    <3>5. CASE /\ seen' = [seen EXCEPT ![s] = @ + 1] /\ UNCHANGED <<pc, isCached, failed>>
               /\ seen[s] < Len(dependsOn[s]) /\ pc[dependsOn[s][seen[s] + 1]] = "closed"
               /\ isCached[dependsOn[s][seen[s] + 1]]
      <4>1. seen[s] \in Nat /\ seen'[s] = seen[s] + 1 /\ \A t \in Services \ {s} : seen'[t] = seen[t]
        BY <1>t, <3>1, <3>5 DEF CheckTypes
      <4>2. dependsOn[s][seen[s] + 1] \in Services
        BY <3>1, <3>5, <4>1
      <4>3. ~failed[dependsOn[s][seen[s] + 1]]
        BY <1>w, <3>1, <3>5, <4>2 DEF GoroutinesWait
      <4>4. seen'[s] \in 0..Len(dependsOn[s])
        BY <3>1, <3>5, <4>1
      <4>5. \A i \in 1..seen'[s] : i \in 1..seen[s] \/ i = seen[s] + 1
        BY <4>1
      <4> QED
        BY <1>w, <3>1, <3>3, <3>5, <4>1, <4>3, <4>4, <4>5 DEF GoroutinesWait
    <3> QED
      BY <3>4, <3>5, <1>10 DEF WaitDependency
  <2>5. LoopInv'
    BY <1>l, <1>10 DEF LoopInv, WaitDependency, Parallel, Close
  <2> QED
    BY <2>1, <2>2, <2>3, <2>4, <2>5 DEF RefInv
<1>11. ASSUME NEW s \in Services, IsCached(s) PROVE RefInv'
  <2>1. CheckTypes'
    BY <1>t, <1>11 DEF CheckTypes, IsCached, Parallel, Close
  <2>2. PhasesInOrder'
    BY <1>p, <1>t, <1>11 DEF PhasesInOrder, IsCached, Parallel, Close
  <2>3. GraphIsOrdered'
    BY <1>g, <1>11, GraphStays DEF IsCached
  <2>4. GoroutinesWait'
    <3>1. /\ strategy = "parallel" /\ pc[s] = "wait" /\ dependsOn' = dependsOn /\ s \in Services
          /\ dependsOn[s] \in Seq(Services)
      BY <1>t, <1>11 DEF CheckTypes, IsCached, Parallel
    <3>2. ~failed[s]
      BY <1>w, <3>1 DEF GoroutinesWait
    <3>3. ASSUME NEW t \in Services, NEW i \in 1..seen[t]
          PROVE  LET d == dependsOn[t][i] IN
                 d \in Services /\ d # s /\ pc[d] = "closed" /\ isCached[d] /\ ~failed[d]
      BY SMTT(60), <1>w, <1>t, <3>1 DEF GoroutinesWait, CheckTypes
    <3>4. seen' = seen /\ seen[s] = Len(dependsOn[s])
      BY <1>11 DEF IsCached
    <3>5. CASE Close(s, FALSE, FALSE)
      BY SMTT(60), <1>w, <1>t, <3>1, <3>2, <3>3, <3>4, <3>5 DEF GoroutinesWait, CheckTypes, Close
    <3>6. CASE pc' = [pc EXCEPT ![s] = "clone"] /\ UNCHANGED <<isCached, failed>>
      <4>1. pc'[s] = "clone" /\ \A t \in Services \ {s} : pc'[t] = pc[t]
        BY <1>t, <3>6 DEF CheckTypes
      <4>2. strategy' = strategy /\ isCached' = isCached /\ failed' = failed
        BY <3>6, <1>11 DEF IsCached
      <4>3. \A t \in Services : failed[t] => t # s
        BY <3>2
      <4> QED
        BY <1>w, <3>1, <3>3, <3>4, <4>1, <4>2, <4>3 DEF GoroutinesWait
    <3> QED
      BY <3>5, <3>6, <1>11 DEF IsCached
  <2>5. LoopInv'
    BY <1>l, <1>11 DEF LoopInv, IsCached, Parallel, Close
  <2> QED
    BY <2>1, <2>2, <2>3, <2>4, <2>5 DEF RefInv
<1>12. ASSUME NEW s \in Services, CloneGlobalImageToDev(s) PROVE RefInv'
  <2>1. CheckTypes'
    BY <1>t, <1>12 DEF CheckTypes, CloneGlobalImageToDev, Parallel, Close
  <2>2. PhasesInOrder'
    BY <1>p, <1>t, <1>12 DEF PhasesInOrder, CloneGlobalImageToDev, Parallel, Close
  <2>3. GraphIsOrdered'
    BY <1>g, <1>12, GraphStays DEF CloneGlobalImageToDev
  <2>4. GoroutinesWait'
    <3>1. /\ strategy = "parallel" /\ pc[s] = "clone" /\ dependsOn' = dependsOn /\ s \in Services
          /\ dependsOn[s] \in Seq(Services)
      BY <1>t, <1>12 DEF CheckTypes, CloneGlobalImageToDev, Parallel
    <3>2. ~failed[s]
      BY <1>w, <3>1 DEF GoroutinesWait
    <3>3. ASSUME NEW t \in Services, NEW i \in 1..seen[t]
          PROVE  LET d == dependsOn[t][i] IN
                 d \in Services /\ d # s /\ pc[d] = "closed" /\ isCached[d] /\ ~failed[d]
      BY <1>w, <1>t, <3>1 DEF GoroutinesWait, CheckTypes
    <3>4. seen' = seen
      BY <1>12 DEF CloneGlobalImageToDev
    <3>5. CASE Close(s, TRUE, FALSE)
      BY <1>w, <1>t, <3>1, <3>2, <3>3, <3>4, <3>5 DEF GoroutinesWait, CheckTypes, Close
    <3>6. CASE Close(s, FALSE, TRUE)
      BY SMTT(60), <1>w, <1>t, <3>1, <3>2, <3>3, <3>4, <3>6 DEF GoroutinesWait, CheckTypes, Close
    <3> QED
      BY <3>5, <3>6, <1>12 DEF CloneGlobalImageToDev
  <2>5. LoopInv'
    BY <1>l, <1>12 DEF LoopInv, CloneGlobalImageToDev, Parallel, Close
  <2> QED
    BY <2>1, <2>2, <2>3, <2>4, <2>5 DEF RefInv
<1>13. CASE UNCHANGED vars
  <2>1. CheckTypes'
    BY <1>t, <1>13 DEF CheckTypes, vars, checkVars
  <2>2. PhasesInOrder'
    BY <1>p, <1>13 DEF PhasesInOrder, vars, checkVars
  <2>3. GraphIsOrdered'
    BY <1>g, <1>13, GraphStays DEF vars
  <2>4. GoroutinesWait'
    BY <1>w, <1>13 DEF GoroutinesWait, vars, checkVars
  <2>5. LoopInv'
    BY <1>l, <1>13 DEF LoopInv, vars, checkVars, ListsAreApart, CloneIsLast, DependentsAreAdded, InLists, Selected, Dependents, DepSet
  <2> QED
    BY <2>1, <2>2, <2>3, <2>4, <2>5 DEF RefInv
<1> QED
  BY <1>1, <1>2, <1>3, <1>4, <1>5, <1>6, <1>7, <1>8, <1>9, <1>10, <1>11, <1>12, <1>13 DEF
     Next, Main, Goroutine

-----------------------------------------------------------------------------
(* Every step is a step of CacheCheck or changes nothing that it sees         *)

\* The initial states are those of the interface.
LEMMA StartRefines == Init => CC!Init
<1> SUFFICES ASSUME Init PROVE CC!Init
  OBVIOUS
<1>1. CheckTypes
  BY RefStart DEF RefInv
<1>2. [s \in Services |-> DepSet(s)] \in [Services -> SUBSET Services]
  BY <1>1, DepsAreServices
<1>3. Selected = {} /\ Answer = "none"
  BY DEF Init, Selected, Range, Answer
<1>4. \A s \in Services : Verdict(s) = "unknown"
  BY DEF Init, Verdict, Range
<1> QED
  BY <1>2, <1>3, <1>4 DEF CC!Init

\* A step that keeps the graph, the verdicts and the answer is a stutter.
LEMMA Stutters ==
  ASSUME dependsOn' = dependsOn, toBuild' = toBuild, Answer' = Answer,
         \A s \in Services : Verdict(s)' = Verdict(s)
  PROVE  UNCHANGED CC!vars
<1>1. Selected' = Selected /\ \A x : DepSet(x)' = DepSet(x)
  BY DEF Selected, DepSet
<1> QED
  BY <1>1 DEF CC!vars

\* A step that gives one service its verdict, once it may.
LEMMA Decides ==
  ASSUME NEW x \in Services, NEW v \in {"cached", "build", "failed"},
         dependsOn' = dependsOn, toBuild' = toBuild, Answer = "none", Answer' = "none",
         x \in Selected, Verdict(x) = "unknown", Verdict(x)' = v, DepSet(x) \subseteq Services,
         \A s \in Services \ {x} : Verdict(s)' = Verdict(s),
         \/ v = "build" /\ \E d \in DepSet(x) : Verdict(d) \in {"build", "failed"}
         \/ \A d \in DepSet(x) : Verdict(d) = "cached"
  PROVE  CC!Next
<1> DEFINE verdicts == [s \in Services |-> Verdict(s)]
           depSets == [s \in Services |-> DepSet(s)]
<1>1. Selected' = Selected /\ \A y : DepSet(y)' = DepSet(y)
  BY DEF Selected, DepSet
<1>2. verdicts' = [verdicts EXCEPT ![x] = v]
  OBVIOUS
<1>3. depSets' = depSets /\ depSets[x] = DepSet(x) /\ verdicts[x] = "unknown"
  BY <1>1
<1>4. \A d \in DepSet(x) : verdicts[d] = Verdict(d)
  OBVIOUS
<1>5. CC!Decide(x, v)
  BY <1>1, <1>2, <1>3, <1>4 DEF CC!Decide
<1> QED
  BY <1>5 DEF CC!Next

\* A step that answers, with an error that has a reason or with a complete plan.
LEMMA Reports ==
  ASSUME NEW a \in {"plan", "error"},
         dependsOn' = dependsOn, toBuild' = toBuild, Answer = "none", Answer' = a,
         Selected # {}, Selected \subseteq Services,
         \A s \in Services : Verdict(s)' = Verdict(s),
         \/ a = "error" /\ \E s \in Selected : Verdict(s) = "failed"
         \/ a = "plan" /\ \A s \in Selected : Verdict(s) \in {"cached", "build"}
  PROVE  CC!Next
<1>1. Selected' = Selected /\ \A y : DepSet(y)' = DepSet(y)
  BY DEF Selected, DepSet
<1>2. CC!Report(a)
  BY <1>1 DEF CC!Report
<1> QED
  BY <1>2 DEF CC!Next

\* What is selected are services; it is not empty behind the graph.
LEMMA SelectedServices ==
  ASSUME CheckTypes
  PROVE  Selected \subseteq Services /\ (toBuild # <<>> => Selected # {})
<1>1. toBuild \in Seq(Services)
  BY DEF CheckTypes
<1>2. \A i \in DOMAIN toBuild : i \in 1..Len(toBuild)
  BY <1>1
<1>3. toBuild # <<>> => 1 \in DOMAIN toBuild
  BY <1>1
<1> QED
  BY <1>1, <1>2, <1>3 DEF Selected, Range

\* BuildGraph: the check is asked for the services of the graph, or ends before it.
LEMMA GraphRefines ==
  ASSUME RefInv, BuildGraph
  PROVE  [CC!Next]_(CC!vars)
<1>1. CheckTypes /\ PhasesInOrder /\ GraphIsOrdered
  BY DEF RefInv
<1>2. /\ phase = "graph" /\ toBuild = <<>> /\ notCachedSvcs = <<>> /\ cachedSvcs = <<>>
      /\ \A s \in Services : pc[s] = "wait" /\ ~failed[s]
  BY <1>1 DEF PhasesInOrder, BuildGraph
<1>3. UNCHANGED <<dependsOn, strategy, cachedSvcs, ready, pc, isCached, failed>>
  BY DEF BuildGraph, checkVars
<1>4. notCachedSvcs' = <<>> \/ strategy = "none"
  BY <1>2 DEF BuildGraph, Return
<1>5. \A s \in Services : Verdict(s) = "unknown"
  BY <1>2 DEF Verdict, Range
<1>6. \A s \in Services : Verdict(s)' = "unknown"
  BY <1>2, <1>3, <1>4 DEF Verdict, Range
<1>7. Answer = "none" /\ Selected = {}
  BY <1>2 DEF Answer, Selected, Range
<1>8. CASE phase' = "done" /\ toBuild' = toBuild
  <2>1. Answer' = "none"
    BY <1>2, <1>8 DEF Answer
  <2> QED
    BY <1>3, <1>5, <1>6, <1>7, <1>8, <2>1, Stutters
<1>9. CASE phase' = IF strategy = "none" THEN "build" ELSE "check"
  <2>1. Answer' = "none"
    BY <1>3, <1>9 DEF Answer
  <2>2. toBuild' \in Seq(Services) /\ GraphIsOrdered' /\ Selected' # {}
    BY <1>1, <1>9, GraphIsBuilt
  <2>3. Selected' \in SUBSET Services
    BY <2>2 DEF Selected, Range
  <2>4. \A y : DepSet(y)' = DepSet(y)
    BY <1>3 DEF DepSet
  <2>5. \A s \in Selected' : DepSet(s) \subseteq Selected'
    BY <2>2, <2>4 DEF GraphIsOrdered
  <2>6. CC!Ask(Selected')
    BY <1>5, <1>6, <1>7, <2>1, <2>2, <2>3, <2>4, <2>5 DEF CC!Ask
  <2> QED
    BY <2>3, <2>6 DEF CC!Next
<1> QED
  BY <1>8, <1>9 DEF BuildGraph, Return

\* A goroutine of the parallel check: it decides when it closes its channel, not built
\* on a dependency that is not cached, or free to choose when all of them are.
LEMMA GoroutineRefines ==
  ASSUME RefInv, NEW s \in Services, Goroutine(s)
  PROVE  [CC!Next]_(CC!vars)
<1>1. CheckTypes /\ GoroutinesWait
  BY DEF RefInv
<1>2. /\ strategy = "parallel" /\ phase = "check" /\ s \in Selected /\ pc[s] \in {"wait", "clone"}
      /\ dependsOn' = dependsOn /\ toBuild' = toBuild /\ strategy' = strategy /\ phase' = phase
  BY DEF Goroutine, WaitDependency, IsCached, CloneGlobalImageToDev, Parallel
<1>3. Answer = "none" /\ Answer' = "none"
  BY <1>2 DEF Answer
<1>4. ~failed[s] /\ Verdict(s) = "unknown"
  BY <1>1, <1>2 DEF GoroutinesWait, Verdict
<1>5. dependsOn[s] \in Seq(Services) /\ DepSet(s) \subseteq Services
  BY <1>1, DepsAreServices DEF CheckTypes
<1>6. ASSUME NEW c \in BOOLEAN, NEW e \in BOOLEAN, Close(s, c, e)
      PROVE  /\ Verdict(s)' = IF e THEN "failed" ELSE IF c THEN "cached" ELSE "build"
             /\ \A t \in Services \ {s} : Verdict(t)' = Verdict(t)
  <2>1. /\ pc'[s] = "closed" /\ isCached'[s] = c /\ failed'[s] = e
        /\ \A t \in Services \ {s} : pc'[t] = pc[t] /\ isCached'[t] = isCached[t] /\ failed'[t] = failed[t]
    BY <1>1, <1>6 DEF CheckTypes, Close
  <2> QED
    BY <1>2, <2>1 DEF Verdict
<1>7. seen[s] = Len(dependsOn[s]) => \A d \in DepSet(s) : Verdict(d) = "cached"
  <2>1. SUFFICES ASSUME seen[s] = Len(dependsOn[s]), NEW d \in DepSet(s) PROVE Verdict(d) = "cached"
    OBVIOUS
  <2>2. PICK i \in 1..Len(dependsOn[s]) : dependsOn[s][i] = d
    BY <1>5, <2>1 DEF DepSet, Range
  <2>3. pc[d] = "closed" /\ isCached[d] /\ ~failed[d]
    BY <1>1, <1>2, <2>1, <2>2 DEF GoroutinesWait
  <2> QED
    BY <1>2, <2>3 DEF Verdict
<1>8. CASE WaitDependency(s)
  <2> DEFINE d == dependsOn[s][seen[s] + 1]
  <2>1. CASE pc[d] = "closed" /\ ~isCached[d] /\ Close(s, FALSE, FALSE)
    <3>1. seen[s] \in Nat /\ seen[s] < Len(dependsOn[s])
      BY <1>1, <1>8 DEF CheckTypes, WaitDependency
    <3>2. d \in DepSet(s)
      BY <1>5, <3>1 DEF DepSet, Range
    <3>3. Verdict(d) \in {"build", "failed"}
      BY <1>2, <2>1 DEF Verdict
    <3>4. Verdict(s)' = "build" /\ \A t \in Services \ {s} : Verdict(t)' = Verdict(t)
      BY <1>6, <2>1
    <3> QED
      BY <1>2, <1>3, <1>4, <1>5, <3>2, <3>3, <3>4, Decides
  <2>2. CASE UNCHANGED <<pc, isCached, failed>>
    <3>1. \A t \in Services : Verdict(t)' = Verdict(t)
      BY <1>2, <2>2 DEF Verdict
    <3> QED
      BY <1>2, <1>3, <3>1, Stutters
  <2> QED
    BY <1>8, <2>1, <2>2 DEF WaitDependency
<1>9. CASE IsCached(s)
  <2>1. CASE Close(s, FALSE, FALSE)
    <3>1. Verdict(s)' = "build" /\ \A t \in Services \ {s} : Verdict(t)' = Verdict(t)
      BY <1>6, <2>1
    <3>2. \A d \in DepSet(s) : Verdict(d) = "cached"
      BY <1>7, <1>9 DEF IsCached
    <3> QED
      BY <1>2, <1>3, <1>4, <1>5, <3>1, <3>2, Decides
  <2>2. CASE pc' = [pc EXCEPT ![s] = "clone"] /\ UNCHANGED <<isCached, failed>>
    <3>1. pc'[s] = "clone" /\ \A t \in Services \ {s} : pc'[t] = pc[t]
      BY <1>1, <2>2 DEF CheckTypes
    <3>2. Verdict(s)' = "unknown"
      BY <1>2, <1>4, <2>2, <3>1 DEF Verdict
    <3>3. \A t \in Services \ {s} : Verdict(t)' = Verdict(t)
      BY <1>2, <2>2, <3>1 DEF Verdict
    <3> QED
      BY <1>2, <1>3, <1>4, <3>2, <3>3, Stutters
  <2> QED
    BY <1>9, <2>1, <2>2 DEF IsCached
<1>10. CASE CloneGlobalImageToDev(s)
  <2>1. \A d \in DepSet(s) : Verdict(d) = "cached"
    BY <1>1, <1>2, <1>7, <1>10 DEF CloneGlobalImageToDev, GoroutinesWait
  <2>2. CASE Close(s, TRUE, FALSE)
    <3>1. Verdict(s)' = "cached" /\ \A t \in Services \ {s} : Verdict(t)' = Verdict(t)
      BY <1>6, <2>2
    <3> QED
      BY <1>2, <1>3, <1>4, <1>5, <2>1, <3>1, Decides
  <2>3. CASE Close(s, FALSE, TRUE)
    <3>1. Verdict(s)' = "failed" /\ \A t \in Services \ {s} : Verdict(t)' = Verdict(t)
      BY <1>6, <2>3
    <3> QED
      BY <1>2, <1>3, <1>4, <1>5, <2>1, <3>1, Decides
  <2> QED
    BY <1>10, <2>2, <2>3 DEF CloneGlobalImageToDev
<1> QED
  BY <1>8, <1>9, <1>10 DEF Goroutine

\* The sequential check while it runs: its verdicts, read from the lists.
LEMMA SequentialVerdicts ==
  ASSUME Sequential, ListsAreApart
  PROVE  \A s \in Services :
           /\ s \in Range(notCachedSvcs) => Verdict(s) = "build"
           /\ s \in Range(cachedSvcs) /\ s \in ready /\ ~failed[s] => Verdict(s) = "cached"
           /\ s \in Range(cachedSvcs) /\ s \notin ready /\ ~failed[s] => Verdict(s) = "unknown"
           /\ s \in Selected /\ s \notin processed => Verdict(s) = "unknown" /\ s \notin Range(cachedSvcs)
                                                      /\ s \notin Range(notCachedSvcs) /\ ~failed[s]
  BY DEF Sequential, ListsAreApart, InLists, Verdict

\* A service of the loop: skipped, its clone begun, or decided because the images it
\* depends on are cached and its own is not.
LEMMA SequentialCheckRefines ==
  ASSUME RefInv, SequentialCheck
  PROVE  [CC!Next]_(CC!vars)
<1>0. PICK s : s = toBuild[pos + 1]
  OBVIOUS
<1>1. CheckTypes /\ GraphIsOrdered /\ LoopInv /\ ListsAreApart /\ DependentsAreAdded
  BY DEF RefInv, LoopInv, SequentialCheck, Found, Sequential
<1>2. /\ Found /\ Sequential /\ strategy = "sequential" /\ phase = "check"
      /\ stack = <<>> /\ ~cloning /\ pos < Len(toBuild)
      /\ UNCHANGED <<dependsOn, strategy, toBuild, phase, ready, failed>>
  BY DEF SequentialCheck, Found, Sequential
<1>3. s \in Selected /\ s \in Services
  <2>1. pos \in Nat /\ toBuild \in Seq(Services)
    BY <1>1 DEF CheckTypes
  <2> QED
    BY <1>0, <1>2, <2>1 DEF Selected, Range
<1>4. Answer = "none" /\ Answer' = "none"
  BY <1>2 DEF Answer
<1>5. \A x \in Services : ~failed[x]
  BY <1>1, <1>2, NothingFailed
<1>6. CASE UNCHANGED <<cachedSvcs, notCachedSvcs>>
  <2>1. \A t \in Services : Verdict(t)' = Verdict(t)
    BY <1>2, <1>6 DEF Verdict
  <2> QED
    BY <1>2, <1>4, <2>1, Stutters
<1>7. CASE s \notin processed /\ cachedSvcs' = Append(cachedSvcs, s) /\ notCachedSvcs' = notCachedSvcs
  <2>1. Range(cachedSvcs') = Range(cachedSvcs) \cup {s}
    BY <1>1, <1>2, <1>3, <1>7, AppendAdds DEF CheckTypes
  <2>2. s \notin ready
    BY <1>1, <1>3, <1>7 DEF ListsAreApart, InLists
  <2>3. \A t \in Services : Verdict(t)' = Verdict(t)
    BY <1>2, <1>7, <2>1, <2>2 DEF Verdict
  <2> QED
    BY <1>2, <1>4, <2>3, Stutters
<1>8. CASE s \notin processed /\ notCachedSvcs' = Append(notCachedSvcs, s) /\ cachedSvcs' = cachedSvcs
  <2>1. Range(notCachedSvcs') = Range(notCachedSvcs) \cup {s}
    BY <1>1, <1>2, <1>3, <1>8, AppendAdds DEF CheckTypes
  <2>2. Verdict(s) = "unknown"
    BY <1>1, <1>2, <1>3, <1>8, SequentialVerdicts
  <2>3. Verdict(s)' = "build"
    BY <1>2, <1>3, <1>5, <2>1 DEF Verdict
  <2>4. \A t \in Services \ {s} : Verdict(t)' = Verdict(t)
    BY <1>2, <1>8, <2>1 DEF Verdict
  <2>5. DepSet(s) \subseteq Services
    BY <1>1, <1>3, DepsAreServices
  <2>6. DepSet(s) \subseteq Range(cachedSvcs) \cap ready
    BY <1>0, <1>1, <1>2, <1>8, DepsAreCached
  <2>7. \A d \in DepSet(s) : Verdict(d) = "cached"
    BY <1>1, <1>2, <1>5, <2>5, <2>6, SequentialVerdicts
  <2> QED
    BY <1>2, <1>3, <1>4, <2>2, <2>3, <2>4, <2>5, <2>7, Decides
<1> QED
  BY <1>0, <1>6, <1>7, <1>8 DEF SequentialCheck

\* The end of a clone: the service is cached, or its failure is the verdict.
LEMMA SequentialCloneRefines ==
  ASSUME RefInv, SequentialClone
  PROVE  [CC!Next]_(CC!vars)
<1>0. PICK s : s = toBuild[pos + 1]
  OBVIOUS
<1>1. CheckTypes /\ ListsAreApart /\ CloneIsLast /\ DependentsAreAdded
  BY DEF RefInv, LoopInv, SequentialClone, Sequential
<1>2. /\ Sequential /\ cloning /\ strategy = "sequential" /\ phase = "check"
      /\ UNCHANGED <<dependsOn, strategy, toBuild, phase, cachedSvcs, notCachedSvcs>>
  BY DEF SequentialClone, Sequential
<1>3. /\ pos < Len(toBuild) /\ s \in Range(cachedSvcs) /\ s \notin ready
      /\ \A x \in Services : ~failed[x]
  BY <1>0, <1>1, <1>2 DEF CloneIsLast
<1>4. s \in Selected /\ s \notin Range(notCachedSvcs)
  BY <1>1, <1>3 DEF ListsAreApart, InLists
<1>5. s \in Services /\ DepSet(s) \subseteq Services
  BY <1>1, <1>4, SelectedServices, DepsAreServices
<1>6. Answer = "none" /\ Answer' = "none"
  BY <1>2 DEF Answer
<1>7. Verdict(s) = "unknown"
  BY <1>1, <1>2, <1>3, <1>5, SequentialVerdicts
<1>8. DepSet(s) \subseteq Range(cachedSvcs) \cap ready
  BY <1>1, <1>3 DEF DependentsAreAdded
<1>9. \A d \in DepSet(s) : Verdict(d) = "cached"
  BY <1>1, <1>2, <1>3, <1>5, <1>8, SequentialVerdicts
<1>10. CASE ready' = ready \cup {s} /\ failed' = failed
  <2>1. Verdict(s)' = "cached"
    BY <1>2, <1>3, <1>4, <1>5, <1>10 DEF Verdict
  <2>2. \A t \in Services \ {s} : Verdict(t)' = Verdict(t)
    BY <1>2, <1>10 DEF Verdict
  <2> QED
    BY <1>2, <1>4, <1>5, <1>6, <1>7, <1>9, <2>1, <2>2, Decides
<1>11. CASE ready' = ready /\ failed' = [failed EXCEPT ![s] = TRUE]
  <2>1. failed'[s] /\ \A t \in Services \ {s} : failed'[t] = failed[t]
    BY <1>1, <1>5, <1>11 DEF CheckTypes
  <2>2. Verdict(s)' = "failed"
    BY <1>2, <2>1 DEF Verdict
  <2>3. \A t \in Services \ {s} : Verdict(t)' = Verdict(t)
    BY <1>2, <1>11, <2>1 DEF Verdict
  <2> QED
    BY <1>2, <1>4, <1>5, <1>6, <1>7, <1>9, <2>2, <2>3, Decides
<1> QED
  BY <1>0, <1>10, <1>11 DEF SequentialClone

\* A call of addDependentsToNotCached: a dependent is to be built because the service
\* of the call is.
LEMMA CallsRefine ==
  ASSUME RefInv, AddDependentsToNotCached
  PROVE  [CC!Next]_(CC!vars)
<1>1. CheckTypes /\ ListsAreApart /\ DependentsAreAdded
  BY DEF RefInv, LoopInv, AddDependentsToNotCached, Sequential
<1>2. /\ Sequential /\ strategy = "sequential" /\ phase = "check" /\ stack # <<>>
      /\ UNCHANGED <<dependsOn, strategy, toBuild, phase, cachedSvcs, ready, failed>>
  BY DEF AddDependentsToNotCached, Sequential
<1>3. Answer = "none" /\ Answer' = "none"
  BY <1>2 DEF Answer
<1>4. CASE notCachedSvcs' = notCachedSvcs
  <2>1. \A t \in Services : Verdict(t)' = Verdict(t)
    BY <1>2, <1>4 DEF Verdict
  <2> QED
    BY <1>2, <1>3, <2>1, Stutters
<1>5. ASSUME NEW d \in Dependents(Last(stack)), d \notin processed, d \in Selected,
             notCachedSvcs' = Append(notCachedSvcs, d)
      PROVE  CC!Next
  <2>1. d \in Services /\ Last(stack) \in DepSet(d)
    BY DEF Dependents
  <2>2. Range(notCachedSvcs') = Range(notCachedSvcs) \cup {d}
    BY <1>1, <1>2, <1>5, <2>1, AppendAdds DEF CheckTypes
  <2>3. Last(stack) \in Range(notCachedSvcs) /\ Last(stack) \in Services
    BY <1>1, <1>2, <2>1, FrontLeaves, DepsAreServices DEF DependentsAreAdded
  <2>4. Verdict(Last(stack)) = "build"
    BY <1>1, <1>2, <2>3, SequentialVerdicts
  <2>5. Verdict(d) = "unknown" /\ ~failed[d]
    BY <1>1, <1>2, <1>5, <2>1, SequentialVerdicts
  <2>6. Verdict(d)' = "build"
    BY <1>2, <2>1, <2>2, <2>5 DEF Verdict
  <2>7. \A t \in Services \ {d} : Verdict(t)' = Verdict(t)
    BY <1>2, <2>2 DEF Verdict
  <2>8. DepSet(d) \subseteq Services
    BY <1>1, <2>1, DepsAreServices
  <2> QED
    BY <1>2, <1>3, <1>5, <2>1, <2>4, <2>5, <2>6, <2>7, <2>8, Decides
<1> QED
  BY <1>4, <1>5 DEF AddDependentsToNotCached

\* The end of a check answers: Collect, SequentialFail, SequentialEnd.
LEMMA EndsRefine ==
  ASSUME RefInv, Collect \/ SequentialFail \/ SequentialEnd
  PROVE  [CC!Next]_(CC!vars)
<1>1. CheckTypes /\ PhasesInOrder
  BY DEF RefInv
<1>2. /\ phase = "check" /\ UNCHANGED <<dependsOn, strategy, toBuild, ready, pc, isCached, failed>>
  BY DEF Collect, SequentialFail, SequentialEnd, Sequential, Found, checkVars
<1>3. /\ Answer = "none" /\ toBuild # <<>> /\ strategy # "none" /\ result = "none"
      /\ Selected # {} /\ Selected \subseteq Services
  BY <1>1, <1>2, SelectedServices DEF Answer, PhasesInOrder
<1>4. strategy = "parallel" \/ UNCHANGED <<cachedSvcs, notCachedSvcs>>
  BY DEF Collect, SequentialFail, SequentialEnd
<1>5. \A s \in Services : Verdict(s)' = Verdict(s)
  BY <1>2, <1>4 DEF Verdict
<1>6. CASE phase' = "done" /\ result' = "check" /\ \E s \in Selected : failed[s]
  <2>1. Answer' = "error"
    BY <1>2, <1>3, <1>6 DEF Answer
  <2>2. \E s \in Selected : Verdict(s) = "failed"
    BY <1>3, <1>6 DEF Verdict
  <2> QED
    BY <1>2, <1>3, <1>5, <2>1, <2>2, Reports
<1>7. CASE Collect /\ phase' = "build" /\ result' = result /\ ~\E s \in Selected : failed[s]
  <2>1. Answer' = "plan"
    BY <1>2, <1>3, <1>7 DEF Answer
  <2>2. \A s \in Selected : Verdict(s) \in {"cached", "build"}
    BY <1>7 DEF Verdict, Collect
  <2> QED
    BY <1>2, <1>3, <1>5, <2>1, <2>2, Reports
<1>8. CASE SequentialEnd
  <2>1. Answer' = "plan"
    BY <1>2, <1>3, <1>8 DEF Answer, SequentialEnd
  <2>2. Sequential /\ Found /\ ~cloning /\ pos = Len(toBuild) /\ ListsAreApart /\ CloneIsLast
    BY <1>8 DEF SequentialEnd, RefInv, LoopInv, Found, Sequential
  <2>3. SUFFICES ASSUME NEW s \in Selected PROVE Verdict(s) \in {"cached", "build"}
    BY <1>2, <1>3, <1>5, <2>1, Reports
  <2>4. s \in processed
    BY <1>1, <2>2, <2>3 DEF CloneIsLast, CheckTypes, Selected, Range
  <2>5. s \in Range(cachedSvcs) \/ s \in Range(notCachedSvcs)
    BY <2>2, <2>3, <2>4 DEF ListsAreApart, InLists
  <2>6. ~failed[s]
    BY <2>2, <2>3 DEF Found
  <2>7. s \in Range(cachedSvcs) => s \in ready
    BY <2>2, <2>6 DEF CloneIsLast
  <2> QED
    BY <1>3, <2>2, <2>3, <2>5, <2>6, <2>7, SequentialVerdicts
<1> QED
  BY <1>6, <1>7, <1>8 DEF Collect, SequentialFail, Return

\* The loop that builds changes no verdict and no answer.
LEMMA BuildRefines ==
  ASSUME RefInv, BuildServiceImages \/ BuildEnd
  PROVE  [CC!Next]_(CC!vars)
<1>1. CheckTypes /\ PhasesInOrder
  BY DEF RefInv
<1>2. /\ phase = "build" /\ phase' \in {"build", "done"} /\ result' # "check"
      /\ UNCHANGED <<dependsOn, strategy, toBuild, cachedSvcs, notCachedSvcs, pc, isCached, failed>>
  BY <1>1 DEF BuildServiceImages, BuildEnd, Return, PhasesInOrder, checkVars
<1>3. result # "check"
  BY <1>1, <1>2 DEF PhasesInOrder
<1>4. Answer' = Answer
  BY <1>2, <1>3 DEF Answer
<1>5. \/ ready' = ready
      \/ strategy # "parallel" /\ \E s \in Range(notCachedSvcs) : ready' = ready \cup {s}
      \/ strategy = "parallel"
  <2>1. strategy # "parallel" /\ pos < Len(notCachedSvcs) => notCachedSvcs[pos + 1] \in Range(notCachedSvcs)
    <3>1. strategy # "parallel" => notCachedSvcs \in Seq(Services) /\ pos \in Nat
      BY <1>1 DEF CheckTypes
    <3> QED
      BY <3>1 DEF Range
  <2> QED
    BY <2>1 DEF BuildServiceImages, BuildEnd
<1>6. \A s \in Services : Verdict(s)' = Verdict(s)
  BY <1>2, <1>5 DEF Verdict
<1> QED
  BY <1>2, <1>4, <1>6, Stutters

\* Every step of a build is a step of the interface or a stutter.
LEMMA StepRefines == RefInv /\ [Next]_vars => [CC!Next]_(CC!vars)
<1> SUFFICES ASSUME RefInv, [Next]_vars PROVE [CC!Next]_(CC!vars)
  OBVIOUS
<1>1. CASE BuildGraph
  BY <1>1, GraphRefines
<1>2. CASE SequentialCheck
  BY <1>2, SequentialCheckRefines
<1>3. CASE SequentialClone
  BY <1>3, SequentialCloneRefines
<1>4. CASE AddDependentsToNotCached
  BY <1>4, CallsRefine
<1>5. CASE Collect \/ SequentialFail \/ SequentialEnd
  BY <1>5, EndsRefine
<1>6. CASE BuildServiceImages \/ BuildEnd
  BY <1>6, BuildRefines
<1>7. CASE \E s \in Services : Goroutine(s)
  BY <1>7, GoroutineRefines
<1>8. CASE UNCHANGED vars
  <2>1. UNCHANGED <<dependsOn, strategy, toBuild, phase, cachedSvcs, notCachedSvcs, ready, result, pc, isCached, failed>>
    BY <1>8 DEF vars, checkVars
  <2>2. Answer' = Answer /\ \A s \in Services : Verdict(s)' = Verdict(s)
    BY <2>1 DEF Answer, Verdict
  <2> QED
    BY <2>1, <2>2, Stutters
<1> QED
  BY <1>1, <1>2, <1>3, <1>4, <1>5, <1>6, <1>7, <1>8 DEF Next, Main

\* Both check strategies implement the interface, for any number of services and any
\* graph: with a goroutine per service or with the loop of the sequential check, no
\* image is reused on top of one that is rebuilt, and only a complete plan is given.
THEOREM StrategiesImplementCheck == Spec => ImplementsCacheCheck
  BY RefStart, RefStep, StartRefines, StepRefines, PTL DEF Spec, ImplementsCacheCheck, CC!Spec

-----------------------------------------------------------------------------
(* What the interface promises, through the refinement mapping                *)

\* A new check satisfies the invariant of the interface.
LEMMA InitCheck == CC!Init => CC!CheckInv
  BY DEF CC!Init, CC!CheckInv, CC!TypeOK, CC!OnlySelectedDecided, CC!CachedIsClosed, CC!PlanIsComplete

\* Asking, deciding and reporting preserve it.
LEMMA NextCheck == CC!CheckInv /\ [CC!Next]_(CC!vars) => CC!CheckInv'
<1> SUFFICES ASSUME CC!CheckInv, [CC!Next]_(CC!vars) PROVE CC!CheckInv'
  OBVIOUS
<1> USE DEF CC!CheckInv, CC!TypeOK, CC!OnlySelectedDecided, CC!CachedIsClosed, CC!PlanIsComplete
<1>1. ASSUME NEW svcs \in SUBSET Services, CC!Ask(svcs) PROVE CC!CheckInv'
  BY <1>1 DEF CC!Ask
<1>2. ASSUME NEW s \in Services, NEW v \in {"cached", "build", "failed"}, CC!Decide(s, v) PROVE CC!CheckInv'
  <2>1. /\ \A t \in Services : Verdict(t)' = IF t = s THEN v ELSE Verdict(t)
        /\ \A t \in Services : DepSet(t)' = DepSet(t)
        /\ Selected' = Selected /\ Answer' = Answer /\ Answer = "none"
        /\ Verdict(s) = "unknown" /\ s \in Selected
        /\ v = "cached" => \A d \in DepSet(s) : Verdict(d) = "cached"
    BY <1>2 DEF CC!Decide
  <2>2. CC!TypeOK'
    BY <2>1
  <2>3. ASSUME NEW t \in Selected, Verdict(t)' = "cached", NEW d \in DepSet(t) PROVE Verdict(d)' = "cached"
    <3>1. Verdict(d) = "cached" /\ d \in Services
      BY <2>1, <2>3
    <3> QED
      BY <2>1, <3>1
  <2>4. CC!OnlySelectedDecided'
    BY <2>1
  <2>5. CC!CachedIsClosed'
    BY <2>1, <2>3
  <2>6. CC!PlanIsComplete'
    BY <2>1
  <2> QED
    BY <2>2, <2>4, <2>5, <2>6
<1>3. ASSUME NEW a \in {"plan", "error"}, CC!Report(a) PROVE CC!CheckInv'
  BY <1>3 DEF CC!Report
<1>4. CASE UNCHANGED CC!vars
  BY <1>4 DEF CC!vars
<1> QED
  BY <1>1, <1>2, <1>3, <1>4 DEF CC!Next

\* Whatever the services depend on, and in whatever order they are decided, an image
\* is never reused on top of one that is to be rebuilt, and the plan that the build
\* is given (smartbuild/parallel.go, sequential.go) names every service and no failure.
THEOREM PlansAreSound == Spec => [](CC!CachedIsClosed /\ CC!PlanIsComplete)
<1>1. CC!CheckInv => CC!CachedIsClosed /\ CC!PlanIsComplete
  BY DEF CC!CheckInv
<1> QED
  BY <1>1, InitCheck, NextCheck, RefStart, RefStep, StartRefines, StepRefines, PTL DEF Spec
-----------------------------------------------------------------------------
(* The images are built in the order of the graph                             *)

\* The types that RefInv leaves open: the lists, the calls and the outcome.
BuildTypes ==
  /\ strategy \in Strategies
  /\ phase = "check" => pos <= Len(toBuild)
  /\ phase = "build" => pos <= Len(notCachedSvcs)
  /\ processed \subseteq Services /\ stack \in Seq(Selected) /\ cloning \in BOOLEAN
  /\ cachedSvcs \in Seq(Selected) /\ notCachedSvcs \in Seq(Selected)
  /\ ready \subseteq Selected /\ built \in Seq(Selected)
  /\ result \in {"none", "ok", "cycle", "check", "build", "expand"}

\* What the invariant says beyond RefInv.
Orders == BuildTypes /\ ListsAreSets /\ ListIsOrdered /\ ReadyIsCached /\ BuildsInOrder

\* The invariant in these two parts.
LEMMA BuildGroups == BuildIInv <=> RefInv /\ Orders
<1>1. CheckTypes => (TypeOK <=> BuildTypes)
  BY DEF CheckTypes, TypeOK, BuildTypes
<1> QED
  BY <1>1 DEF BuildIInv, RefInv, Orders

\* A list of services that are selected is a list of services.
LEMMA ListsOfServices ==
  ASSUME CheckTypes, BuildTypes
  PROVE  cachedSvcs \in Seq(Services) /\ notCachedSvcs \in Seq(Services) /\ built \in Seq(Services)
<1>1. Selected \subseteq Services
  BY SelectedServices
<1>2. \A q \in Seq(Selected) : q \in Seq(Services)
  BY <1>1
<1> QED
  BY <1>2 DEF BuildTypes

\* Append keeps a list without repetitions when the service is new.
LEMMA NoRepetition ==
  ASSUME NEW q \in Seq(Services), NEW x \in Services, x \notin Range(q),
         \A i, j \in 1..Len(q) : q[i] = q[j] => i = j
  PROVE  \A i, j \in 1..Len(q) + 1 : Append(q, x)[i] = Append(q, x)[j] => i = j
<1>1. DOMAIN q = 1..Len(q) /\ Len(q) \in Nat
  OBVIOUS
<1>2. Append(q, x)[Len(q) + 1] = x /\ \A i \in 1..Len(q) : Append(q, x)[i] = q[i]
  OBVIOUS
<1>3. \A i \in 1..Len(q) : q[i] # x
  BY <1>1 DEF Range
<1>4. \A i \in 1..Len(q) + 1 : i \in 1..Len(q) \/ i = Len(q) + 1
  BY <1>1
<1> QED
  BY <1>2, <1>3, <1>4

\* An order of a finite set has no repetitions.
LEMMA PermutationInjective ==
  ASSUME NEW S \in SUBSET Services, NEW o \in SetToSeqs(S)
  PROVE  IsInjective(o) /\ o \in Seq(S)
<1>1. /\ o \in [1..Cardinality(S) -> S]
      /\ \A i, j \in 1..Cardinality(S) : i # j => o[i] # o[j]
  BY DEF SetToSeqs
<1>2. IsFiniteSet(S) /\ Cardinality(S) \in Nat
  BY ServicesAssumption, FS_Subset, FS_CardinalityType DEF ServicesAssumption
<1> QED
  BY <1>1, <1>2 DEF IsInjective

\* Untouched lists stay as they are.
LEMMA ListsStay ==
  ASSUME ListsAreSets, ListIsOrdered, UNCHANGED <<dependsOn, strategy, cachedSvcs, notCachedSvcs>>
  PROVE  ListsAreSets' /\ ListIsOrdered'
<1>1. \A x : DepSet(x)' = DepSet(x) /\ InFrontOf(x)' = InFrontOf(x)
  BY DEF DepSet, InFrontOf
<1> QED
  BY <1>1 DEF ListsAreSets, ListIsOrdered

\* A service that the list of the sequential check gets next.
LEMMA ListGrows ==
  ASSUME CheckTypes, BuildTypes, ListsAreSets, ListIsOrdered, strategy = "sequential", NEW d \in Services,
         d \notin Range(cachedSvcs), d \notin Range(notCachedSvcs),
         DepSet(d) # {} => DepSet(d) \cap (Range(cachedSvcs) \cup Range(notCachedSvcs)) # {},
         notCachedSvcs' = Append(notCachedSvcs, d), UNCHANGED <<dependsOn, strategy, cachedSvcs>>
  PROVE  ListsAreSets' /\ ListIsOrdered'
<1>0. PICK n : n = Len(notCachedSvcs)
  OBVIOUS
<1>1. notCachedSvcs \in Seq(Services) /\ n \in Nat
  BY <1>0, ListsOfServices
<1>2. Range(notCachedSvcs') = Range(notCachedSvcs) \cup {d}
  BY <1>1, AppendAdds
<1>3. ListsAreSets'
  <2>1. \A i, j \in 1..Len(notCachedSvcs) : notCachedSvcs[i] = notCachedSvcs[j] => i = j
    BY <1>1 DEF ListsAreSets, IsInjective
  <2>2. \A i, j \in 1..Len(notCachedSvcs) + 1 : notCachedSvcs'[i] = notCachedSvcs'[j] => i = j
    BY <1>1, <2>1, NoRepetition
  <2>3. DOMAIN notCachedSvcs' = 1..Len(notCachedSvcs) + 1
    BY <1>1
  <2>4. IsInjective(notCachedSvcs')
    BY <2>2, <2>3 DEF IsInjective
  <2> QED
    BY <1>2, <2>4 DEF ListsAreSets
<1>4. /\ Len(notCachedSvcs') = n + 1 /\ notCachedSvcs'[n + 1] = d
      /\ \A i \in 1..n : notCachedSvcs'[i] = notCachedSvcs[i]
  BY <1>0, <1>1
<1>5. \A x : DepSet(x)' = DepSet(x)
  BY DEF DepSet
<1>6. ASSUME NEW i \in 1..n PROVE InFrontOf(i)' = InFrontOf(i)
  BY <1>1, <1>4 DEF InFrontOf
<1>7. ASSUME NEW m, m = n + 1 PROVE InFrontOf(m)' = Range(cachedSvcs) \cup Range(notCachedSvcs)
  <2>1. DOMAIN notCachedSvcs = 1..n /\ m - 1 = n
    BY <1>0, <1>1, <1>7
  <2>2. {notCachedSvcs'[j] : j \in 1..n} = {notCachedSvcs[j] : j \in 1..n}
    BY <1>4
  <2>3. Range(notCachedSvcs) = {notCachedSvcs[j] : j \in 1..n}
    BY <2>1 DEF Range
  <2>4. InFrontOf(m)' = Range(cachedSvcs) \cup {notCachedSvcs'[j] : j \in 1..n}
    BY <2>1 DEF InFrontOf
  <2> QED
    BY <2>2, <2>3, <2>4
<1>8. ListIsOrdered'
  <2> SUFFICES ASSUME NEW i \in 1..n + 1 PROVE
        LET deps == DepSet(notCachedSvcs'[i]) IN deps # {} => deps \cap InFrontOf(i)' # {}
    BY <1>4, <1>5 DEF ListIsOrdered
  <2>1. CASE i \in 1..n
    BY <1>0, <1>4, <1>6, <2>1 DEF ListIsOrdered
  <2>2. CASE i = n + 1
    BY <1>4, <1>7, <2>2
  <2>3. i \in 1..n \/ i = n + 1
    BY <1>1
  <2> QED
    BY <2>1, <2>2, <2>3
<1> QED
  BY <1>3, <1>8

\* The graph: nothing is built yet; without a check everything is to be built.
LEMMA GraphKeepsOrders ==
  ASSUME RefInv, Orders, BuildGraph, RefInv'
  PROVE  Orders'
<1>1. /\ phase = "graph" /\ toBuild = <<>> /\ cachedSvcs = <<>> /\ notCachedSvcs = <<>> /\ stack = <<>>
      /\ pos = 0 /\ processed = {} /\ ready = {} /\ ~cloning /\ built = <<>> /\ result = "none"
  BY DEF RefInv, PhasesInOrder, BuildGraph, Orders, BuildsInOrder
<1>2. UNCHANGED <<dependsOn, strategy, pos, cachedSvcs, ready, built, pc, isCached, processed, stack, cloning>>
  BY DEF BuildGraph, checkVars
<1>3. \/ /\ phase' = "done" /\ toBuild' = <<>> /\ notCachedSvcs' = <<>> /\ result' \in {"ok", "cycle"}
      \/ /\ phase' = "build" /\ notCachedSvcs' = toBuild' /\ result' = "none" /\ strategy = "none"
      \/ /\ phase' = "check" /\ notCachedSvcs' = <<>> /\ result' = "none"
  BY <1>1 DEF BuildGraph, Return
<1>4. toBuild' \in Seq(Services) /\ Range(<<>>) = {}
  BY DEF RefInv, CheckTypes, Range
<1>5. toBuild' \in Seq(Selected')
  BY <1>4 DEF Selected, Range
<1>6. BuildTypes'
  <2>1. <<>> \in Seq(Selected') /\ Len(<<>>) = 0 /\ Len(toBuild') \in Nat
    BY <1>4
  <2>2. notCachedSvcs' \in Seq(Selected') /\ Len(notCachedSvcs') \in Nat
    <3>1. notCachedSvcs' = <<>> \/ notCachedSvcs' = toBuild'
      BY <1>3
    <3>2. CASE notCachedSvcs' = <<>>
      BY <2>1, <3>2
    <3>3. CASE notCachedSvcs' = toBuild'
      BY <1>5, <2>1, <3>3
    <3> QED
      BY <3>1, <3>2, <3>3
  <2>3. result' \in {"none", "ok", "cycle", "check", "build", "expand"}
    BY <1>3
  <2>4. strategy' \in Strategies
    BY <1>2 DEF Orders, BuildTypes
  <2>5. pos' <= Len(toBuild') /\ pos' <= Len(notCachedSvcs')
    BY <1>1, <1>2, <2>1, <2>2
  <2>6. stack' \in Seq(Selected') /\ cachedSvcs' \in Seq(Selected') /\ built' \in Seq(Selected')
    BY <1>1, <1>2, <2>1
  <2>7. processed' \subseteq Services /\ ready' \subseteq Selected' /\ cloning' \in BOOLEAN
    BY <1>1, <1>2 DEF Orders, BuildTypes
  <2> QED
    BY <2>2, <2>3, <2>4, <2>5, <2>6, <2>7 DEF BuildTypes
<1>7. IsInjective(notCachedSvcs')
  <2>1. CASE notCachedSvcs' = <<>>
    BY <2>1 DEF IsInjective
  <2>2. CASE strategy = "none" /\ phase' = "build"
    <3>1. PICK asked \in SUBSET Services : toBuild' \in Ordered(GetDependentNodes(asked))
      BY <2>2 DEF BuildGraph, Return
    <3>2. GetDependentNodes(asked) \in SUBSET Services
      BY DEF GetDependentNodes
    <3>3. toBuild' \in SetToSeqs(GetDependentNodes(asked))
      BY <3>1 DEF Ordered
    <3> QED
      BY <1>3, <2>2, <3>2, <3>3, PermutationInjective
  <2> QED
    BY <1>3, <2>1, <2>2
<1>8. ListsAreSets'
  BY <1>1, <1>2, <1>4, <1>7 DEF ListsAreSets
<1>9. ListIsOrdered'
  <2>1. CASE notCachedSvcs' = <<>>
    BY <2>1 DEF ListIsOrdered
  <2>2. CASE strategy = "none" /\ notCachedSvcs' = toBuild'
    <3>0. \A x : DepSet(x)' = DepSet(x)
      BY <1>2 DEF DepSet
    <3> SUFFICES ASSUME NEW i \in 1..Len(notCachedSvcs'), NEW d \in DepSet(notCachedSvcs'[i])
                 PROVE  d \in {notCachedSvcs'[j] : j \in 1..i - 1}
      BY <1>2, <2>2, <3>0 DEF ListIsOrdered, InFrontOf
    <3>g. /\ \A x \in Selected' : DepSet(x) \subseteq Selected'
          /\ \A k, l \in 1..Len(toBuild') : toBuild'[k] \in DepSet(toBuild'[l]) => k < l
      BY <3>0 DEF RefInv, GraphIsOrdered
    <3>1. DOMAIN toBuild' = 1..Len(toBuild') /\ Len(toBuild') \in Nat
      BY <1>4
    <3>2. notCachedSvcs'[i] \in Selected'
      BY <2>2, <3>1 DEF Selected, Range
    <3>3. d \in Selected'
      BY <3>2, <3>g
    <3>4. PICK j \in 1..Len(toBuild') : toBuild'[j] = d
      BY <3>1, <3>3 DEF Selected, Range
    <3>5. j < i
      BY <2>2, <3>4, <3>g
    <3> QED
      BY <2>2, <3>1, <3>4, <3>5
  <2> QED
    BY <1>3, <2>1, <2>2
<1>10. ReadyIsCached'
  BY <1>1, <1>2, <1>3 DEF Orders, ReadyIsCached
<1>11. BuildsInOrder'
  <2>1. InLists' = Range(notCachedSvcs')
    BY <1>1, <1>2, <1>4 DEF InLists
  <2> QED
    BY <1>1, <1>2, <1>3, <1>4, <1>5, <2>1 DEF BuildsInOrder, Selected
<1> QED
  BY <1>6, <1>8, <1>9, <1>10, <1>11 DEF Orders

\* The goroutine of a service touches no list; it knows the image that it clones.
LEMMA GoroutinesKeepOrders ==
  ASSUME RefInv, Orders, NEW s \in Services, Goroutine(s)
  PROVE  Orders'
<1>1. /\ phase = "check" /\ strategy = "parallel" /\ s \in Selected /\ pc[s] # "closed"
      /\ UNCHANGED <<dependsOn, strategy, toBuild, phase, pos, cachedSvcs, notCachedSvcs, built, result,
                     processed, stack, cloning>>
  BY DEF Goroutine, WaitDependency, IsCached, CloneGlobalImageToDev, Parallel
<1>2. Selected' = Selected /\ InLists' = InLists
  BY <1>1 DEF Selected, InLists
<1>3. /\ isCached \in [Services -> BOOLEAN] /\ pc \in [Services -> {"wait", "clone", "closed"}]
      /\ result = "none" /\ built = <<>>
  BY <1>1 DEF RefInv, CheckTypes, PhasesInOrder, Orders, BuildsInOrder
<1>4. \/ isCached' = isCached /\ ready' = ready /\ \A t \in Services : pc[t] = "closed" => pc'[t] = "closed"
      \/ Close(s, FALSE, FALSE) /\ ready' = ready
      \/ Close(s, TRUE, FALSE) /\ ready' = ready \cup {s}
      \/ Close(s, FALSE, TRUE) /\ ready' = ready
  BY <1>3 DEF Goroutine, WaitDependency, IsCached, CloneGlobalImageToDev
<1>5. ready' = ready \/ ready' = ready \cup {s}
  BY <1>4
<1>6. BuildTypes'
  BY <1>1, <1>2, <1>5 DEF Orders, BuildTypes
<1>7. ListsAreSets' /\ ListIsOrdered'
  BY <1>1, ListsStay DEF Orders
<1>8. ReadyIsCached'
  <2>1. ~isCached[s] /\ s \notin ready
    BY <1>1 DEF Orders, ReadyIsCached
  <2>2. CASE isCached' = isCached /\ ready' = ready /\ \A t \in Services : pc[t] = "closed" => pc'[t] = "closed"
    BY <1>1, <2>2 DEF Orders, ReadyIsCached
  <2>3. ASSUME NEW b \in BOOLEAN, NEW e \in BOOLEAN, Close(s, b, e), ready' = IF b THEN ready \cup {s} ELSE ready
        PROVE  ReadyIsCached'
    <3>1. /\ isCached'[s] = b /\ \A t \in Services \ {s} : isCached'[t] = isCached[t]
          /\ pc'[s] = "closed" /\ \A t \in Services \ {s} : pc'[t] = pc[t]
      BY <1>3, <2>3 DEF Close
    <3> QED
      BY <1>1, <2>1, <2>3, <3>1 DEF Orders, ReadyIsCached
  <2> QED
    BY <1>4, <2>2, <2>3
<1>9. BuildsInOrder'
  BY <1>1, <1>2, <1>3 DEF Orders, BuildsInOrder
<1> QED
  BY <1>6, <1>7, <1>8, <1>9 DEF Orders

\* The lists of the parallel check: in the order of the graph.
LEMMA CollectKeepsOrders ==
  ASSUME RefInv, Orders, Collect
  PROVE  Orders'
<1>1. /\ phase = "check" /\ strategy = "parallel" /\ toBuild \in Seq(Services) /\ Selected \subseteq Services
      /\ UNCHANGED <<dependsOn, strategy, toBuild, pos, ready, built, processed, stack, cloning, pc, isCached>>
  BY SelectedServices DEF Collect, checkVars, RefInv, CheckTypes
<1>2. Selected' = Selected /\ \A x : DepSet(x)' = DepSet(x)
  BY <1>1 DEF Selected, DepSet
<1>3. built = <<>> /\ result = "none" /\ pos = 0 /\ ready = {s \in Selected : isCached[s]}
  BY <1>1 DEF Orders, BuildsInOrder, ReadyIsCached, BuildTypes, RefInv, PhasesInOrder
<1>4. CASE phase' = "done" /\ result' = "check" /\ UNCHANGED <<cachedSvcs, notCachedSvcs>>
  <2>1. BuildTypes'
    BY <1>1, <1>2, <1>4 DEF Orders, BuildTypes
  <2>2. ListsAreSets' /\ ListIsOrdered'
    BY <1>1, <1>4, ListsStay DEF Orders
  <2>3. ReadyIsCached'
    BY <1>4 DEF ReadyIsCached
  <2>4. BuildsInOrder'
    BY <1>1, <1>2, <1>3, <1>4 DEF Orders, BuildsInOrder
  <2> QED
    BY <2>1, <2>2, <2>3, <2>4 DEF Orders
<1>5. CASE /\ cachedSvcs' \in InGraphOrder({s \in Selected : isCached[s]})
           /\ notCachedSvcs' \in InGraphOrder({s \in Selected : ~isCached[s]})
           /\ phase' = "build" /\ result' = result
  <2> DEFINE C == {s \in Selected : isCached[s]}
             N == {s \in Selected : ~isCached[s]}
  <2>1. C \in SUBSET Services /\ N \in SUBSET Services /\ C \cup N = Selected /\ C \cap N = {}
    BY <1>1
  <2>2. cachedSvcs' \in SetToSeqs(C) /\ notCachedSvcs' \in SetToSeqs(N)
    BY <1>5 DEF InGraphOrder
  <2>3. /\ Range(cachedSvcs') = C /\ Range(notCachedSvcs') = N
        /\ cachedSvcs' \in Seq(C) /\ notCachedSvcs' \in Seq(N) /\ IsInjective(notCachedSvcs')
    BY <2>1, <2>2, Permutation, PermutationInjective
  <2>4. cachedSvcs' \in Seq(Selected) /\ notCachedSvcs' \in Seq(Selected)
    <3>1. C \subseteq Selected /\ N \subseteq Selected
      OBVIOUS
    <3> HIDE DEF C, N
    <3> QED
      BY <2>3, <3>1
  <2>5. BuildTypes'
    BY <1>1, <1>2, <1>3, <1>5, <2>4 DEF Orders, BuildTypes
  <2>6. ListsAreSets'
    BY <2>1, <2>3 DEF ListsAreSets
  <2>7. ListIsOrdered'
    <3> SUFFICES ASSUME NEW i \in 1..Len(notCachedSvcs'), NEW d \in DepSet(notCachedSvcs'[i]), d \notin C
                 PROVE  d \in {notCachedSvcs'[j] : j \in 1..i - 1}
      BY <1>1, <1>2, <2>3 DEF ListIsOrdered, InFrontOf
    <3>1. DOMAIN notCachedSvcs' = 1..Len(notCachedSvcs') /\ Len(notCachedSvcs') \in Nat
      BY <2>4
    <3>2. notCachedSvcs'[i] \in N
      BY <2>3, <3>1 DEF Range
    <3>3. d \in Selected
      BY <3>2 DEF RefInv, GraphIsOrdered
    <3>4. PICK j \in 1..Len(notCachedSvcs') : notCachedSvcs'[j] = d
      BY <2>3, <3>1, <3>3 DEF Range
    <3>5. \A k, l \in 1..Len(toBuild) : toBuild[k] \in DepSet(toBuild[l]) => k < l
      BY DEF RefInv, GraphIsOrdered
    <3>6. Len(toBuild) \in Nat /\ DOMAIN toBuild = 1..Len(toBuild)
      BY <1>1
    <3>7. i # j
      <4>1. PICK k \in 1..Len(toBuild) : toBuild[k] = notCachedSvcs'[i]
        BY <3>2, <3>6 DEF Selected, Range
      <4> QED
        BY <3>4, <3>5, <3>6, <4>1
    <3>8. ~(i < j)
      <4> SUFFICES ASSUME i < j PROVE FALSE
        OBVIOUS
      <4>1. PICK k, l \in 1..Len(toBuild) : k < l /\ toBuild[k] = notCachedSvcs'[i] /\ toBuild[l] = notCachedSvcs'[j]
        BY <1>5 DEF InGraphOrder
      <4>2. l < k
        BY <3>4, <3>5, <4>1
      <4> QED
        BY <3>6, <4>1, <4>2
    <3>9. j \in 1..i - 1
      BY <3>1, <3>7, <3>8
    <3> QED
      BY <3>4, <3>9
  <2>8. ReadyIsCached'
    BY <1>5 DEF ReadyIsCached
  <2>9. BuildsInOrder'
    <3>1. InLists' = Selected
      BY <2>1, <2>3 DEF InLists
    <3>2. Range(built) = {} /\ Len(built) = 0
      BY <1>3 DEF Range
    <3>3. Len(notCachedSvcs') \in Nat
      BY <2>4
    <3> QED
      BY <1>1, <1>2, <1>3, <1>5, <2>3, <3>1, <3>2, <3>3 DEF BuildsInOrder
  <2> QED
    BY <2>5, <2>6, <2>7, <2>8, <2>9 DEF Orders
<1> QED
  BY <1>4, <1>5 DEF Collect, Return

\* One service of the sequential loop: it is listed when all it is built from is cached.
LEMMA CheckKeepsOrders ==
  ASSUME RefInv, Orders, SequentialCheck
  PROVE  Orders'
<1>0. PICK s : s = toBuild[pos + 1]
  OBVIOUS
<1>1. /\ phase = "check" /\ strategy = "sequential" /\ Found /\ stack = <<>> /\ ~cloning /\ pos < Len(toBuild)
      /\ UNCHANGED <<dependsOn, strategy, toBuild, phase, ready, built, result>>
  BY DEF SequentialCheck, Found, Sequential
<1>2. /\ ListsAreApart /\ CloneIsLast /\ DependentsAreAdded /\ CheckTypes /\ GraphIsOrdered
      /\ BuildTypes /\ ListsAreSets /\ ListIsOrdered /\ built = <<>> /\ result = "none"
  BY <1>1 DEF RefInv, LoopInv, Orders, BuildsInOrder, PhasesInOrder
<1>3. pos \in Nat /\ Len(toBuild) \in Nat /\ toBuild \in Seq(Services)
  BY <1>2 DEF CheckTypes
<1>4. s \in Selected /\ s \in Services
  BY <1>0, <1>1, <1>3 DEF Selected, Range
<1>5. Selected' = Selected
  BY <1>1 DEF Selected
<1>6. /\ pos' = pos \/ pos' = pos + 1
      /\ processed' = processed \/ processed' = processed \cup {s}
      /\ stack' = stack \/ stack' = <<s>>
      /\ cloning' = cloning \/ cloning' = TRUE
      /\ \/ cachedSvcs' = cachedSvcs
         \/ cachedSvcs' = Append(cachedSvcs, s) /\ s \notin processed /\ notCachedSvcs' = notCachedSvcs
      /\ \/ notCachedSvcs' = notCachedSvcs
         \/ notCachedSvcs' = Append(notCachedSvcs, s) /\ s \notin processed /\ cachedSvcs' = cachedSvcs
  BY <1>0 DEF SequentialCheck
<1>7. BuildTypes'
  <2>1. pos' <= Len(toBuild')
    BY <1>1, <1>3, <1>6
  <2>2. processed' \subseteq Services /\ cloning' \in BOOLEAN
    BY <1>2, <1>4, <1>6 DEF BuildTypes
  <2>3. stack' \in Seq(Selected)
    <3>1. <<s>> \in Seq(Selected) /\ stack \in Seq(Selected)
      BY <1>2, <1>4 DEF BuildTypes
    <3> QED
      BY <1>6, <3>1
  <2>4. cachedSvcs' \in Seq(Selected) /\ notCachedSvcs' \in Seq(Selected)
    <3>1. cachedSvcs \in Seq(Selected) /\ notCachedSvcs \in Seq(Selected)
      BY <1>2 DEF BuildTypes
    <3>2. Append(cachedSvcs, s) \in Seq(Selected) /\ Append(notCachedSvcs, s) \in Seq(Selected)
      BY <1>4, <3>1
    <3> QED
      BY <1>6, <3>1, <3>2
  <2> QED
    BY <1>1, <1>2, <1>5, <2>1, <2>2, <2>3, <2>4 DEF BuildTypes
<1>8. s \notin processed => s \notin Range(cachedSvcs) /\ s \notin Range(notCachedSvcs)
  BY <1>2 DEF ListsAreApart, InLists
<1>9. ListsAreSets' /\ ListIsOrdered'
  <2>1. CASE UNCHANGED <<cachedSvcs, notCachedSvcs>>
    BY <1>1, <1>2, <2>1, ListsStay
  <2>2. CASE notCachedSvcs' = Append(notCachedSvcs, s) /\ s \notin processed /\ cachedSvcs' = cachedSvcs
    <3>1. DepSet(s) \subseteq Range(cachedSvcs)
      <4>1. LoopInv
        BY DEF RefInv
      <4> QED
        BY <1>0, <1>1, <1>2, <2>2, <4>1, DepsAreCached
    <3> QED
      BY <1>1, <1>2, <1>4, <1>8, <2>2, <3>1, ListGrows
  <2>3. CASE cachedSvcs' = Append(cachedSvcs, s) /\ s \notin processed /\ notCachedSvcs' = notCachedSvcs
    <3>1. Range(cachedSvcs') = Range(cachedSvcs) \cup {s}
      BY <1>2, <1>4, <2>3, ListsOfServices, AppendAdds
    <3>2. ListsAreSets'
      BY <1>2, <1>8, <2>3, <3>1 DEF ListsAreSets
    <3>3. \A i : InFrontOf(i) \subseteq InFrontOf(i)' /\ DepSet(i)' = DepSet(i)
      BY <1>1, <2>3, <3>1 DEF InFrontOf, DepSet
    <3>4. ListIsOrdered'
      BY <1>1, <1>2, <2>3, <3>3 DEF ListIsOrdered
    <3> QED
      BY <3>2, <3>4
  <2> QED
    BY <1>6, <2>1, <2>2, <2>3
<1>10. ReadyIsCached'
  BY <1>1 DEF ReadyIsCached
<1>11. BuildsInOrder'
  <2>1. Len(built') = 0 /\ Len(notCachedSvcs') \in Nat
    BY <1>1, <1>2, <1>7 DEF BuildTypes
  <2> QED
    BY <1>1, <1>2, <2>1 DEF BuildsInOrder
<1> QED
  BY <1>7, <1>9, <1>10, <1>11 DEF Orders

\* The end of a clone touches no list.
LEMMA CloneKeepsOrders ==
  ASSUME RefInv, Orders, SequentialClone
  PROVE  Orders'
<1>1. /\ phase = "check" /\ strategy = "sequential" /\ cloning
      /\ UNCHANGED <<dependsOn, strategy, toBuild, phase, cachedSvcs, notCachedSvcs, built, result, processed, stack>>
  BY DEF SequentialClone, Sequential
<1>2. /\ CloneIsLast /\ ListsAreApart /\ CheckTypes /\ BuildTypes /\ ListsAreSets /\ ListIsOrdered
      /\ built = <<>> /\ result = "none"
  BY <1>1 DEF RefInv, LoopInv, Orders, BuildsInOrder, PhasesInOrder
<1>3. pos \in Nat /\ Len(toBuild) \in Nat /\ pos < Len(toBuild) /\ toBuild[pos + 1] \in Selected
  BY <1>1, <1>2 DEF CheckTypes, CloneIsLast, ListsAreApart, InLists
<1>4. Selected' = Selected
  BY <1>1 DEF Selected
<1>5. /\ pos' = pos \/ pos' = pos + 1
      /\ ready' = ready \/ ready' = ready \cup {toBuild[pos + 1]}
      /\ cloning' = FALSE
  BY DEF SequentialClone
<1>6. BuildTypes'
  <2>1. pos' <= Len(toBuild)
    BY <1>3, <1>5
  <2>2. ready' \subseteq Selected
    BY <1>2, <1>3, <1>5 DEF BuildTypes
  <2> QED
    BY <1>1, <1>2, <1>4, <1>5, <2>1, <2>2 DEF BuildTypes
<1>7. ListsAreSets' /\ ListIsOrdered'
  BY <1>1, <1>2, ListsStay
<1>8. ReadyIsCached'
  BY <1>1 DEF ReadyIsCached
<1>9. BuildsInOrder'
  BY <1>1, <1>2 DEF Orders, BuildsInOrder
<1> QED
  BY <1>6, <1>7, <1>8, <1>9 DEF Orders

\* A dependent is listed behind the service of the call that found it.
LEMMA CallsKeepOrders ==
  ASSUME RefInv, Orders, AddDependentsToNotCached
  PROVE  Orders'
<1> DEFINE left == Dependents(Last(stack)) \ processed
<1>1. /\ phase = "check" /\ strategy = "sequential" /\ stack # <<>>
      /\ UNCHANGED <<dependsOn, strategy, toBuild, phase, pos, cachedSvcs, ready, built, result, cloning>>
  BY DEF AddDependentsToNotCached, Sequential
<1>2. /\ DependentsAreAdded /\ ListsAreApart /\ CheckTypes /\ BuildTypes /\ ListsAreSets /\ ListIsOrdered
      /\ built = <<>> /\ result = "none"
  BY <1>1 DEF RefInv, LoopInv, Orders, BuildsInOrder, PhasesInOrder
<1>3. Selected' = Selected
  BY <1>1 DEF Selected
<1>4. stack \in Seq(Selected) /\ stack \in Seq(Services)
  BY <1>2 DEF BuildTypes, DependentsAreAdded
<1>5. CASE left = {} /\ stack' = Front(stack) /\ UNCHANGED <<processed, notCachedSvcs>>
  <2>1. Front(stack) \in Seq(Selected)
    BY <1>1, <1>4 DEF Front
  <2>2. BuildTypes'
    BY <1>1, <1>2, <1>3, <1>5, <2>1 DEF BuildTypes
  <2>3. ListsAreSets' /\ ListIsOrdered'
    BY <1>1, <1>2, <1>5, ListsStay
  <2> QED
    BY <1>1, <1>2, <1>5, <2>2, <2>3 DEF Orders, ReadyIsCached, BuildsInOrder
<1>6. ASSUME NEW d \in left, processed' = processed \cup {d}, d \notin Selected,
             UNCHANGED <<notCachedSvcs, stack>>
      PROVE  Orders'
  <2>1. d \in Services
    BY DEF Dependents
  <2>2. BuildTypes'
    BY <1>1, <1>2, <1>3, <1>6, <2>1 DEF BuildTypes
  <2>3. ListsAreSets' /\ ListIsOrdered'
    BY <1>1, <1>2, <1>6, ListsStay
  <2> QED
    BY <1>1, <1>2, <1>6, <2>2, <2>3 DEF Orders, ReadyIsCached, BuildsInOrder
<1>7. ASSUME NEW d \in left, processed' = processed \cup {d}, d \in Selected,
             notCachedSvcs' = Append(notCachedSvcs, d), stack' = Append(stack, d)
      PROVE  Orders'
  <2>1. d \in Services /\ d \notin processed /\ Last(stack) \in DepSet(d)
    BY DEF Dependents
  <2>2. notCachedSvcs' \in Seq(Selected) /\ stack' \in Seq(Selected)
    BY <1>2, <1>4, <1>7 DEF BuildTypes
  <2>3. BuildTypes'
    BY <1>1, <1>2, <1>3, <1>7, <2>1, <2>2 DEF BuildTypes
  <2>4. d \notin Range(cachedSvcs) /\ d \notin Range(notCachedSvcs)
    BY <1>2, <2>1 DEF ListsAreApart, InLists
  <2>5. Last(stack) \in Range(notCachedSvcs)
    BY <1>1, <1>2, <1>4, FrontLeaves DEF DependentsAreAdded
  <2>6. ListsAreSets' /\ ListIsOrdered'
    BY <1>1, <1>2, <1>7, <2>1, <2>4, <2>5, ListGrows
  <2>7. Len(built') = 0 /\ Len(notCachedSvcs') \in Nat
    BY <1>1, <1>2, <2>2
  <2>8. BuildsInOrder'
    BY <1>1, <1>2, <2>7 DEF BuildsInOrder
  <2> QED
    BY <1>1, <2>3, <2>6, <2>8 DEF Orders, ReadyIsCached
<1> QED
  BY <1>5, <1>6, <1>7 DEF AddDependentsToNotCached

\* The end of the sequential check: every service is in a list, the cached ones are known.
LEMMA SequentialEndKeepsOrders ==
  ASSUME RefInv, Orders, SequentialFail \/ SequentialEnd
  PROVE  Orders'
<1>1. /\ phase = "check" /\ strategy = "sequential"
      /\ UNCHANGED <<dependsOn, strategy, toBuild, cachedSvcs, notCachedSvcs, ready, built, processed, stack, cloning>>
  BY DEF SequentialFail, SequentialEnd, Found, Sequential, checkVars
<1>2. /\ CloneIsLast /\ ListsAreApart /\ CheckTypes /\ BuildTypes /\ ListsAreSets /\ ListIsOrdered
      /\ built = <<>> /\ result = "none"
  BY <1>1 DEF RefInv, LoopInv, Orders, BuildsInOrder, PhasesInOrder
<1>3. Selected' = Selected /\ InLists' = InLists
  BY <1>1 DEF Selected, InLists
<1>4. ListsAreSets' /\ ListIsOrdered'
  BY <1>1, <1>2, ListsStay
<1>5. Len(built) = 0 /\ Range(built) = {} /\ Len(notCachedSvcs) \in Nat
  BY <1>2 DEF BuildTypes, Range
<1>6. CASE phase' = "done" /\ result' = "check" /\ pos' = pos
  <2>1. BuildTypes'
    BY <1>1, <1>2, <1>3, <1>6 DEF BuildTypes
  <2>2. BuildsInOrder'
    BY <1>1, <1>2, <1>5, <1>6 DEF BuildsInOrder
  <2> QED
    BY <1>4, <1>6, <2>1, <2>2 DEF Orders, ReadyIsCached
<1>7. CASE SequentialEnd
  <2>1. /\ phase' = "build" /\ pos' = 0 /\ result' = result /\ ~cloning /\ pos = Len(toBuild)
        /\ \A s \in Selected : ~failed[s]
    BY <1>7 DEF SequentialEnd, Found
  <2>2. BuildTypes'
    BY <1>1, <1>2, <1>3, <1>5, <2>1 DEF BuildTypes
  <2>3. DOMAIN toBuild = 1..pos
    BY <1>2, <2>1 DEF CheckTypes
  <2>4. Selected \subseteq processed
    BY <1>2, <2>3 DEF CloneIsLast, Selected, Range
  <2>5. InLists = Selected
    BY <1>2, <2>4 DEF ListsAreApart
  <2>6. ready = Range(cachedSvcs)
    BY <1>2, <2>1, <2>5 DEF ListsAreApart, CloneIsLast, InLists
  <2>7. BuildsInOrder'
    BY <1>1, <1>2, <1>3, <1>5, <2>1, <2>5, <2>6 DEF BuildsInOrder
  <2> QED
    BY <1>4, <2>1, <2>2, <2>7 DEF Orders, ReadyIsCached
<1> QED
  BY <1>6, <1>7 DEF SequentialFail, Return

\* One image is built, or the command ends.
LEMMA BuildKeepsOrders ==
  ASSUME RefInv, Orders, BuildServiceImages \/ BuildEnd
  PROVE  Orders'
<1>1. /\ phase = "build"
      /\ UNCHANGED <<dependsOn, strategy, toBuild, cachedSvcs, notCachedSvcs, processed, stack, cloning>>
  BY DEF BuildServiceImages, BuildEnd, checkVars
<1>2. /\ BuildTypes /\ ListsAreSets /\ ListIsOrdered /\ CheckTypes
      /\ pos = Len(built) /\ InLists = Selected /\ result = "none"
      /\ ready = Range(cachedSvcs) \cup Range(built)
      /\ Len(built) <= Len(notCachedSvcs) /\ \A i \in 1..Len(built) : built[i] = notCachedSvcs[i]
  BY <1>1 DEF RefInv, PhasesInOrder, Orders, BuildsInOrder
<1>3. Selected' = Selected /\ InLists' = InLists
  BY <1>1 DEF Selected, InLists
<1>4. ListsAreSets' /\ ListIsOrdered'
  BY <1>1, <1>2, ListsStay
<1>5. /\ Len(built) \in Nat /\ Len(notCachedSvcs) \in Nat
      /\ DOMAIN built = 1..Len(built) /\ DOMAIN notCachedSvcs = 1..Len(notCachedSvcs)
  BY <1>2 DEF BuildTypes
<1>6. CASE UNCHANGED <<built, ready, pos>> /\ phase' = "done" /\ result' \in {"build", "expand"}
  <2>1. BuildTypes'
    BY <1>1, <1>2, <1>3, <1>6 DEF BuildTypes
  <2>2. BuildsInOrder'
    BY <1>1, <1>2, <1>3, <1>6 DEF BuildsInOrder
  <2> QED
    BY <1>4, <1>6, <2>1, <2>2 DEF Orders, ReadyIsCached
<1>7. CASE UNCHANGED <<built, ready, pos>> /\ phase' = "done" /\ result' = "ok" /\ pos = Len(notCachedSvcs)
  <2>1. BuildTypes'
    BY <1>1, <1>2, <1>3, <1>7 DEF BuildTypes
  <2>2. Range(built) = Range(notCachedSvcs)
    BY <1>2, <1>5, <1>7 DEF Range
  <2>3. ready = Selected
    BY <1>2, <2>2 DEF InLists
  <2>4. BuildsInOrder'
    BY <1>1, <1>2, <1>3, <1>7, <2>3 DEF BuildsInOrder
  <2> QED
    BY <1>4, <1>7, <2>1, <2>4 DEF Orders, ReadyIsCached
<1>8. ASSUME NEW s, s = notCachedSvcs[pos + 1], pos < Len(notCachedSvcs), built' = Append(built, s),
             ready' = ready \cup {s}, pos' = pos + 1, UNCHANGED <<phase, result>>
      PROVE  Orders'
  <2>1. s \in Selected /\ s \in Services
    BY <1>2, <1>5, <1>8, SelectedServices DEF BuildTypes
  <2>2. /\ Range(built') = Range(built) \cup {s} /\ built' \in Seq(Selected) /\ Len(built') = Len(built) + 1
        /\ built'[Len(built) + 1] = s /\ \A i \in 1..Len(built) : built'[i] = built[i]
    BY <1>2, <1>8, <2>1, ListsOfServices, AppendAdds DEF BuildTypes
  <2>3. BuildTypes'
    BY <1>1, <1>2, <1>3, <1>5, <1>8, <2>1, <2>2 DEF BuildTypes
  <2>4. \A i \in 1..Len(built') : built'[i] = notCachedSvcs'[i]
    BY <1>1, <1>2, <1>5, <1>8, <2>2
  <2>5. BuildsInOrder'
    BY <1>1, <1>2, <1>3, <1>5, <1>8, <2>2, <2>4 DEF BuildsInOrder
  <2> QED
    BY <1>1, <1>4, <1>8, <2>3, <2>5 DEF Orders, ReadyIsCached
<1> QED
  BY <1>1, <1>2, <1>6, <1>7, <1>8 DEF BuildServiceImages, BuildEnd, Return

\* A build that starts satisfies the invariant.
LEMMA BuildStart == Init => BuildIInv
<1> SUFFICES ASSUME Init PROVE Orders
  BY RefStart, BuildGroups
<1> USE DEF Init
<1>1. Range(<<>>) = {} /\ Len(<<>>) = 0 /\ <<>> \in Seq(Selected)
  BY DEF Range
<1>2. BuildTypes
  BY <1>1 DEF BuildTypes
<1>3. ListsAreSets
  BY <1>1 DEF ListsAreSets, IsInjective
<1>4. ListIsOrdered
  BY DEF ListIsOrdered
<1>5. ReadyIsCached /\ BuildsInOrder
  BY <1>1 DEF ReadyIsCached, BuildsInOrder
<1> QED
  BY <1>2, <1>3, <1>4, <1>5 DEF Orders

\* Every step of the command preserves it.
LEMMA BuildStep == BuildIInv /\ [Next]_vars => BuildIInv'
<1> SUFFICES ASSUME RefInv, Orders, [Next]_vars PROVE RefInv' /\ Orders'
  <2>1. RefInv' /\ Orders' => BuildIInv'
    BY DEF BuildIInv, RefInv, Orders, BuildTypes, TypeOK, CheckTypes
  <2> QED
    BY <2>1, BuildGroups
<1>1. RefInv'
  BY RefStep
<1>2. CASE BuildGraph
  BY <1>1, <1>2, GraphKeepsOrders
<1>3. CASE Collect
  BY <1>1, <1>3, CollectKeepsOrders
<1>4. CASE SequentialCheck
  BY <1>1, <1>4, CheckKeepsOrders
<1>5. CASE SequentialClone
  BY <1>1, <1>5, CloneKeepsOrders
<1>6. CASE AddDependentsToNotCached
  BY <1>1, <1>6, CallsKeepOrders
<1>7. CASE SequentialFail \/ SequentialEnd
  BY <1>1, <1>7, SequentialEndKeepsOrders
<1>8. CASE BuildServiceImages \/ BuildEnd
  BY <1>1, <1>8, BuildKeepsOrders
<1>9. CASE \E s \in Services : Goroutine(s)
  BY <1>1, <1>9, GoroutinesKeepOrders
<1>10. CASE UNCHANGED vars
  <2>1. UNCHANGED <<dependsOn, strategy, toBuild, phase, pos, cachedSvcs, notCachedSvcs, ready, built, result,
                    processed, stack, cloning, pc, isCached>>
    BY <1>10 DEF vars, checkVars
  <2>2. Selected' = Selected /\ InLists' = InLists
    BY <2>1 DEF Selected, InLists
  <2>3. BuildTypes'
    BY <2>1, <2>2 DEF Orders, BuildTypes
  <2>4. ListsAreSets' /\ ListIsOrdered'
    BY <2>1, ListsStay DEF Orders
  <2>5. ReadyIsCached'
    BY <2>1 DEF Orders, ReadyIsCached
  <2>6. BuildsInOrder'
    BY <2>1, <2>2 DEF Orders, BuildsInOrder
  <2> QED
    BY <1>1, <2>3, <2>4, <2>5, <2>6 DEF Orders
<1> QED
  BY <1>1, <1>2, <1>3, <1>4, <1>5, <1>6, <1>7, <1>8, <1>9, <1>10 DEF Next, Main

\* For any number of services and any depends_on, through the goroutines of the
\* parallel check, the loop of the sequential one and their lists: an image is built
\* once and after what it is built from, as far as the strategy has it, and a
\* successful `okteto build' has an image for every service.
THEOREM BuildsAlwaysFollow == Spec => []BuildsFollowTheGraph
<1>1. BuildIInv => BuildsFollowTheGraph
  <2> SUFFICES ASSUME BuildIInv PROVE BuildsFollowTheGraph
    OBVIOUS
  <2>1. /\ TypeOK /\ CheckTypes /\ BuildTypes /\ ListsAreSets /\ ListIsOrdered /\ BuildsInOrder
    BY BuildGroups DEF BuildIInv, RefInv, Orders
  <2>2. /\ Len(built) \in Nat /\ Len(notCachedSvcs) \in Nat /\ Len(built) <= Len(notCachedSvcs)
        /\ DOMAIN built = 1..Len(built) /\ DOMAIN notCachedSvcs = 1..Len(notCachedSvcs)
        /\ \A i \in 1..Len(built) : built[i] = notCachedSvcs[i]
    BY <2>1 DEF BuildTypes, BuildsInOrder
  <2>3. BuiltAfterDependencies
    <3> SUFFICES ASSUME NEW i \in 1..Len(built)
                 PROVE  IF strategy = "sequential" THEN DepSet(built[i]) # {} => DepSet(built[i]) \cap ready # {}
                                                   ELSE DepSet(built[i]) \subseteq ready
      BY <2>2 DEF BuiltAfterDependencies, Range
    <3>1. built # <<>> /\ ready = Range(cachedSvcs) \cup Range(built)
      BY <2>1, <2>2 DEF BuildsInOrder
    <3>2. \A j \in 1..i - 1 : notCachedSvcs[j] \in Range(built)
      BY <2>2 DEF Range
    <3>3. InFrontOf(i) \subseteq ready
      BY <3>1, <3>2 DEF InFrontOf
    <3>4. i \in 1..Len(notCachedSvcs) /\ built[i] = notCachedSvcs[i]
      BY <2>2
    <3> QED
      BY <2>1, <3>3, <3>4 DEF ListIsOrdered
  <2>4. IsInjective(built)
    BY <2>1, <2>2 DEF ListsAreSets, IsInjective
  <2>5. Range(built) \subseteq Range(notCachedSvcs)
    BY <2>2 DEF Range
  <2>6. NothingForgotten
    BY <2>1, <2>4, <2>5 DEF NothingForgotten, ListsAreSets, BuildsInOrder
  <2> QED
    BY <2>1, <2>3, <2>6 DEF BuildsFollowTheGraph
<1> QED
  BY <1>1, BuildStart, BuildStep, PTL DEF Spec

-----------------------------------------------------------------------------
(* The hashes by which images are found again                                *)

\* What git may say of a repository with the files Files, and how it may be asked.
Repositories(Files, Contents) ==
  [head : [Files -> Contents], index : [Files -> Contents], work : [Files -> Contents], gitignored : SUBSET Files]
GitStates ==
  [found : BOOLEAN, exists : BOOLEAN, broken : BOOLEAN, dubious : BOOLEAN, fixFails : BOOLEAN,
   project : {"root", "directory"}]
HashOptions(Files) ==
  [shouldIgnoreFiles : BOOLEAN, rules : [readable : BOOLEAN, leaveOut : SUBSET (Files \cup {"elsewhere"})]]

\* What a hash has when everything was told in time.
Staged(repo, o) == H!Restrict(repo.index, {f \in H!Tracked(repo) : ~H!IgnorerOf(o, f)})
Unstaged(repo, o) == H!Restrict(repo.work, H!filterUntracked(H!UntrackedFiles(repo), o))
Changed(repo, git, o) ==
  IF o.shouldIgnoreFiles THEN H!diffWithIgnore(repo, git, o) ELSE H!diffWithoutIgnore(repo)
IsTold(git, o, timely) ==
  /\ {"sha", "diff", "untracked"} \subseteq timely /\ git.found /\ git.exists /\ ~git.broken
  /\ git.dubious => o.shouldIgnoreFiles /\ git.project = "root"

\* The parts of a hash that are told have other lengths than a random value.
LEMMA PartsHaveLengths ==
  /\ \A x, y : Len(H!calculateRandomShaForService(x, y)) = 3
  /\ \A x, y, v, w : H!calculateRandomShaForService(x, y) = H!calculateRandomShaForService(v, w) => y = w
  /\ \A x, y : Len(<<x, y>>) = 2 /\ <<x, y>>[1] = x /\ <<x, y>>[2] = y
  /\ \A x : Len(<<x>>) = 1
  /\ Len(H!Failed) = 1
BY DEF H!calculateRandomShaForService, H!Failed

\* What a commit that is told says of git, which then works.
SaysCommit(s, repo, git, o, timely) ==
  /\ Len(s.sha) # 3 /\ s.git.exists = git.exists /\ s.git.project = git.project
  /\ git.exists => /\ s.sha = <<"index", Staged(repo, o)>>
                   /\ "sha" \in timely /\ git.found /\ s.git.found /\ ~git.broken /\ ~s.git.broken /\ ~s.git.dubious
                   /\ git.dubious => o.shouldIgnoreFiles /\ git.project = "root"

\* The commit of a hash: random, or what is staged, with a git that then works.
LEMMA CommitIsTold ==
  ASSUME NEW git \in GitStates, NEW repo, NEW Files, NEW o \in HashOptions(Files), NEW timely,
         NEW s, s = H!GetLatestDirSHA(repo, git, o, timely), s.sha # H!Failed
  PROVE  SaysCommit(s, repo, git, o, timely)
<1> USE DEF SaysCommit, HashOptions
<1> DEFINE l == H!GetLatestSHA(repo, git, o)
<1>1. s.sha = l.sha /\ s.git = l.git /\ "sha" \in timely /\ git.found
  BY DEF H!GetLatestDirSHA
<1>2. CASE ~git.exists
  <2>1. l = [sha |-> <<"commit">>, git |-> git]
    BY <1>2 DEF H!GetLatestSHA
  <2> QED
    BY <1>1, <1>2, <2>1, PartsHaveLengths
<1>3. CASE git.exists /\ ~o.shouldIgnoreFiles
  <2>1. l = [sha |-> IF H!RunPipeCommands(git) THEN <<"index", H!Restrict(repo.index, H!Tracked(repo))>> ELSE H!Failed,
             git |-> git]
    BY <1>3 DEF H!GetLatestSHA, H!GetDirContentSHA, H!getDirContentSHAWithoutIgnore
  <2>2. H!RunPipeCommands(git) /\ l.sha = <<"index", H!Restrict(repo.index, H!Tracked(repo))>> /\ l.git = git
    BY <1>1, <2>1
  <2>3. {f \in H!Tracked(repo) : ~H!IgnorerOf(o, f)} = H!Tracked(repo)
    BY <1>3 DEF H!IgnorerOf, H!NeverIgnores
  <2>4. ~git.broken /\ ~git.dubious
    BY <2>2 DEF H!RunPipeCommands
  <2> QED
    <3>1. s.sha = <<"index", Staged(repo, o)>> /\ s.git = git
      BY <1>1, <2>2, <2>3 DEF Staged
    <3>2. Len(s.sha) # 3
      BY <3>1, PartsHaveLengths
    <3> HIDE DEF l
    <3> QED
      BY <1>1, <1>3, <2>4, <3>1, <3>2
<1>4. CASE git.exists /\ o.shouldIgnoreFiles
  <2> DEFINE r == H!RunCommand(git, "project")
  <2>1. l = [sha |-> IF r.ok THEN <<"index", Staged(repo, o)>> ELSE H!Failed, git |-> r.git]
    BY <1>4 DEF H!GetLatestSHA, H!GetDirContentSHA, H!getDirContentSHAWithIgnore, Staged
  <2>2. r.ok /\ l.sha = <<"index", Staged(repo, o)>> /\ l.git = r.git
    BY <1>1, <2>1
  <2>3. /\ ~git.broken /\ ~r.git.broken /\ ~r.git.dubious /\ r.git.exists = git.exists
        /\ r.git.project = git.project /\ r.git.found = git.found /\ (git.dubious => git.project = "root")
    <3> HIDE DEF l
    <3>1. CASE ~git.dubious
      BY <2>2, <3>1 DEF H!RunCommand
    <3>2. CASE git.dubious
      <4> DEFINE fixed == [git EXCEPT !.dubious = @ /\ git.project = "directory"]
      <4>1. H!FixDubiousOwnershipConfig(git, "project") = fixed
        BY DEF H!FixDubiousOwnershipConfig
      <4>2. ~git.broken /\ r.git = fixed /\ ~fixed.dubious
        BY <2>2, <3>2, <4>1 DEF H!RunCommand
      <4>3. /\ fixed.dubious = (git.dubious /\ git.project = "directory")
            /\ fixed.broken = git.broken /\ fixed.exists = git.exists
            /\ fixed.project = git.project /\ fixed.found = git.found
        BY DEF GitStates
      <4>4. git.project = "root"
        BY <3>2, <4>2, <4>3 DEF GitStates
      <4> QED
        BY <4>2, <4>3, <4>4
    <3> QED
      BY <3>1, <3>2
  <2> QED
    <3> HIDE DEF l, r
    <3>1. s.sha = <<"index", Staged(repo, o)>> /\ s.git = r.git
      BY <1>1, <2>2
    <3>2. Len(s.sha) # 3
      BY <3>1, PartsHaveLengths
    <3> QED
      BY <1>1, <1>4, <2>3, <3>1, <3>2
<1> QED
  BY <1>2, <1>3, <1>4 DEF GitStates

\* The rest of a hash, when git works: the changes and the files that git does not track.
LEMMA DiffIsTold ==
  ASSUME NEW git, git.exists, ~git.broken, ~git.dubious, NEW repo, NEW o, NEW timely, NEW first,
         NEW d, d = H!GetDiffHash(repo, git, o, timely, first), d # H!Failed
  PROVE  /\ d = <<<<"diff", Changed(repo, git, o)>>, <<"untracked", Unstaged(repo, o)>>>>
         /\ {"diff", "untracked"} \subseteq timely
<1> DEFINE e == H!GetDiff(repo, git, o)
           u == H!calculateUntracked(repo, git, o)
<1>1. \A where : H!RunCommand(git, where) = [ok |-> TRUE, git |-> git]
  BY DEF H!RunCommand
<1>2. e.git = git /\ e.diff = <<"diff", Changed(repo, git, o)>>
  BY <1>1 DEF H!GetDiff, H!Diff, H!DiffOf, Changed
<1>3. u.git = git /\ u.content = H!getUntrackedContent(repo, git, H!filterUntracked(H!UntrackedFiles(repo), o))
  BY <1>1 DEF H!calculateUntracked, H!ListUntrackedFiles
<1>4. u.content \in {H!Failed, <<"untracked", Unstaged(repo, o)>>}
  BY <1>3 DEF H!getUntrackedContent, Unstaged
<1> DEFINE parts == <<IF "diff" \in timely THEN e.diff ELSE H!Failed,
                      IF "untracked" \in timely THEN u.content ELSE H!Failed>>
<1>5. d = IF ~git.found \/ H!Failed \in {parts[1], parts[2]} THEN H!Failed ELSE parts
  <2> HIDE DEF e, u
  <2>1. /\ (IF first = "diff" THEN e.git ELSE git) = git
        /\ (IF first = "untracked" THEN H!GetDiff(repo, u.git, o) ELSE e) = e
    BY <1>2, <1>3 DEF e
  <2> QED
    BY <2>1 DEF H!GetDiffHash, e, u
<1> HIDE DEF e, u
<1>6. parts[1] # H!Failed /\ parts[2] # H!Failed /\ d = parts
  BY <1>5
<1> QED
  BY <1>2, <1>4, <1>6

\* What a hash says: a part is random, or all was told.
SaysAll(h, service, time, repo, git, o, timely) ==
  /\ Len(h.commit) = 3 => h.commit = H!calculateRandomShaForService(service, time)
  /\ Len(h.diff) = 3 => h.diff = H!calculateRandomShaForService(service, time)
  /\ Len(h.commit) # 3 /\ Len(h.diff) # 3 =>
       /\ h.commit = <<"index", Staged(repo, o)>>
       /\ \E w : w.project = git.project
               /\ h.diff = <<<<"diff", Changed(repo, w, o)>>, <<"untracked", Unstaged(repo, o)>>>>
       /\ IsTold(git, o, timely)

\* A hash of which no part is random: everything was told in time.
LEMMA HashIsTold ==
  ASSUME NEW git \in GitStates, NEW repo, NEW Files, NEW o \in HashOptions(Files), NEW timely, NEW first,
         NEW service, NEW info, NEW time, NEW cache, service \notin DOMAIN cache,
         NEW h, h = H!hashWithBuildContext(cache, service, info, repo, git, o, timely, first, time)
  PROVE  SaysAll(h, service, time, repo, git, o, timely)
<1> USE DEF SaysAll
<1> DEFINE random == H!calculateRandomShaForService(service, time)
<1>a. PICK s : s = H!GetLatestDirSHA(repo, git, o, timely)
  OBVIOUS
<1>b. PICK d : d = H!GetDiffHash(repo, s.git, o, timely, first)
  OBVIOUS
<1>1. /\ h.commit = IF s.sha = H!Failed THEN random ELSE s.sha
      /\ h.diff = IF d = H!Failed THEN random ELSE d
  BY <1>a, <1>b DEF H!hashWithBuildContext, H!hash
<1>2. Len(random) = 3 /\ Len(H!Failed) = 1
  BY PartsHaveLengths
<1> HIDE DEF random
<1>c. ASSUME s.sha # H!Failed PROVE SaysCommit(s, repo, git, o, timely)
  BY <1>a, <1>c, CommitIsTold
<1>3. s.sha # H!Failed => Len(s.sha) # 3
  BY <1>c DEF SaysCommit
<1>4. d # H!Failed => Len(d) = 2
  <2> SUFFICES ASSUME d # H!Failed PROVE Len(d) = 2
    OBVIOUS
  <2>1. \E x, y : d = <<x, y>>
    BY <1>b DEF H!GetDiffHash
  <2> QED
    BY <2>1, PartsHaveLengths
<1>5. ASSUME Len(h.commit) # 3, Len(h.diff) # 3
      PROVE  /\ h.commit = <<"index", Staged(repo, o)>>
             /\ \E w : w.project = git.project
                     /\ h.diff = <<<<"diff", Changed(repo, w, o)>>, <<"untracked", Unstaged(repo, o)>>>>
             /\ IsTold(git, o, timely)
  <2>1. s.sha # H!Failed /\ d # H!Failed /\ h.commit = s.sha /\ h.diff = d
    BY <1>1, <1>2, <1>5
  <2> DEFINE w == s.git
  <2>2. /\ w.exists = git.exists /\ w.project = git.project
        /\ git.exists => /\ s.sha = <<"index", Staged(repo, o)>>
                         /\ "sha" \in timely /\ git.found /\ w.found /\ ~git.broken /\ ~w.broken /\ ~w.dubious
                         /\ git.dubious => o.shouldIgnoreFiles /\ git.project = "root"
    BY <1>c, <2>1 DEF SaysCommit
  <2>3. d = H!GetDiffHash(repo, w, o, timely, first)
    BY <1>b
  <2> HIDE DEF w
  <2>4. w.exists
    <3> SUFFICES ASSUME ~w.exists PROVE FALSE
      OBVIOUS
    <3> DEFINE u == H!calculateUntracked(repo, w, o)
               parts == <<IF "diff" \in timely THEN H!Failed ELSE H!Failed,
                          IF "untracked" \in timely THEN u.content ELSE H!Failed>>
    <3>1. \A g : ~g.exists => H!GetDiff(repo, g, o) = [diff |-> H!Failed, git |-> g]
      BY DEF H!GetDiff
    <3>2. u.git = w
      BY DEF H!calculateUntracked, H!ListUntrackedFiles
    <3> HIDE DEF u
    <3>3. H!GetDiff(repo, w, o).git = w /\ H!GetDiff(repo, w, o).diff = H!Failed
      BY <3>1
    <3>4. d = IF ~w.found \/ H!Failed \in {parts[1], parts[2]} THEN H!Failed ELSE parts
      BY <2>3, <3>2, <3>3 DEF H!GetDiffHash, u
    <3> QED
      BY <2>1, <3>4
  <2>5. /\ d = <<<<"diff", Changed(repo, w, o)>>, <<"untracked", Unstaged(repo, o)>>>>
        /\ {"diff", "untracked"} \subseteq timely
    BY <2>1, <2>2, <2>3, <2>4, DiffIsTold
  <2> QED
    BY <2>1, <2>2, <2>4, <2>5 DEF IsTold
<1>6. Len(h.commit) = 3 => h.commit = random
  BY <1>1, <1>3
<1>7. Len(h.diff) = 3 => h.diff = random
  BY <1>1, <1>4
<1> QED
  BY <1>5, <1>6, <1>7 DEF random

\* What is staged, changed and not tracked is what a build sees, but where a hash is
\* blind.
LEMMA PartsAreTheContent ==
  ASSUME NEW Files, NEW Contents, NEW o \in HashOptions(Files), NEW v, NEW w,
         NEW a \in Repositories(Files, Contents), NEW b \in Repositories(Files, Contents),
         v.project \in {"root", "directory"}, w.project \in {"root", "directory"},
         ~H!HashIsBlind(a, v, o), ~H!HashIsBlind(b, w, o),
         Staged(a, o) = Staged(b, o), Changed(a, v, o) = Changed(b, w, o), Unstaged(a, o) = Unstaged(b, o)
  PROVE  H!BuildContent(a, o) = H!BuildContent(b, o)
<1> DEFINE left(f) == H!IgnorerOf(o, f)
           tracked(r, f) == r.index[f] # H!Absent
           new(r, f) == r.work[f] # H!Absent /\ ~tracked(r, f) /\ f \notin r.gitignored
<1>1. \A r \in {a, b} : /\ r \in Repositories(Files, Contents)
                        /\ r.head \in [Files -> Contents] /\ r.index \in [Files -> Contents]
                        /\ r.work \in [Files -> Contents] /\ r.gitignored \subseteq Files
  BY DEF Repositories
<1>2. \A r \in {a, b} : /\ H!Tracked(r) = {f \in Files : tracked(r, f)}
                        /\ H!filterUntracked(H!UntrackedFiles(r), o) = {f \in Files : new(r, f) /\ ~left(f)}
  BY <1>1 DEF H!Tracked, H!UntrackedFiles, H!filterUntracked
<1> HIDE DEF left
<1>3. \A f \in Files : ~left(f) =>
        /\ tracked(a, f) <=> tracked(b, f)
        /\ tracked(a, f) => a.index[f] = b.index[f]
  <2> DEFINE kept(r) == {f \in Files : tracked(r, f) /\ ~left(f)}
  <2>1. \A r \in {a, b} : Staged(r, o) = [f \in kept(r) |-> r.index[f]]
    BY <1>2 DEF Staged, H!Restrict, left
  <2>2. kept(a) = kept(b) /\ \A f \in kept(a) : a.index[f] = b.index[f]
    BY <2>1
  <2> QED
    BY <2>2
<1>4. \A f \in Files : ~left(f) =>
        /\ new(a, f) <=> new(b, f)
        /\ new(a, f) => a.work[f] = b.work[f]
  <2> DEFINE kept(r) == {f \in Files : new(r, f) /\ ~left(f)}
  <2>1. \A r \in {a, b} : Unstaged(r, o) = [f \in kept(r) |-> r.work[f]]
    BY <1>2 DEF Unstaged, H!Restrict
  <2>2. kept(a) = kept(b) /\ \A f \in kept(a) : a.work[f] = b.work[f]
    BY <2>1
  <2> QED
    BY <2>2
<1>5. \A f \in Files : ~left(f) /\ tracked(a, f) => a.work[f] = b.work[f]
  <2> SUFFICES ASSUME NEW f \in Files, ~left(f), tracked(a, f) PROVE a.work[f] = b.work[f]
    OBVIOUS
  <2>1. tracked(b, f) /\ a.index[f] = b.index[f]
    BY <1>3
  <2>2. CASE ~o.shouldIgnoreFiles
    <3>1. \A r \in {a, b}, x \in {v, w} : <<f, r.index[f], r.work[f]>> \in Changed(r, x, o) <=> r.index[f] # r.work[f]
      BY <1>1, <1>2, <2>1, <2>2 DEF Changed, H!diffWithoutIgnore, H!Changes
    <3>2. \A i, j : \A r \in {a, b}, x \in {v, w} : <<f, i, j>> \in Changed(r, x, o) => i = r.index[f] /\ j = r.work[f]
      BY <2>2 DEF Changed, H!diffWithoutIgnore, H!Changes
    <3> QED
      BY <2>1, <3>1, <3>2
  <2>3. CASE o.shouldIgnoreFiles
    <3>1. a.index = a.head /\ b.index = b.head
      BY <2>3 DEF H!HashIsBlind
    <3>2. \A x \in {v, w} : ~H!IgnorerOf(o, H!resolveRelativePath(x, f))
      BY <2>3 DEF H!HashIsBlind, H!resolveRelativePath, left
    <3>3. \A r \in {a, b}, x \in {v, w} :
            <<f, r.head[f], r.work[f]>> \in Changed(r, x, o) <=> r.head[f] # r.work[f]
      BY <1>1, <1>2, <2>1, <2>3, <3>2 DEF Changed, H!diffWithIgnore, H!Changes
    <3>4. \A i, j : \A r \in {a, b}, x \in {v, w} : <<f, i, j>> \in Changed(r, x, o) => i = r.head[f] /\ j = r.work[f]
      BY <2>3 DEF Changed, H!diffWithIgnore, H!Changes
    <3> QED
      BY <2>1, <3>1, <3>3, <3>4
  <2> QED
    BY <2>2, <2>3 DEF HashOptions
<1>6. \A r \in {a, b} :
        H!BuildContent(r, o) =
          [f \in Files |->
             IF left(f) \/ (f \in r.gitignored /\ ~tracked(r, f)) THEN H!Absent ELSE r.work[f]]
  BY <1>1 DEF H!BuildContent, left
<1>7. ASSUME NEW f \in Files
      PROVE  (IF left(f) \/ (f \in a.gitignored /\ ~tracked(a, f)) THEN H!Absent ELSE a.work[f])
             = (IF left(f) \/ (f \in b.gitignored /\ ~tracked(b, f)) THEN H!Absent ELSE b.work[f])
  BY <1>3, <1>4, <1>5
<1> QED
  BY <1>6, <1>7

\* An image is reused only for the same files: the hashes of two processes, which meet
\* git in any state and order, within their time or not, are equal only when the builds
\* see the same files on disk, for any files and contents (smartbuild/hasher.go,
\* repository/local_git.go). The rest is what a hash with the rules does not see.
THEOREM EqualHashesMeanEqualFiles ==
  ASSUME NEW Files, NEW Contents, NEW o \in HashOptions(Files),
         NEW a \in Repositories(Files, Contents), NEW b \in Repositories(Files, Contents),
         NEW gitA \in GitStates, NEW gitB \in GitStates, NEW timelyA, NEW timelyB, NEW firstA, NEW firstB,
         NEW serviceA, NEW serviceB, NEW infoA, NEW infoB, NEW cacheA, NEW cacheB,
         serviceA \notin DOMAIN cacheA, serviceB \notin DOMAIN cacheB, NEW startA, NEW startB, startA # startB,
         H!hashWithBuildContext(cacheA, serviceA, infoA, a, gitA, o, timelyA, firstA, startA)
         = H!hashWithBuildContext(cacheB, serviceB, infoB, b, gitB, o, timelyB, firstB, startB)
  PROVE  \/ H!BuildContent(a, o) = H!BuildContent(b, o)
         \/ H!HashIsBlind(a, gitA, o) \/ H!HashIsBlind(b, gitB, o)
<1>1. PICK h : /\ h = H!hashWithBuildContext(cacheA, serviceA, infoA, a, gitA, o, timelyA, firstA, startA)
               /\ h = H!hashWithBuildContext(cacheB, serviceB, infoB, b, gitB, o, timelyB, firstB, startB)
  OBVIOUS
<1> DEFINE randomA == H!calculateRandomShaForService(serviceA, startA)
           randomB == H!calculateRandomShaForService(serviceB, startB)
           told(repo, git) ==
             /\ h.commit = <<"index", Staged(repo, o)>>
             /\ \E w : w.project = git.project
                     /\ h.diff = <<<<"diff", Changed(repo, w, o)>>, <<"untracked", Unstaged(repo, o)>>>>
<1>2. /\ Len(h.commit) = 3 => h.commit = randomA
      /\ Len(h.diff) = 3 => h.diff = randomA
      /\ Len(h.commit) # 3 /\ Len(h.diff) # 3 => told(a, gitA)
  <2>1. SaysAll(h, serviceA, startA, a, gitA, o, timelyA)
    BY <1>1, HashIsTold
  <2> QED
    BY <2>1 DEF SaysAll
<1>3. /\ Len(h.commit) = 3 => h.commit = randomB
      /\ Len(h.diff) = 3 => h.diff = randomB
      /\ Len(h.commit) # 3 /\ Len(h.diff) # 3 => told(b, gitB)
  <2>1. SaysAll(h, serviceB, startB, b, gitB, o, timelyB)
    BY <1>1, HashIsTold
  <2> QED
    BY <2>1 DEF SaysAll
<1>4. randomA # randomB
  BY PartsHaveLengths
<1>5. told(a, gitA) /\ told(b, gitB)
  BY <1>2, <1>3, <1>4
<1>6. Staged(a, o) = Staged(b, o)
  BY <1>5, PartsHaveLengths
<1>7. PICK v : v.project = gitA.project
               /\ h.diff = <<<<"diff", Changed(a, v, o)>>, <<"untracked", Unstaged(a, o)>>>>
  BY <1>5
<1>8. PICK w : w.project = gitB.project
               /\ h.diff = <<<<"diff", Changed(b, w, o)>>, <<"untracked", Unstaged(b, o)>>>>
  BY <1>5
<1>9. Changed(a, v, o) = Changed(b, w, o) /\ Unstaged(a, o) = Unstaged(b, o)
  BY <1>7, <1>8
<1>10. v.project \in {"root", "directory"} /\ w.project \in {"root", "directory"}
  BY <1>7, <1>8 DEF GitStates
<1>11. /\ H!HashIsBlind(a, v, o) = H!HashIsBlind(a, gitA, o)
       /\ H!HashIsBlind(b, w, o) = H!HashIsBlind(b, gitB, o)
  BY <1>7, <1>8 DEF H!HashIsBlind
<1> QED
  BY <1>6, <1>9, <1>10, <1>11, PartsAreTheContent

\* What git does not say in time is built: a later process, however it meets git, has
\* the same hash only when the first got all the parts of it in time from a git that
\* works (smartbuild/hasher.go).
THEOREM UnknownIsAlwaysBuilt ==
  ASSUME NEW Files, NEW o \in HashOptions(Files), NEW a, NEW b, NEW gitA \in GitStates, NEW gitB \in GitStates,
         NEW timelyA, NEW timelyB, NEW firstA, NEW firstB, NEW serviceA, NEW serviceB, NEW infoA, NEW infoB,
         NEW cacheA, NEW cacheB, serviceA \notin DOMAIN cacheA, serviceB \notin DOMAIN cacheB,
         NEW startA, NEW startB, startA # startB,
         H!hashWithBuildContext(cacheA, serviceA, infoA, a, gitA, o, timelyA, firstA, startA)
         = H!hashWithBuildContext(cacheB, serviceB, infoB, b, gitB, o, timelyB, firstB, startB)
  PROVE  IsTold(gitA, o, timelyA) /\ IsTold(gitB, o, timelyB)
<1>1. PICK h : /\ h = H!hashWithBuildContext(cacheA, serviceA, infoA, a, gitA, o, timelyA, firstA, startA)
               /\ h = H!hashWithBuildContext(cacheB, serviceB, infoB, b, gitB, o, timelyB, firstB, startB)
  OBVIOUS
<1>2. SaysAll(h, serviceA, startA, a, gitA, o, timelyA) /\ SaysAll(h, serviceB, startB, b, gitB, o, timelyB)
  BY <1>1, HashIsTold
<1>3. H!calculateRandomShaForService(serviceA, startA) # H!calculateRandomShaForService(serviceB, startB)
  BY PartsHaveLengths
<1> QED
  BY <1>2, <1>3 DEF SaysAll

\* The commit that a deployment is recorded with is what is on disk: nothing is staged,
\* and every file is as it is staged or is one that git is told to ignore
\* (repository.go, pkg/deployable environment).
THEOREM CommitsAreOnDisk ==
  ASSUME NEW Files, NEW Contents, NEW a \in Repositories(Files, Contents), NEW git \in GitStates, NEW timely,
         NEW given, NEW isRemote, H!addEnvVars(given, a, git, timely, isRemote)[1] = "commit"
  PROVE  /\ a.head = a.index
         /\ \A f \in Files : a.work[f] = a.index[f] \/ (f \in a.gitignored /\ a.index[f] = H!Absent)
<1>1. H!isClean(a, git, timely)
  <2>1. H!addEnvVars(given, a, git, timely, isRemote) = H!getSHA(a, git, timely)
    <3>1. <<"given">>[1] # "commit" /\ <<"random">>[1] # "commit"
      OBVIOUS
    <3>2. CASE given # H!Absent
      BY <3>1, <3>2 DEF H!addEnvVars
    <3>3. CASE given = H!Absent
      BY <3>1, <3>3 DEF H!addEnvVars
    <3> QED
      BY <3>2, <3>3
  <2>2. <<"none">>[1] # "commit"
    OBVIOUS
  <2> QED
    BY <2>1, <2>2 DEF H!getSHA
<1>2. H!Status(a, git).clean
  BY <1>1 DEF H!isClean, H!calculateIsClean
<1>3. a.head = a.index /\ H!UntrackedFiles(a) = {} /\ \A f \in H!Tracked(a) : a.work[f] = a.index[f]
  BY <1>2 DEF H!Status
<1>4. a.index \in [Files -> Contents] /\ a.work \in [Files -> Contents]
  BY DEF Repositories
<1> QED
  BY <1>3, <1>4 DEF H!Tracked, H!UntrackedFiles
=============================================================================
