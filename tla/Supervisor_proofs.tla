------------------------- MODULE Supervisor_proofs -------------------------
(***************************************************************************)
(* The safety properties of three small programs, for any number of        *)
(* processes, commands and connections and any retry limit.                *)
(*                                                                         *)
(* Supervisor: Support says where the three goroutines that write the      *)
(* state of a process can be.  PidFile: an empty file has an opener that   *)
(* is not the command that waits for events, and a pid in the file is the  *)
(* last writer's.  AgentForward: Sound says what a connection may have     *)
(* done at each point of its handler.                                      *)
(***************************************************************************)
EXTENDS Supervisor, PidFile, AgentForward, TLAPS

\* The initial state satisfies the inductive invariant.
LEMMA InitEstablishes == Init => IInv
<1> SUFFICES ASSUME Init PROVE IInv
  OBVIOUS
<1> USE ConstantsAssumption DEF ConstantsAssumption, Init
<1>1. cmd \in [Processes -> BOOLEAN] /\ alive \in [Processes -> BOOLEAN]
      /\ orphan \in [Processes -> BOOLEAN] /\ missed \in [Processes -> BOOLEAN] /\ cancelled \in BOOLEAN
  OBVIOUS
<1>2. TypeOK
  BY <1>1 DEF TypeOK
<1>3. Support
  BY DEF Support, NeedsStart
<1> QED
  BY <1>2, <1>3 DEF IInv

\* Every step of every goroutine preserves the inductive invariant.
LEMMA StepPreserves == IInv /\ [Next]_vars => IInv'
<1> SUFFICES ASSUME IInv, [Next]_vars PROVE IInv'
  OBVIOUS
<1>t. TypeOK
  BY DEF IInv
<1>s. Support
  BY DEF IInv
<1> USE ConstantsAssumption DEF ConstantsAssumption
<1>1. CASE Signal
  <2>1. TypeOK'
    BY <1>t, <1>1 DEF TypeOK, Signal, Running
  <2>2. Support'
    BY <1>t, <1>s, <1>1 DEF TypeOK, Support, Signal, Running, NeedsStart
  <2> QED
    BY <2>1, <2>2 DEF IInv
<1>2. CASE RunRound
  <2>1. TypeOK'
    BY <1>t, <1>2 DEF TypeOK, RunRound
  <2>2. Support'
    BY <1>t, <1>s, <1>2 DEF TypeOK, Support, RunRound, NeedsStart
  <2> QED
    BY <2>1, <2>2 DEF IInv
<1>3. CASE RunRoundDone
  <2>1. TypeOK'
    BY <1>t, <1>3 DEF TypeOK, RunRoundDone
  <2>2. Support'
    BY <1>t, <1>s, <1>3 DEF TypeOK, Support, RunRoundDone, NeedsStart
  <2> QED
    BY <2>1, <2>2 DEF IInv
<1>4. CASE RunReturns
  <2>1. TypeOK'
    BY <1>t, <1>4 DEF TypeOK, RunReturns
  <2>2. Support'
    BY <1>t, <1>s, <1>4 DEF TypeOK, Support, RunReturns, NeedsStart
  <2> QED
    BY <2>1, <2>2 DEF IInv
<1>5. CASE StopReturns
  <2>1. TypeOK'
    BY <1>t, <1>5 DEF TypeOK, StopReturns
  <2>2. Support'
    BY <1>t, <1>s, <1>5 DEF TypeOK, Support, StopReturns, NeedsStart
  <2> QED
    BY <2>1, <2>2 DEF IInv
<1>6. ASSUME NEW q \in Processes, ProcessEnds(q) PROVE IInv'
  <2>1. TypeOK'
    <3>1. PICK left \in BOOLEAN : orphan' = [orphan EXCEPT ![q] = @ \/ left]
      BY <1>6 DEF ProcessEnds
    <3>2. orphan' \in [Processes -> BOOLEAN] /\ alive' \in [Processes -> BOOLEAN]
      BY <1>t, <1>6, <3>1 DEF TypeOK, ProcessEnds
    <3> QED
      BY <1>t, <1>6, <3>2 DEF TypeOK, ProcessEnds, Running
  <2>2. Support'
    BY <1>t, <1>s, <1>6 DEF TypeOK, Support, ProcessEnds, Running, NeedsStart
  <2> QED
    BY <2>1, <2>2 DEF IInv
<1>7. ASSUME NEW q \in Processes, CheckNothingToDo(q) PROVE IInv'
  <2>1. TypeOK'
    BY <1>t, <1>7 DEF TypeOK, CheckNothingToDo, NeedsStart
  <2>2. Support'
    BY <1>t, <1>s, <1>7 DEF TypeOK, Support, CheckNothingToDo, NeedsStart
  <2> QED
    BY <2>1, <2>2 DEF IInv
<1>8. ASSUME NEW q \in Processes, CheckGivesUp(q) PROVE IInv'
  <2>1. TypeOK'
    BY <1>t, <1>8 DEF TypeOK, CheckGivesUp, NeedsStart, ShouldStart
  <2>2. Support'
    BY <1>t, <1>s, <1>8 DEF TypeOK, Support, CheckGivesUp, NeedsStart, ShouldStart
  <2> QED
    BY <2>1, <2>2 DEF IInv
<1>9. ASSUME NEW q \in Processes, CheckSetupFails(q) PROVE IInv'
  <2>1. TypeOK'
    <3>1. orphan' \in [Processes -> BOOLEAN] /\ missed' \in [Processes -> BOOLEAN]
      BY <1>t, <1>9 DEF TypeOK, CheckSetupFails, KillAllByName
    <3> QED
      BY <1>t, <1>9, <3>1 DEF TypeOK, CheckSetupFails, NeedsStart, ShouldStart
  <2>2. Support'
    BY <1>t, <1>s, <1>9 DEF TypeOK, Support, CheckSetupFails, NeedsStart, ShouldStart, KillAllByName
  <2> QED
    BY <2>1, <2>2 DEF IInv
<1>10. ASSUME NEW q \in Processes, CheckSends(q) PROVE IInv'
  <2>1. TypeOK'
    BY <1>t, <1>10 DEF TypeOK, CheckSends
  <2>2. Support'
    BY <1>t, <1>s, <1>10 DEF TypeOK, Support, CheckSends, NeedsStart
  <2> QED
    BY <2>1, <2>2 DEF IInv
<1>11. ASSUME NEW q \in Processes, CheckStarts(q) PROVE IInv'
  <2>1. TypeOK'
    <3>1. orphan' \in [Processes -> BOOLEAN] /\ missed' \in [Processes -> BOOLEAN]
      BY <1>t, <1>11 DEF TypeOK, CheckStarts, KillAllByName
    <3>2. alive' \in [Processes -> BOOLEAN] /\ cmd' \in [Processes -> BOOLEAN]
      BY <1>t, <1>11 DEF TypeOK, CheckStarts
    <3> QED
      BY <1>t, <1>11, <3>1, <3>2 DEF TypeOK, CheckStarts, NeedsStart, ShouldStart
  <2>2. Support'
    BY <1>t, <1>s, <1>11 DEF TypeOK, Support, CheckStarts, NeedsStart, ShouldStart, KillAllByName
  <2> QED
    BY <2>1, <2>2 DEF IInv
<1>12. ASSUME NEW q \in Processes, StartVerify(q) PROVE IInv'
  <2>1. TypeOK'
    BY <1>t, <1>12 DEF TypeOK, StartVerify
  <2>2. Support'
    BY <1>t, <1>s, <1>12 DEF TypeOK, Support, StartVerify, NeedsStart
  <2> QED
    BY <2>1, <2>2 DEF IInv
<1>13. ASSUME NEW q \in Processes, MonitorWakes(q) PROVE IInv'
  <2>1. TypeOK'
    BY <1>t, <1>13 DEF TypeOK, MonitorWakes, Running
  <2>2. Support'
    BY <1>t, <1>s, <1>13 DEF TypeOK, Support, MonitorWakes, Running, NeedsStart
  <2> QED
    BY <2>1, <2>2 DEF IInv
<1>14. ASSUME NEW q \in Processes, MonitorWrites(q) PROVE IInv'
  <2>1. TypeOK'
    BY <1>t, <1>14 DEF TypeOK, MonitorWrites, Running
  <2>2. Support'
    BY <1>t, <1>s, <1>14 DEF TypeOK, Support, MonitorWrites, Running, NeedsStart
  <2> QED
    BY <2>1, <2>2 DEF IInv
<1>15. ASSUME NEW q \in Processes, StopBegins(q) PROVE IInv'
  <2>1. TypeOK'
    BY <1>t, <1>15 DEF TypeOK, StopBegins
  <2>2. Support'
    BY <1>t, <1>s, <1>15 DEF TypeOK, Support, StopBegins, NeedsStart
  <2> QED
    BY <2>1, <2>2 DEF IInv
<1>16. ASSUME NEW q \in Processes, StopFails(q) PROVE IInv'
  <2>1. TypeOK'
    BY <1>t, <1>16 DEF TypeOK, StopFails
  <2>2. Support'
    BY <1>t, <1>s, <1>16 DEF TypeOK, Support, StopFails, NeedsStart
  <2> QED
    BY <2>1, <2>2 DEF IInv
<1>17. ASSUME NEW q \in Processes, StopEnds(q) PROVE IInv'
  <2>1. TypeOK'
    BY <1>t, <1>17 DEF TypeOK, StopEnds
  <2>2. Support'
    BY <1>t, <1>s, <1>17 DEF TypeOK, Support, StopEnds, NeedsStart
  <2> QED
    BY <2>1, <2>2 DEF IInv
<1>18. CASE UNCHANGED vars
  BY <1>t, <1>s, <1>18 DEF IInv, TypeOK, Support, NeedsStart, vars
<1> QED
  BY <1>1, <1>2, <1>3, <1>4, <1>5, <1>6, <1>7, <1>8, <1>9, <1>10, <1>11, <1>12, <1>13, <1>14, <1>15, <1>16, <1>17, <1>18 DEF Next, CheckState, MonitorProcess, StopProcess

\* The inductive invariant holds in every reachable state.
THEOREM SupervisorInvariance == Spec => []IInv
<1>1. Init => IInv
  BY InitEstablishes
<1>2. IInv /\ [Next]_vars => IInv'
  BY StepPreserves
<1> QED
  BY <1>1, <1>2, PTL DEF Spec

\* The supervisor's variables keep their types, and m.err its capacity.
THEOREM SupervisorTypes == Spec => []TypeOK
<1>1. IInv => TypeOK
  BY DEF IInv
<1> QED
  BY <1>1, SupervisorInvariance, PTL

\* A start meets no running instance, and a child of an older one only if it could not
\* be killed, for any set of processes (monitor.go:87-156, process.go:161-200).
THEOREM OneInstance == Spec => []SingleInstance
<1>1. IInv => SingleInstance
  BY DEF IInv, TypeOK, Support, SingleInstance, NeedsStart
<1> QED
  BY <1>1, SupervisorInvariance, PTL

\* A process is started at most MaxRetries times (process.go:118-120).
THEOREM RestartsAreBounded == Spec => []BoundedRestarts
<1>1. IInv => BoundedRestarts
  BY DEF IInv, Support, BoundedRestarts
<1> QED
  BY <1>1, SupervisorInvariance, PTL

\* The end of a started process always has somebody to record it
\* (process.go:122-138).
THEOREM EndsAreNoticed == Spec => []EndIsNoticed
<1>1. IInv => EndIsNoticed
  BY DEF IInv, Support, EndIsNoticed
<1> QED
  BY <1>1, SupervisorInvariance, PTL

\* When Stop has returned no process runs (monitor.go:158-170).
THEOREM NothingRunsAfterStop == Spec => []StopStopsAll
<1>1. IInv => StopStopsAll
  BY DEF IInv, Support, StopStopsAll
<1> QED
  BY <1>1, SupervisorInvariance, PTL

\* The four together, which the run checks: one instance of each process
\* (but for a child that could not be killed), a bounded
\* number of starts and no end that goes unnoticed (process.go:80-140).
THEOREM ProcessesStaySound == Spec => []ProcessesAreSound
<1>1. TypeOK /\ SingleInstance /\ BoundedRestarts /\ EndIsNoticed => ProcessesAreSound
  BY DEF ProcessesAreSound
<1> QED
  BY <1>1, SupervisorTypes, OneInstance, RestartsAreBounded, EndsAreNoticed, PTL

-----------------------------------------------------------------------------
(* The pid file (PidFile) *)

\* The initial state satisfies the pid file's inductive invariant.
LEMMA PidInitEstablishes == PidInit => PidIInv
BY PidFileValues DEF PidFileValues, PidInit, PidIInv, PidTypeOK, EmptyIsUnfinished, FileIsWriters, NotifierFollows

\* Every step of a command or of its notifier preserves it, and tells a command to leave
\* only when another one has taken over or is about to.
LEMMA PidStepPreserves ==
  PidIInv /\ [PidNext]_pidVars =>
    /\ PidIInv'
    /\ \A p \in Procs : ~told[p] /\ told'[p] => writer # p \/ \E q \in Procs \ {p} : Opening(q)
<1> SUFFICES ASSUME PidIInv, [PidNext]_pidVars
             PROVE  /\ PidIInv'
                    /\ \A p \in Procs : ~told[p] /\ told'[p] =>
                         writer # p \/ \E q \in Procs \ {p} : Opening(q)
  OBVIOUS
<1> USE PidFileValues DEF PidFileValues, PidIInv
<1>1. CASE \E p \in Procs : Start(p)
  <2> PICK p \in Procs : Start(p)
    BY <1>1
  <2>1. PidTypeOK'
    BY DEF PidTypeOK, Start, OpenTruncate
  <2>2. EmptyIsUnfinished'
    BY DEF PidTypeOK, EmptyIsUnfinished, Opening, Start, OpenTruncate
  <2>3. FileIsWriters' /\ NotifierFollows'
    BY DEF PidTypeOK, FileIsWriters, NotifierFollows, Start, OpenTruncate
  <2>4. told' = told
    BY DEF Start
  <2> QED
    BY <2>1, <2>2, <2>3, <2>4
<1>2. CASE \E p \in Procs : StartWrite(p)
  <2> PICK p \in Procs : StartWrite(p)
    BY <1>2
  <2>1. PidTypeOK'
    BY DEF PidTypeOK, StartWrite, WritePid
  <2>2. EmptyIsUnfinished'
    BY DEF PidTypeOK, EmptyIsUnfinished, Opening, StartWrite, WritePid
  <2>3. FileIsWriters' /\ NotifierFollows'
    BY DEF PidTypeOK, FileIsWriters, NotifierFollows, StartWrite, WritePid
  <2>4. told' = told
    BY DEF StartWrite
  <2> QED
    BY <2>1, <2>2, <2>3, <2>4
<1>3. CASE \E p \in Procs : AddWatch(p)
  <2> PICK p \in Procs : AddWatch(p)
    BY <1>3
  <2>1. PidTypeOK'
    BY ZenonT(60) DEF PidTypeOK, AddWatch
  <2>2. EmptyIsUnfinished'
    <3>1. file' = file /\ fd' = fd /\ st[p] = "addWatch" /\ (nt' = nt \/ nt' = [nt EXCEPT ![p] = "wait"])
      BY DEF AddWatch
    <3>2. ASSUME NEW q \in Procs, Opening(q)
          PROVE  Opening(q)'
      BY <3>1, <3>2 DEF PidTypeOK, NotifierFollows, Opening, AddWatch
    <3> QED
      BY <3>1, <3>2 DEF EmptyIsUnfinished
  <2>3. FileIsWriters' /\ NotifierFollows'
    BY DEF PidTypeOK, FileIsWriters, NotifierFollows, AddWatch
  <2>4. told' = told
    BY DEF AddWatch
  <2> QED
    BY <2>1, <2>2, <2>3, <2>4
<1>4. CASE \E p \in Procs : Delete(p)
  <2> PICK p \in Procs : Delete(p)
    BY <1>4
  <2>1. PidTypeOK'
    BY DEF PidTypeOK, Delete
  <2>2. EmptyIsUnfinished'
    BY DEF PidTypeOK, EmptyIsUnfinished, Opening, Delete
  <2>3. FileIsWriters' /\ NotifierFollows'
    BY DEF PidTypeOK, FileIsWriters, NotifierFollows, Delete
  <2>4. told' = told
    BY DEF Delete
  <2> QED
    BY <2>1, <2>2, <2>3, <2>4
<1>5. CASE \E p \in Procs : DeleteRemove(p)
  <2> PICK p \in Procs : DeleteRemove(p)
    BY <1>5
  <2>1. PidTypeOK'
    BY ZenonT(60) DEF PidTypeOK, DeleteRemove, RemoveFile
  <2>2. EmptyIsUnfinished'
    BY DEF PidTypeOK, EmptyIsUnfinished, Opening, DeleteRemove, RemoveFile
  <2>3. FileIsWriters' /\ NotifierFollows'
    BY DEF PidTypeOK, FileIsWriters, NotifierFollows, DeleteRemove, RemoveFile
  <2>4. told' = told
    BY DEF DeleteRemove
  <2> QED
    BY <2>1, <2>2, <2>3, <2>4
<1>6. CASE \E p \in Procs : NotifyWrite(p)
  <2> PICK p \in Procs : NotifyWrite(p)
    BY <1>6
  <2>1. PidTypeOK'
    BY DEF PidTypeOK, NotifyWrite, Notifying
  <2>2. EmptyIsUnfinished'
    BY DEF PidTypeOK, EmptyIsUnfinished, Opening, NotifyWrite, Notifying
  <2>3. FileIsWriters' /\ NotifierFollows'
    BY DEF PidTypeOK, FileIsWriters, NotifierFollows, NotifyWrite, Notifying
  <2>4. ASSUME NEW q \in Procs, ~told[q], told'[q]
        PROVE  writer # q \/ \E r \in Procs \ {q} : Opening(r)
    <3>1. q = p /\ file \notin {NoFile, q}
      BY <2>4 DEF PidTypeOK, NotifyWrite
    <3>2. ~Opening(q)
      BY <3>1 DEF NotifyWrite, Notifying, Opening
    <3> QED
      BY <3>1, <3>2 DEF PidTypeOK, EmptyIsUnfinished, FileIsWriters
  <2> QED
    BY <2>1, <2>2, <2>3, <2>4
<1>7. CASE \E p \in Procs : NotifyRemove(p)
  <2> PICK p \in Procs : NotifyRemove(p)
    BY <1>7
  <2>1. PidTypeOK'
    BY DEF PidTypeOK, NotifyRemove, Notifying
  <2>2. EmptyIsUnfinished'
    BY DEF PidTypeOK, EmptyIsUnfinished, Opening, NotifyRemove, Notifying
  <2>3. FileIsWriters' /\ NotifierFollows'
    BY DEF PidTypeOK, FileIsWriters, NotifierFollows, NotifyRemove, Notifying
  <2>4. told' = told
    BY DEF NotifyRemove
  <2> QED
    BY <2>1, <2>2, <2>3, <2>4
<1>8. CASE \E p \in Procs : RecreateWrite(p)
  <2> PICK p \in Procs : RecreateWrite(p)
    BY <1>8
  <2>1. PidTypeOK'
    BY DEF PidTypeOK, RecreateWrite, WritePid, Notifying
  <2>2. EmptyIsUnfinished'
    BY DEF PidTypeOK, EmptyIsUnfinished, Opening, RecreateWrite, WritePid, Notifying
  <2>3. FileIsWriters' /\ NotifierFollows'
    BY DEF PidTypeOK, FileIsWriters, NotifierFollows, RecreateWrite, WritePid, Notifying
  <2>4. told' = told
    BY DEF RecreateWrite
  <2> QED
    BY <2>1, <2>2, <2>3, <2>4
<1>9. CASE UNCHANGED pidVars
  BY <1>9 DEF pidVars, PidTypeOK, EmptyIsUnfinished, Opening, FileIsWriters, NotifierFollows
<1> QED
  BY <1>1, <1>2, <1>3, <1>4, <1>5, <1>6, <1>7, <1>8, <1>9 DEF PidNext, Notifier

\* Commands that create, truncate, remove and recreate the pid file in any order never
\* make its owner leave when nobody takes over, and the file is empty only until a
\* command that opened it goes on, for any number of commands (pid.go:73-89, 147-186).
THEOREM HandOverIsSafe == PidSpec => PidFileHandsOver
<1>1. PidInit => PidIInv
  BY PidInitEstablishes
<1>2. PidIInv /\ [PidNext]_pidVars => PidIInv'
  BY PidStepPreserves
<1>3. PidIInv /\ [PidNext]_pidVars =>
        [\A p \in Procs : ~told[p] /\ told'[p] =>
           writer # p \/ \E q \in Procs \ {p} : Opening(q)]_pidVars
  BY PidStepPreserves
<1>4. PidIInv => PidTypeOK /\ EmptyIsUnfinished
  BY DEF PidIInv
<1> QED
  BY <1>1, <1>2, <1>3, <1>4, PTL DEF PidSpec, PidFileHandsOver, NoFalseTakeover

-----------------------------------------------------------------------------
(* The forwarder of the SSH agent (AgentForward) *)

\* A connection of which nothing changes stays sound.
LEMMA OthersStaySound ==
  ASSUME NEW c \in Conns, Sound(c), handler'[c] = handler[c], localOpen'[c] = localOpen[c],
         remoteOpen'[c] = remoteOpen[c], copying'[c] = copying[c], ack'[c] = ack[c], bytes'[c] = bytes[c]
  PROVE  Sound(c)'
BY DEF Sound

\* The initial state satisfies the forwarder's inductive invariant.
LEMMA AgentInitEstablishes == AgentInit => AgentIInv
<1> SUFFICES ASSUME AgentInit PROVE AgentIInv
  OBVIOUS
<1>1. AgentTypeOK
  BY DEF AgentInit, AgentTypeOK, Handlers, BytesProgress
<1>2. ASSUME NEW c \in Conns PROVE Sound(c)
  BY DEF AgentInit, Sound, Directions
<1> QED
  BY <1>1, <1>2 DEF AgentIInv

\* Every step of the forwarder, of a peer and of the command preserves it.
LEMMA AgentStepPreserves == AgentIInv /\ [AgentNext]_agentVars => AgentIInv'
<1> SUFFICES ASSUME AgentTypeOK, \A c \in Conns : Sound(c), [AgentNext]_agentVars
             PROVE  AgentTypeOK' /\ \A c \in Conns : Sound(c)'
  BY DEF AgentIInv
<1>1. CASE Listen
  <2>1. AgentTypeOK' /\ UNCHANGED ofConnections
    BY <1>1 DEF Listen, AgentTypeOK, ofConnections
  <2> QED
    BY <2>1, OthersStaySound DEF ofConnections
<1>2. CASE Chmod
  <2>1. AgentTypeOK' /\ UNCHANGED ofConnections
    BY <1>2 DEF Chmod, AgentTypeOK, ofConnections
  <2> QED
    BY <2>1, OthersStaySound DEF ofConnections
<1>3. CASE AcceptClosed
  <2>1. AgentTypeOK' /\ UNCHANGED ofConnections
    BY <1>3 DEF AcceptClosed, AgentTypeOK, ofConnections
  <2> QED
    BY <2>1, OthersStaySound DEF ofConnections
<1>4. CASE CloseListener
  <2>1. AgentTypeOK' /\ UNCHANGED ofConnections
    BY <1>4 DEF CloseListener, AgentTypeOK, ofConnections
  <2> QED
    BY <2>1, OthersStaySound DEF ofConnections
<1>5. CASE Cancel
  <2>1. AgentTypeOK' /\ UNCHANGED ofConnections
    BY <1>5 DEF Cancel, AgentTypeOK, ofConnections
  <2> QED
    BY <2>1, OthersStaySound DEF ofConnections
<1>6. CASE \E c \in Conns : Accept(c)
  <2> PICK c \in Conns : Accept(c)
    BY <1>6
  <2>1. AgentTypeOK'
    BY DEF Accept, AgentTypeOK, Handlers, BytesProgress, Directions, ofListener, ofConnections
  <2>2. ASSUME NEW k \in Conns \ {c}
        PROVE  Sound(k)'
    BY OthersStaySound DEF Accept, AgentTypeOK, ofListener
  <2>3. Sound(c)'
    BY ZenonT(60) DEF Accept, Sound, AgentTypeOK, Handlers, BytesProgress, Directions, ofListener, ofConnections
  <2> QED
    BY <2>1, <2>2, <2>3
<1>7. CASE \E c \in Conns : Dial(c)
  <2> PICK c \in Conns : Dial(c)
    BY <1>7
  <2>1. AgentTypeOK'
    BY DEF Dial, HandlerReturns, AgentTypeOK, Handlers, BytesProgress, Directions, ofListener, ofConnections
  <2>2. ASSUME NEW k \in Conns \ {c}
        PROVE  Sound(k)'
    BY OthersStaySound DEF Dial, HandlerReturns, AgentTypeOK, ofListener
  <2>3. Sound(c)'
    <3>1. bytes[c] \in {"none", "asked"} /\ \A d \in Directions : copying[c][d] = "none"
      BY DEF Dial, Sound
    <3>2. UNCHANGED <<bytes, copying, ack>>
      BY DEF Dial
    <3>3. handler'[c] = "send token" \/ (handler'[c] = "done" /\ ~localOpen'[c] /\ ~remoteOpen'[c])
      BY DEF Dial, HandlerReturns, AgentTypeOK
    <3> QED
      BY <3>1, <3>2, <3>3 DEF Sound
  <2> QED
    BY <2>1, <2>2, <2>3
<1>8. CASE \E c \in Conns : SendToken(c)
  <2> PICK c \in Conns : SendToken(c)
    BY <1>8
  <2>1. AgentTypeOK'
    BY DEF SendToken, HandlerReturns, AgentTypeOK, Handlers, BytesProgress, Directions, ofListener, ofConnections
  <2>2. ASSUME NEW k \in Conns \ {c}
        PROVE  Sound(k)'
    BY OthersStaySound DEF SendToken, HandlerReturns, AgentTypeOK, ofListener
  <2>3. Sound(c)'
    <3>1. bytes[c] \in {"none", "asked"} /\ \A d \in Directions : copying[c][d] = "none"
      BY DEF SendToken, Sound
    <3>2. UNCHANGED <<bytes, copying, ack>>
      BY DEF SendToken
    <3>3. handler'[c] = "read ack" \/ (handler'[c] = "done" /\ ~localOpen'[c] /\ ~remoteOpen'[c])
      BY DEF SendToken, HandlerReturns, AgentTypeOK
    <3> QED
      BY <3>1, <3>2, <3>3 DEF Sound
  <2> QED
    BY <2>1, <2>2, <2>3
<1>9. CASE \E c \in Conns : ReadAck(c)
  <2> PICK c \in Conns : ReadAck(c)
    BY <1>9
  <2>1. AgentTypeOK'
    <3>1. copying' \in [Conns -> [Directions -> {"none", "copying", "close", "ended"}]]
      <4>1. copying' = copying \/ copying' = [copying EXCEPT ![c] = [d \in Directions |-> "copying"]]
        BY DEF ReadAck, StartCopies
      <4>2. [d \in Directions |-> "copying"] \in [Directions -> {"none", "copying", "close", "ended"}]
        OBVIOUS
      <4> QED
        BY <4>1, <4>2 DEF AgentTypeOK
    <3>2. ack' \in [Conns -> {"none", "OK", "other"}]
      BY DEF ReadAck, AgentTypeOK
    <3> QED
      BY ZenonT(60), <3>1, <3>2 DEF ReadAck, HandlerReturns, StartCopies, AgentTypeOK, Handlers, BytesProgress, ofListener
  <2>2. ASSUME NEW k \in Conns \ {c}
        PROVE  Sound(k)'
    BY OthersStaySound DEF ReadAck, HandlerReturns, StartCopies, AgentTypeOK, ofListener
  <2>3. Sound(c)'
    <3>1. bytes'[c] \in {"none", "asked"} /\ \A d \in Directions : copying[c][d] = "none"
      BY DEF ReadAck, Sound
    <3>2. CASE ack' = [ack EXCEPT ![c] = "OK"] /\ StartCopies(c)
      <4>1. handler'[c] = "copy" /\ ack'[c] = "OK"
        BY <3>2 DEF StartCopies, AgentTypeOK
      <4> QED
        BY <3>1, <4>1 DEF Sound
    <3>3. CASE HandlerReturns(c) /\ UNCHANGED copying
      <4>1. handler'[c] = "done" /\ ~localOpen'[c] /\ ~remoteOpen'[c]
        BY <3>3 DEF HandlerReturns, AgentTypeOK
      <4> QED
        BY <3>1, <3>3, <4>1 DEF Sound
    <3> QED
      BY <3>2, <3>3 DEF ReadAck
  <2> QED
    BY <2>1, <2>2, <2>3
<1>10. CASE \E c \in Conns : WaitReturns(c)
  <2> PICK c \in Conns : WaitReturns(c)
    BY <1>10
  <2>1. AgentTypeOK'
    BY DEF WaitReturns, HandlerReturns, AgentTypeOK, Handlers, BytesProgress, Directions, ofListener, ofConnections
  <2>2. ASSUME NEW k \in Conns \ {c}
        PROVE  Sound(k)'
    BY OthersStaySound DEF WaitReturns, HandlerReturns, AgentTypeOK, ofListener
  <2>3. Sound(c)'
    BY ZenonT(60) DEF WaitReturns, HandlerReturns, Sound, AgentTypeOK, Handlers, BytesProgress, Directions, ofListener, ofConnections
  <2> QED
    BY <2>1, <2>2, <2>3
<1>11. CASE \E c \in Conns : WatcherCloses(c)
  <2> PICK c \in Conns : WatcherCloses(c)
    BY <1>11
  <2>1. AgentTypeOK'
    BY DEF WatcherCloses, AgentTypeOK, Handlers, BytesProgress, Directions, ofListener, ofConnections
  <2>2. ASSUME NEW k \in Conns \ {c}
        PROVE  Sound(k)'
    BY OthersStaySound DEF WatcherCloses, AgentTypeOK, ofListener
  <2>3. Sound(c)'
    BY ZenonT(60) DEF WatcherCloses, Sound, AgentTypeOK, Handlers, BytesProgress, Directions, ofListener, ofConnections
  <2> QED
    BY <2>1, <2>2, <2>3
<1>12. CASE \E c \in Conns : Ask(c)
  <2> PICK c \in Conns : Ask(c)
    BY <1>12
  <2>1. AgentTypeOK'
    BY DEF Ask, AgentTypeOK, Handlers, BytesProgress, Directions, ofListener, ofConnections
  <2>2. ASSUME NEW k \in Conns \ {c}
        PROVE  Sound(k)'
    BY OthersStaySound DEF Ask, AgentTypeOK, ofListener
  <2>3. Sound(c)'
    BY ZenonT(60) DEF Ask, Sound, AgentTypeOK, Handlers, BytesProgress, Directions, ofListener, ofConnections
  <2> QED
    BY <2>1, <2>2, <2>3
<1>13. CASE \E c \in Conns : Answer(c)
  <2> PICK c \in Conns : Answer(c)
    BY <1>13
  <2>1. AgentTypeOK'
    BY DEF Answer, AgentTypeOK, Handlers, BytesProgress, Directions, ofListener, ofConnections
  <2>2. ASSUME NEW k \in Conns \ {c}
        PROVE  Sound(k)'
    BY OthersStaySound DEF Answer, AgentTypeOK, ofListener
  <2>3. Sound(c)'
    BY DEF Answer, Sound, AgentTypeOK, Handlers, BytesProgress, Directions, ofListener, ofConnections
  <2> QED
    BY <2>1, <2>2, <2>3
<1>14. CASE \E c \in Conns, d \in Directions : CopyMoves(c, d)
  <2> PICK c \in Conns, d \in Directions : CopyMoves(c, d)
    BY <1>14
  <2>1. AgentTypeOK'
    BY DEF CopyMoves, AgentTypeOK, Handlers, BytesProgress, Directions, ofListener, ofConnections
  <2>2. ASSUME NEW k \in Conns \ {c}
        PROVE  Sound(k)'
    BY OthersStaySound DEF CopyMoves, AgentTypeOK, ofListener
  <2>3. Sound(c)'
    BY ZenonT(60) DEF CopyMoves, Sound, AgentTypeOK, Handlers, BytesProgress, Directions, ofListener, ofConnections
  <2> QED
    BY <2>1, <2>2, <2>3
<1>15. CASE \E c \in Conns, d \in Directions : CopyEnds(c, d)
  <2> PICK c \in Conns, d \in Directions : CopyEnds(c, d)
    BY <1>15
  <2>1. AgentTypeOK'
    BY DEF CopyEnds, AgentTypeOK, Handlers, BytesProgress, Directions, ofListener, ofConnections
  <2>2. ASSUME NEW k \in Conns \ {c}
        PROVE  Sound(k)'
    BY OthersStaySound DEF CopyEnds, AgentTypeOK, ofListener
  <2>3. Sound(c)'
    <3>1. handler[c] = "copy" /\ ack[c] = "OK"
      BY DEF CopyEnds, Sound
    <3>2. UNCHANGED <<handler, ack>>
      BY DEF CopyEnds
    <3> QED
      BY <3>1, <3>2 DEF Sound
  <2> QED
    BY <2>1, <2>2, <2>3
<1>16. CASE \E c \in Conns, d \in Directions : CopyCloses(c, d)
  <2> PICK c \in Conns, d \in Directions : CopyCloses(c, d)
    BY <1>16
  <2>1. AgentTypeOK'
    BY DEF CopyCloses, AgentTypeOK, Handlers, BytesProgress, Directions, ofListener, ofConnections
  <2>2. ASSUME NEW k \in Conns \ {c}
        PROVE  Sound(k)'
    BY OthersStaySound DEF CopyCloses, AgentTypeOK, ofListener
  <2>3. Sound(c)'
    <3>1. handler[c] = "copy" /\ ack[c] = "OK"
      BY DEF CopyCloses, Sound
    <3>2. UNCHANGED <<handler, ack>>
      BY DEF CopyCloses
    <3> QED
      BY <3>1, <3>2 DEF Sound
  <2> QED
    BY <2>1, <2>2, <2>3
<1>17. CASE \E c \in Conns, p \in {"client", "agent"} : PeerCloses(c, p)
  <2> PICK c \in Conns, p \in {"client", "agent"} : PeerCloses(c, p)
    BY <1>17
  <2>1. AgentTypeOK'
    BY DEF PeerCloses, AgentTypeOK, Handlers, BytesProgress, Directions, ofListener, ofConnections
  <2>2. ASSUME NEW k \in Conns \ {c}
        PROVE  Sound(k)'
    BY OthersStaySound DEF PeerCloses, AgentTypeOK, ofListener
  <2>3. Sound(c)'
    BY ZenonT(60) DEF PeerCloses, Sound, AgentTypeOK, Handlers, BytesProgress, Directions, ofListener, ofConnections
  <2> QED
    BY <2>1, <2>2, <2>3
<1>18. CASE UNCHANGED agentVars
  BY <1>18, OthersStaySound DEF agentVars, AgentTypeOK
<1> QED
  BY <1>1, <1>2, <1>3, <1>4, <1>5, <1>6, <1>7, <1>8, <1>9, <1>10, <1>11, <1>12, <1>13, <1>14, <1>15, <1>16, <1>17, <1>18 DEF AgentNext, Loop, HandlerSteps, CopySteps

\* The forwarder's state keeps its types, nothing that a client writes reaches the agent
\* before it has acknowledged the token, and a handler that ended leaves no connection
\* open and no copy running, for any number of connections (ssh.go:83-204).
THEOREM ForwarderIsSafe == AgentSpec => []AgentForwards
<1>1. AgentInit => AgentIInv
  BY AgentInitEstablishes
<1>2. AgentIInv /\ [AgentNext]_agentVars => AgentIInv'
  BY AgentStepPreserves
<1>3. AgentIInv => AgentTypeOK /\ AcknowledgedFirst /\ HandlerLeavesNothing
  <2> SUFFICES ASSUME AgentTypeOK, \A c \in Conns : Sound(c)
               PROVE  AcknowledgedFirst /\ HandlerLeavesNothing
    BY DEF AgentIInv
  <2>1. AcknowledgedFirst
    BY DEF AcknowledgedFirst, Sound
  <2>2. ASSUME NEW c \in Conns, handler[c] = "done", NEW d \in Directions
        PROVE  copying[c][d] \in {"none", "ended"}
    <3>1. copying[c][d] \in {"none", "copying", "close", "ended"}
      BY DEF AgentTypeOK
    <3>2. copying[c][d] \in {"copying", "close"} => handler[c] = "copy"
      BY DEF Sound
    <3> QED
      BY <2>2, <3>1, <3>2
  <2> QED
    BY <2>1, <2>2 DEF HandlerLeavesNothing, Sound
<1> QED
  BY <1>1, <1>2, <1>3, PTL DEF AgentSpec, AgentForwards
=============================================================================
