------------------------ MODULE DevEnvironment_proofs -----------------------
(***************************************************************************)
(* The record of a development environment, for any number of deploys and  *)
(* destroys that run, fail, are interrupted or killed at the same time.    *)
(* That the status agrees with the result is not inductive: what the map   *)
(* says must be known at every place of the command that wrote it last     *)
(* (Told), which needs to know which call a command is in and what that    *)
(* call may still write (Calls).  The version that an object carries is    *)
(* what keeps a destroyed environment destroyed and a lock honoured.       *)
(***************************************************************************)
EXTENDS DevEnvironment, TLAPS

\* A record of the config map is never taken for its absence.
LEMMA NewMap ==
  ASSUME NEW s \in Statuses, NEW c \in Cmds \cup {NoMap}, NEW l \in BOOLEAN, NEW h \in BOOLEAN
  PROVE  LET m == [status |-> s, by |-> c, lock |-> l, shadow |-> h] IN m \in Maps /\ m # NoMap
  BY CommandsAssumption DEF CommandsAssumption, Maps

\* An environment before any command satisfies the invariant.
LEMMA InitEstablishes == Init => IInv
<1> SUFFICES ASSUME Init PROVE IInv
  OBVIOUS
<1> USE CommandsAssumption DEF CommandsAssumption, Init
<1>1. TypeOK
  <2>1. cm \in Maps \cup {NoMap} /\ objs \in {"none", "some", "left"} /\ overlap \in BOOLEAN
    BY NewMap DEF Statuses
  <2> QED
    BY <2>1 DEF TypeOK, Statuses, Pcs, Calling, Cmds
<1>2. Calls /\ Places
  BY DEF Calls, Calling, Places, Cmds, DestroyPcs
<1>3. Told
  BY DEF Told, Cmds
<1>4. Temporary /\ Recorded
  BY DEF Temporary, Recorded, Alive, RecordedPcs
<1> QED
  BY <1>1, <1>2, <1>3, <1>4 DEF IInv

\* Every call to the config map and every step of a command preserves it.
LEMMA StepPreserves == IInv /\ [Next]_vars => IInv'
<1> SUFFICES ASSUME IInv, [Next]_vars PROVE IInv'
  OBVIOUS
<1>t. TypeOK
  BY DEF IInv
<1>ca. Calls
  BY DEF IInv
<1>pl. Places
  BY DEF IInv
<1>to. Told
  BY DEF IInv
<1>te. Temporary
  BY DEF IInv
<1>re. Recorded
  BY DEF IInv
<1> USE CommandsAssumption DEF CommandsAssumption, Cmds, kvars, lvars, Alive, At, Goto, Finish, Start, Return,
        Statuses, Pcs, Calling, DestroyPcs, RunnerPcs, RecordedPcs, InProgress
<1>1. CASE BackendLock
  <2>0. /\ cm' \in Maps /\ cm' # NoMap
        /\ cm # NoMap => cm'.by = cm.by /\ cm'.status = cm.status /\ ~cm'.shadow
        /\ cm = NoMap => cm'.by = NoMap
    <3>1. CASE cm = NoMap
      <4>1. cm' = [status |-> "progressing", by |-> NoMap, lock |-> TRUE, shadow |-> TRUE]
        BY <3>1, <1>1 DEF BackendLock
      <4> QED
        BY <3>1, <4>1, NewMap DEF Statuses
    <3>2. CASE cm # NoMap
      <4>1. cm \in Maps
        BY <1>t, <3>2 DEF TypeOK
      <4>2. cm' = [cm EXCEPT !.lock = ~cm.lock, !.shadow = FALSE]
        BY <3>2, <1>1 DEF BackendLock
      <4> QED
        BY <3>2, <4>1, <4>2 DEF Maps
    <3> QED
      BY <3>1, <3>2
  <2>7. copy' \in [Cmds -> {"none", "new", "stale"}]
        /\ \A d \in Cmds : copy[d] # "none" => copy'[d] # "none" /\ (copy'[d] = "new" => copy[d] = "new")
    BY <1>t, <1>1 DEF TypeOK, BackendLock
  <2>1. TypeOK'
    BY <1>t, <2>0, <2>7, <1>1 DEF TypeOK, BackendLock
  <2>2. Calls'
    BY <1>t, <1>ca, <2>0, <2>7, <1>1 DEF TypeOK, Calls, BackendLock
  <2>3. Places'
    BY <1>t, <1>pl, <1>1 DEF Places, TypeOK, BackendLock
  <2>4. Told'
    BY <1>t, <1>to, <2>0, <1>1 DEF Told, BackendLock
  <2>5. Temporary'
    BY <1>t, <1>te, <1>1 DEF Temporary, TypeOK, BackendLock
  <2>6. Recorded'
    BY <1>re, <2>0, <1>1 DEF Recorded, BackendLock
  <2> QED
    BY <2>1, <2>2, <2>3, <2>4, <2>5, <2>6 DEF IInv
<1>2. ASSUME NEW c \in Cmds, BeginDeploy(c) PROVE IInv'
  <2>1. TypeOK'
    BY <1>t, <1>2 DEF TypeOK, BeginDeploy, StartProcess
  <2>2. Calls'
    BY <1>t, <1>ca, <1>pl, <1>2 DEF Calls, Places, TypeOK, BeginDeploy, StartProcess, Maps
  <2>3. Places'
    BY <1>t, <1>pl, <1>2 DEF Places, TypeOK, BeginDeploy, StartProcess
  <2>4. Told'
    BY <1>t, <1>to, <1>ca, <1>pl, <1>2 DEF Told, Calls, Places, TypeOK, BeginDeploy,
       StartProcess, Maps
  <2>5. Temporary'
    BY <1>t, <1>te, <1>pl, <1>2 DEF Temporary, Places, TypeOK, BeginDeploy, StartProcess,
       Maps
  <2>6. Recorded'
    <3> SUFFICES ASSUME ~overlap' PROVE Recorded'
      BY DEF Recorded
    <3>1. ~overlap /\ \A d \in Cmds : main[d] \notin {"wait", "cleaning", "leaving"}
      BY <1>2 DEF BeginDeploy, StartProcess, Alive
    <3>2. \A d \in Cmds : main'[d] \in {"wait", "cleaning", "leaving"} => d = c
      BY <1>t, <3>1, <1>2 DEF TypeOK, BeginDeploy, StartProcess
    <3>3. pc'[c] \in {"load", "done"} /\ cm' = cm /\ objs' = objs
      BY <1>t, <1>2 DEF TypeOK, BeginDeploy, StartProcess, Finish, Goto
    <3> QED
      BY <1>re, <3>1, <3>2, <3>3 DEF Recorded, RecordedPcs, Alive
  <2> QED
    BY <2>1, <2>2, <2>3, <2>4, <2>5, <2>6 DEF IInv
<1>3. ASSUME NEW c \in Cmds, BeginDestroy(c) PROVE IInv'
  <2>1. TypeOK'
    BY <1>t, <1>3 DEF TypeOK, BeginDestroy, StartProcess
  <2>2. Calls'
    BY <1>t, <1>ca, <1>pl, <1>3 DEF Calls, Places, TypeOK, BeginDestroy, StartProcess, Maps
  <2>3. Places'
    BY <1>t, <1>pl, <1>3 DEF Places, TypeOK, BeginDestroy, StartProcess
  <2>4. Told'
    BY <1>t, <1>to, <1>ca, <1>pl, <1>3 DEF Told, Calls, Places, TypeOK, BeginDestroy,
       StartProcess, Maps
  <2>5. Temporary'
    BY <1>t, <1>te, <1>3 DEF Temporary, TypeOK, BeginDestroy, StartProcess
  <2>6. Recorded'
    <3> SUFFICES ASSUME ~overlap' PROVE Recorded'
      BY DEF Recorded
    <3>1. ~overlap /\ \A d \in Cmds : main[d] \notin {"wait", "cleaning", "leaving"}
      BY <1>3 DEF BeginDestroy, StartProcess, Alive
    <3>2. \A d \in Cmds : main'[d] \in {"wait", "cleaning", "leaving"} => d = c
      BY <1>t, <3>1, <1>3 DEF TypeOK, BeginDestroy, StartProcess
    <3>3. pc'[c] \in {"load", "done"} /\ cm' = cm /\ objs' = objs
      BY <1>t, <1>3 DEF TypeOK, BeginDestroy, StartProcess, Finish, Goto
    <3> QED
      BY <1>re, <3>1, <3>2, <3>3 DEF Recorded, RecordedPcs, Alive
  <2> QED
    BY <2>1, <2>2, <2>3, <2>4, <2>5, <2>6 DEF IInv
<1>4. ASSUME NEW c \in Cmds, Exit(c) PROVE IInv'
  <2>1. TypeOK'
    BY <1>t, <1>4 DEF TypeOK, Exit
  <2>2. Calls'
    BY <1>t, <1>ca, <1>4 DEF Calls, TypeOK, Exit
  <2>3. Places'
    BY <1>t, <1>pl, <1>4 DEF Places, TypeOK, Exit
  <2>4. Told'
    BY <1>t, <1>to, <1>4 DEF Told, TypeOK, Exit
  <2>5. Temporary'
    BY <1>t, <1>te, <1>4 DEF Temporary, TypeOK, Exit
  <2>6. Recorded'
    BY <1>t, <1>re, <1>4 DEF Recorded, TypeOK, Exit
  <2> QED
    BY <2>1, <2>2, <2>3, <2>4, <2>5, <2>6 DEF IInv
<1>5. ASSUME NEW c \in Cmds, Kill(c) PROVE IInv'
  <2>1. TypeOK'
    BY <1>t, <1>5 DEF TypeOK, Kill
  <2>2. Calls'
    BY <1>t, <1>ca, <1>5 DEF Calls, TypeOK, Kill
  <2>3. Places'
    BY <1>t, <1>pl, <1>5 DEF Places, TypeOK, Kill
  <2>4. Told'
    BY <1>t, <1>to, <1>5 DEF Told, TypeOK, Kill
  <2>5. Temporary'
    BY <1>t, <1>te, <1>5 DEF Temporary, TypeOK, Kill
  <2>6. Recorded'
    BY <1>t, <1>re, <1>5 DEF Recorded, TypeOK, Kill
  <2> QED
    BY <2>1, <2>2, <2>3, <2>4, <2>5, <2>6 DEF IInv
<1>6. ASSUME NEW c \in Cmds, Interrupt(c) PROVE IInv'
  <2>1. TypeOK'
    BY <1>t, <1>6 DEF TypeOK, Interrupt
  <2>2. Calls'
    BY <1>t, <1>ca, <1>6 DEF Calls, TypeOK, Interrupt
  <2>3. Places'
    BY <1>t, <1>pl, <1>6 DEF Places, TypeOK, Interrupt
  <2>4. Told'
    BY <1>t, <1>to, <1>6 DEF Told, TypeOK, Interrupt
  <2>5. Temporary'
    BY <1>t, <1>te, <1>6 DEF Temporary, TypeOK, Interrupt
  <2>6. Recorded'
    BY <1>t, <1>re, <1>6 DEF Recorded, TypeOK, Interrupt
  <2> QED
    BY <2>1, <2>2, <2>3, <2>4, <2>5, <2>6 DEF IInv
<1>7. ASSUME NEW c \in Cmds, CleanUpOnInterrupt(c) PROVE IInv'
  <2>1. TypeOK'
    BY <1>t, <1>7 DEF TypeOK, CleanUpOnInterrupt
  <2>2. Calls'
    BY <1>t, <1>ca, <1>7 DEF Calls, TypeOK, CleanUpOnInterrupt
  <2>3. Places'
    BY <1>t, <1>pl, <1>7 DEF Places, TypeOK, CleanUpOnInterrupt
  <2>4. Told'
    BY <1>t, <1>to, <1>7 DEF Told, TypeOK, CleanUpOnInterrupt
  <2>5. Temporary'
    BY <1>t, <1>te, <1>7 DEF Temporary, TypeOK, CleanUpOnInterrupt
  <2>6. Recorded'
    BY <1>t, <1>re, <1>7 DEF Recorded, TypeOK, CleanUpOnInterrupt
  <2> QED
    BY <2>1, <2>2, <2>3, <2>4, <2>5, <2>6 DEF IInv
<1>8. ASSUME NEW c \in Cmds, LeaveOnInterrupt(c) PROVE IInv'
  <2>1. TypeOK'
    BY <1>t, <1>8 DEF TypeOK, LeaveOnInterrupt
  <2>2. Calls'
    BY <1>t, <1>ca, <1>8 DEF Calls, TypeOK, LeaveOnInterrupt
  <2>3. Places'
    BY <1>t, <1>pl, <1>8 DEF Places, TypeOK, LeaveOnInterrupt
  <2>4. Told'
    BY <1>t, <1>to, <1>8 DEF Told, TypeOK, LeaveOnInterrupt
  <2>5. Temporary'
    BY <1>t, <1>te, <1>8 DEF Temporary, TypeOK, LeaveOnInterrupt
  <2>6. Recorded'
    BY <1>t, <1>re, <1>8 DEF Recorded, TypeOK, LeaveOnInterrupt
  <2> QED
    BY <2>1, <2>2, <2>3, <2>4, <2>5, <2>6 DEF IInv
<1>9. ASSUME NEW c \in Cmds, CmapGet(c) PROVE IInv'
  <2>1. TypeOK'
    BY <1>t, <1>9 DEF TypeOK, CmapGet, Locked
  <2>2. Calls'
    BY <1>t, <1>ca, <1>9 DEF Calls, TypeOK, CmapGet, Locked
  <2>3. Places'
    BY <1>t, <1>pl, <1>9 DEF Places, TypeOK, CmapGet, Locked
  <2>4. Told'
    BY <1>t, <1>to, <1>9 DEF Told, TypeOK, CmapGet, Locked
  <2>5. Temporary'
    BY <1>t, <1>te, <1>9 DEF Temporary, TypeOK, CmapGet, Locked
  <2>6. Recorded'
    BY <1>t, <1>re, <1>9 DEF Recorded, TypeOK, CmapGet, Locked
  <2> QED
    BY <2>1, <2>2, <2>3, <2>4, <2>5, <2>6 DEF IInv
<1>10. ASSUME NEW c \in Cmds, CmapCreate(c) PROVE IInv'
  <2>0. cm = NoMap => cm' \in Maps /\ cm' # NoMap
    <3>1. want[c] \in Statuses
      BY <1>t DEF TypeOK
    <3>2. cm = NoMap => cm' = [status |-> want[c], by |-> c, lock |-> FALSE, shadow |-> FALSE]
      BY <1>10 DEF CmapCreate
    <3> HIDE DEF Statuses, Cmds
    <3> QED
      BY <3>1, <3>2, NewMap DEF Cmds
  <2>7. copy' \in [Cmds -> {"none", "new", "fresh", "stale"}]
    BY <1>t, <1>10 DEF TypeOK, CmapCreate
  <2>1. TypeOK'
    BY <1>t, <2>0, <2>7, <1>10 DEF TypeOK, CmapCreate
  <2>2. Calls'
    BY <1>t, <1>ca, <1>10 DEF Calls, TypeOK, CmapCreate
  <2>3. Places'
    BY <1>t, <1>pl, <1>10 DEF Places, TypeOK, CmapCreate
  <2>4. Told'
    BY <1>t, <1>to, <1>ca, <1>pl, <1>10 DEF Told, Calls, Places, TypeOK, CmapCreate, Maps
  <2>5. Temporary'
    BY <1>t, <1>te, <1>10 DEF Temporary, TypeOK, CmapCreate
  <2>6. Recorded'
    BY <1>t, <1>re, <1>10 DEF Recorded, TypeOK, CmapCreate
  <2> QED
    BY <2>1, <2>2, <2>3, <2>4, <2>5, <2>6 DEF IInv
<1>11. ASSUME NEW c \in Cmds, CmapLook(c) PROVE IInv'
  <2>1. TypeOK'
    BY <1>t, <1>11 DEF TypeOK, CmapLook
  <2>2. Calls'
    BY <1>t, <1>ca, <1>11 DEF Calls, TypeOK, CmapLook
  <2>3. Places'
    BY <1>t, <1>pl, <1>11 DEF Places, TypeOK, CmapLook
  <2>4. Told'
    BY <1>t, <1>to, <1>11 DEF Told, TypeOK, CmapLook
  <2>5. Temporary'
    BY <1>t, <1>te, <1>11 DEF Temporary, TypeOK, CmapLook
  <2>6. Recorded'
    BY <1>t, <1>re, <1>11 DEF Recorded, TypeOK, CmapLook
  <2> QED
    BY <2>1, <2>2, <2>3, <2>4, <2>5, <2>6 DEF IInv
<1>12. ASSUME NEW c \in Cmds, CmapPut(c) PROVE IInv'
  <2>1. CASE UNCHANGED <<cm, copy>> /\ Return(c, "err")
    <3>1. TypeOK'
      BY <1>t, <2>1, <1>12 DEF TypeOK, CmapPut, Return, Calling
    <3>2. Calls'
      BY <1>t, <1>ca, <2>1, <1>12 DEF TypeOK, Calls, CmapPut, Return
    <3>3. Places' /\ Temporary'
      BY <1>pl, <1>te, <1>12 DEF Places, Temporary, CmapPut
    <3>4. Told'
      BY <1>t, <1>to, <2>1, <1>12 DEF TypeOK, Told, CmapPut, Return
    <3>5. Recorded'
      BY <1>t, <1>re, <2>1, <1>12 DEF TypeOK, Recorded, Alive, CmapPut, Return
    <3> QED
      BY <3>1, <3>2, <3>3, <3>4, <3>5 DEF IInv
  <2>2. CASE cm # NoMap /\ cm' = Written(c) /\ Outdate(c) /\ Return(c, "ok")
    <3>1. cm \in Maps
      BY <1>t, <2>2 DEF TypeOK
    <3>2. call[c] = "aux" => cm' = cm
      BY <2>2 DEF Written
    <3>3. call[c] # "aux" =>
            /\ cm' = [status |-> want[c], by |-> c, lock |-> cm'.lock, shadow |-> FALSE]
            /\ cm'.lock \in BOOLEAN
      BY <2>2, <3>1 DEF Written, Maps
    <3>4. call[c] # "aux" =>
            cm' \in Maps /\ cm' # NoMap /\ cm'.status = want[c] /\ cm'.by = c /\ ~cm'.shadow
      <4> SUFFICES ASSUME call[c] # "aux"
                   PROVE cm' \in Maps /\ cm' # NoMap /\ cm'.status = want[c] /\ cm'.by = c /\ ~cm'.shadow
        OBVIOUS
      <4>1. want[c] \in Statuses
        BY <1>t DEF TypeOK
      <4>2. cm' \in Maps /\ cm' # NoMap
        BY <3>3, <4>1, NewMap
      <4> QED
        BY <3>3, <4>2
    <3>5. copy' \in [Cmds -> {"none", "new", "stale"}]
          /\ \A d \in Cmds : d # c /\ copy[d] # "none" =>
               copy'[d] # "none" /\ (copy'[d] = "new" => copy[d] = "new")
      BY <1>t, <2>2 DEF TypeOK, Outdate
    <3>6. k' = [k EXCEPT ![c] = "ok"] /\ k[c] = "put"
      BY <2>2, <1>12 DEF Return, CmapPut
    <3>7. TypeOK'
      BY <1>t, <3>1, <3>2, <3>4, <3>5, <3>6, <1>12 DEF TypeOK, CmapPut
    <3>8. Calls'
      BY <1>t, <1>ca, <3>5, <3>6, <1>12 DEF TypeOK, Calls, CmapPut
    <3>9. Places' /\ Temporary'
      BY <1>pl, <1>te, <1>12 DEF Places, Temporary, CmapPut
    <3>10. Told'
      <4>1. CASE call[c] = "aux"
        <5>1. pc[c] \notin {"status", "errStatus"}
          BY <1>ca, <3>6, <4>1 DEF Calls, Calling
        <5> QED
          BY <1>t, <1>to, <3>2, <3>6, <4>1, <5>1, <1>12 DEF TypeOK, Told, CmapPut
      <4>2. CASE call[c] # "aux"
        <5>1. pc[c] \in {"first", "status", "errStatus"}
          BY <1>t, <1>ca, <3>6, <4>2 DEF TypeOK, Calls, Calling
        <5>2. /\ pc[c] = "first" => want[c] \in {"progressing", "destroying"}
              /\ pc[c] = "status" => want[c] = "deployed"
              /\ pc[c] = "errStatus" => want[c] = "error"
          BY <1>ca, <3>6 DEF Calls, Calling
        <5> QED
          BY <1>t, <3>4, <3>6, <4>2, <5>1, <5>2, <1>12 DEF TypeOK, Told, InProgress, CmapPut
      <4> QED
        BY <4>1, <4>2
    <3>11. Recorded'
      BY <1>t, <1>re, <2>2, <3>2, <3>4, <3>6, <1>12 DEF TypeOK, Recorded, Alive, CmapPut
    <3> QED
      BY <3>7, <3>8, <3>9, <3>10, <3>11 DEF IInv
  <2> QED
    BY <2>1, <2>2, <1>12 DEF CmapPut
<1>13. ASSUME NEW c \in Cmds, CmapRecreate(c) PROVE IInv'
  <2>0. cm' = cm \/ cm' \in Maps
    <3>1. CASE cm = NoMap /\ copy[c] = "new"
      <4>1. cm' = [status |-> want[c], by |-> c, lock |-> FALSE, shadow |-> FALSE]
        BY <3>1, <1>13 DEF CmapRecreate
      <4>2. want[c] \in Statuses
        BY <1>t DEF TypeOK
      <4> QED
        BY <4>1, <4>2, NewMap
    <3>2. CASE ~(cm = NoMap /\ copy[c] = "new")
      BY <3>2, <1>13 DEF CmapRecreate
    <3> QED
      BY <3>1, <3>2
  <2>7. k'[c] = "ok" => cm' # NoMap
    BY ZenonT(60), <1>t, <1>13, NewMap DEF TypeOK, CmapRecreate, Return
  <2>8. copy' \in [Cmds -> {"none", "new", "fresh", "stale"}]
    BY <1>t, <1>13 DEF TypeOK, CmapRecreate, Outdate
  <2>1. TypeOK'
    BY <1>t, <2>0, <2>8, <1>13 DEF TypeOK, CmapRecreate
  <2>2. Calls'
    BY <1>t, <1>ca, <1>13 DEF Calls, TypeOK, CmapRecreate, Outdate
  <2>3. Places'
    BY <1>t, <1>pl, <1>13 DEF Places, TypeOK, CmapRecreate, Outdate
  <2>4. Told'
    BY <1>t, <1>to, <1>ca, <1>pl, <1>13 DEF Told, Calls, Places, TypeOK, CmapRecreate,
       Outdate, Maps
  <2>5. Temporary'
    BY <1>t, <1>te, <1>13 DEF Temporary, TypeOK, CmapRecreate, Outdate
  <2>6. Recorded'
    BY <1>t, <1>re, <2>7, <1>13 DEF TypeOK, Recorded, CmapRecreate
  <2> QED
    BY <2>1, <2>2, <2>3, <2>4, <2>5, <2>6 DEF IInv
<1>14. ASSUME NEW c \in Cmds, LoadManifest(c) PROVE IInv'
  <2>1. TypeOK'
    BY <1>t, <1>14 DEF TypeOK, LoadManifest, TranslateConfigMapAndDeploy
  <2>2. Calls'
    BY <1>t, <1>ca, <1>14 DEF Calls, TypeOK, LoadManifest, TranslateConfigMapAndDeploy
  <2>3. Places'
    BY <1>t, <1>pl, <1>14 DEF Places, TypeOK, LoadManifest, TranslateConfigMapAndDeploy
  <2>4. Told'
    BY <1>t, <1>to, <1>14 DEF Told, TypeOK, LoadManifest, TranslateConfigMapAndDeploy
  <2>5. Temporary'
    BY <1>t, <1>te, <1>14 DEF Temporary, TypeOK, LoadManifest, TranslateConfigMapAndDeploy
  <2>6. Recorded'
    BY <1>t, <1>re, <1>14 DEF Recorded, TypeOK, LoadManifest, TranslateConfigMapAndDeploy
  <2> QED
    BY <2>1, <2>2, <2>3, <2>4, <2>5, <2>6 DEF IInv
<1>15. ASSUME NEW c \in Cmds, AfterFirst(c) PROVE IInv'
  <2>1. TypeOK'
    BY <1>t, <1>15 DEF TypeOK, AfterFirst
  <2>2. Calls'
    BY <1>t, <1>ca, <1>15 DEF Calls, TypeOK, AfterFirst
  <2>3. Places'
    BY <1>t, <1>pl, <1>15 DEF Places, TypeOK, AfterFirst
  <2>4. Told'
    BY <1>t, <1>to, <1>15 DEF Told, TypeOK, AfterFirst
  <2>5. Temporary'
    BY <1>t, <1>te, <1>15 DEF Temporary, TypeOK, AfterFirst
  <2>6. Recorded'
    BY <1>t, <1>re, <1>15 DEF Recorded, TypeOK, AfterFirst
  <2> QED
    BY <2>1, <2>2, <2>3, <2>4, <2>5, <2>6 DEF IInv
<1>16. ASSUME NEW c \in Cmds, DeployDependencies(c) PROVE IInv'
  <2>1. TypeOK'
    BY <1>t, <1>16 DEF TypeOK, DeployDependencies, UpdateConfigMap
  <2>2. Calls'
    BY <1>t, <1>ca, <1>16 DEF Calls, TypeOK, DeployDependencies, UpdateConfigMap
  <2>3. Places'
    BY <1>t, <1>pl, <1>16 DEF Places, TypeOK, DeployDependencies, UpdateConfigMap
  <2>4. Told'
    BY <1>t, <1>to, <1>16 DEF Told, TypeOK, DeployDependencies, UpdateConfigMap
  <2>5. Temporary'
    BY <1>t, <1>te, <1>16 DEF Temporary, TypeOK, DeployDependencies, UpdateConfigMap
  <2>6. Recorded'
    BY <1>t, <1>re, <1>16 DEF Recorded, TypeOK, DeployDependencies, UpdateConfigMap
  <2> QED
    BY <2>1, <2>2, <2>3, <2>4, <2>5, <2>6 DEF IInv
<1>17. ASSUME NEW c \in Cmds, BuildImages(c) PROVE IInv'
  <2>1. TypeOK'
    BY <1>t, <1>17 DEF TypeOK, BuildImages, UpdateConfigMap, SetBuildEnvVars
  <2>2. Calls'
    BY <1>t, <1>ca, <1>17 DEF Calls, TypeOK, BuildImages, UpdateConfigMap, SetBuildEnvVars
  <2>3. Places'
    BY <1>t, <1>pl, <1>17 DEF Places, TypeOK, BuildImages, UpdateConfigMap, SetBuildEnvVars
  <2>4. Told'
    BY <1>t, <1>to, <1>17 DEF Told, TypeOK, BuildImages, UpdateConfigMap, SetBuildEnvVars
  <2>5. Temporary'
    BY <1>t, <1>te, <1>17 DEF Temporary, TypeOK, BuildImages, UpdateConfigMap,
       SetBuildEnvVars
  <2>6. Recorded'
    BY <1>t, <1>re, <1>17 DEF Recorded, TypeOK, BuildImages, UpdateConfigMap,
       SetBuildEnvVars
  <2> QED
    BY <2>1, <2>2, <2>3, <2>4, <2>5, <2>6 DEF IInv
<1>18. ASSUME NEW c \in Cmds, RecreateFailedPods(c) PROVE IInv'
  <2>1. TypeOK'
    BY <1>t, <1>18 DEF TypeOK, RecreateFailedPods, Step
  <2>2. Calls'
    BY <1>t, <1>ca, <1>18 DEF Calls, TypeOK, RecreateFailedPods, Step
  <2>3. Places'
    BY <1>t, <1>pl, <1>18 DEF Places, TypeOK, RecreateFailedPods, Step
  <2>4. Told'
    BY <1>t, <1>to, <1>18 DEF Told, TypeOK, RecreateFailedPods, Step
  <2>5. Temporary'
    BY <1>t, <1>te, <1>18 DEF Temporary, TypeOK, RecreateFailedPods, Step
  <2>6. Recorded'
    BY <1>t, <1>re, <1>18 DEF Recorded, TypeOK, RecreateFailedPods, Step
  <2> QED
    BY <2>1, <2>2, <2>3, <2>4, <2>5, <2>6 DEF IInv
<1>19. ASSUME NEW c \in Cmds, GetDeployer(c) PROVE IInv'
  <2>1. TypeOK'
    <3>1. reg' \in [Cmds -> BOOLEAN]
      BY <1>t, <1>19 DEF TypeOK, GetDeployer
    <3> QED
      BY <1>t, <3>1, <1>19
         DEF TypeOK, Statuses, Pcs, Calling, GetDeployer, UpdateConfigMap, Start, At, Alive, Goto
  <2>2. Calls'
    BY <1>t, <1>ca, <1>19 DEF Calls, TypeOK, GetDeployer, UpdateConfigMap
  <2>3. Places'
    BY <1>t, <1>pl, <1>19 DEF Places, TypeOK, GetDeployer, UpdateConfigMap
  <2>4. Told'
    BY <1>t, <1>to, <1>19 DEF Told, TypeOK, GetDeployer, UpdateConfigMap
  <2>5. Temporary'
    BY <1>t, <1>te, <1>19 DEF Temporary, TypeOK, GetDeployer, UpdateConfigMap
  <2>6. Recorded'
    BY <1>t, <1>re, <1>19 DEF Recorded, TypeOK, GetDeployer, UpdateConfigMap
  <2> QED
    BY <2>1, <2>2, <2>3, <2>4, <2>5, <2>6 DEF IInv
<1>20. ASSUME NEW c \in Cmds, DeployRemote(c) PROVE IInv'
  <2>1. TypeOK'
    BY <1>t, <1>20 DEF TypeOK, DeployRemote, UpdateConfigMap
  <2>2. Calls'
    BY <1>t, <1>ca, <1>20 DEF Calls, TypeOK, DeployRemote, UpdateConfigMap
  <2>3. Places'
    BY <1>t, <1>pl, <1>20 DEF Places, TypeOK, DeployRemote, UpdateConfigMap
  <2>4. Told'
    BY <1>t, <1>to, <1>20 DEF Told, TypeOK, DeployRemote, UpdateConfigMap
  <2>5. Temporary'
    BY <1>t, <1>te, <1>20 DEF Temporary, TypeOK, DeployRemote, UpdateConfigMap
  <2>6. Recorded'
    BY <1>t, <1>re, <1>20 DEF Recorded, TypeOK, DeployRemote, UpdateConfigMap
  <2> QED
    BY <2>1, <2>2, <2>3, <2>4, <2>5, <2>6 DEF IInv
<1>21. ASSUME NEW c \in Cmds, ModifyKubeconfig(c) PROVE IInv'
  <2>1. TypeOK'
    BY <1>t, <1>pl, <1>21 DEF TypeOK, Maps, Places, ModifyKubeconfig, UpdateConfigMap
  <2>2. Calls'
    BY <1>t, <1>ca, <1>21 DEF Calls, TypeOK, ModifyKubeconfig, UpdateConfigMap
  <2>3. Places'
    BY <1>t, <1>pl, <1>21 DEF Places, TypeOK, ModifyKubeconfig, UpdateConfigMap
  <2>4. Told'
    BY <1>t, <1>to, <1>21 DEF Told, TypeOK, ModifyKubeconfig, UpdateConfigMap
  <2>5. Temporary'
    BY <1>t, <1>te, <1>21 DEF Temporary, TypeOK, ModifyKubeconfig, UpdateConfigMap
  <2>6. Recorded'
    BY <1>t, <1>re, <1>21 DEF Recorded, TypeOK, ModifyKubeconfig, UpdateConfigMap
  <2> QED
    BY <2>1, <2>2, <2>3, <2>4, <2>5, <2>6 DEF IInv
<1>22. ASSUME NEW c \in Cmds, StartProxy(c) PROVE IInv'
  <2>1. TypeOK'
    BY <1>t, <1>pl, <1>22 DEF TypeOK, Maps, Places, StartProxy, UpdateConfigMap
  <2>2. Calls'
    BY <1>t, <1>ca, <1>22 DEF Calls, TypeOK, StartProxy, UpdateConfigMap
  <2>3. Places'
    BY <1>t, <1>pl, <1>22 DEF Places, TypeOK, StartProxy, UpdateConfigMap
  <2>4. Told'
    BY <1>t, <1>to, <1>22 DEF Told, TypeOK, StartProxy, UpdateConfigMap
  <2>5. Temporary'
    BY <1>t, <1>te, <1>22 DEF Temporary, TypeOK, StartProxy, UpdateConfigMap
  <2>6. Recorded'
    BY <1>t, <1>re, <1>22 DEF Recorded, TypeOK, StartProxy, UpdateConfigMap
  <2> QED
    BY <2>1, <2>2, <2>3, <2>4, <2>5, <2>6 DEF IInv
<1>23. ASSUME NEW c \in Cmds, RunCommands(c) PROVE IInv'
  <2>1. TypeOK'
    BY <1>t, <1>23 DEF TypeOK, RunCommands, AddPhaseDuration
  <2>2. Calls'
    BY <1>t, <1>ca, <1>23 DEF Calls, TypeOK, RunCommands, AddPhaseDuration
  <2>3. Places'
    BY <1>t, <1>pl, <1>23 DEF Places, TypeOK, RunCommands, AddPhaseDuration
  <2>4. Told'
    BY <1>t, <1>to, <1>23 DEF Told, TypeOK, RunCommands, AddPhaseDuration
  <2>5. Temporary'
    BY <1>t, <1>te, <1>23 DEF Temporary, TypeOK, RunCommands, AddPhaseDuration
  <2>6. Recorded'
    BY <1>t, <1>re, <1>23 DEF Recorded, TypeOK, RunCommands, AddPhaseDuration
  <2> QED
    BY <2>1, <2>2, <2>3, <2>4, <2>5, <2>6 DEF IInv
<1>24. ASSUME NEW c \in Cmds, AfterPhase(c) PROVE IInv'
  <2>1. TypeOK'
    BY <1>t, <1>24 DEF TypeOK, AfterPhase, UpdateEnvs
  <2>2. Calls'
    BY <1>t, <1>ca, <1>24 DEF Calls, TypeOK, AfterPhase, UpdateEnvs
  <2>3. Places'
    BY <1>t, <1>pl, <1>24 DEF Places, TypeOK, AfterPhase, UpdateEnvs
  <2>4. Told'
    BY <1>t, <1>to, <1>24 DEF Told, TypeOK, AfterPhase, UpdateEnvs
  <2>5. Temporary'
    BY <1>t, <1>te, <1>24 DEF Temporary, TypeOK, AfterPhase, UpdateEnvs
  <2>6. Recorded'
    BY <1>t, <1>re, <1>24 DEF Recorded, TypeOK, AfterPhase, UpdateEnvs
  <2> QED
    BY <2>1, <2>2, <2>3, <2>4, <2>5, <2>6 DEF IInv
<1>25. ASSUME NEW c \in Cmds, AfterEnvs(c) PROVE IInv'
  <2>1. TypeOK'
    BY <1>t, <1>25 DEF TypeOK, AfterEnvs
  <2>2. Calls'
    BY <1>t, <1>ca, <1>25 DEF Calls, TypeOK, AfterEnvs
  <2>3. Places'
    BY <1>t, <1>pl, <1>25 DEF Places, TypeOK, AfterEnvs
  <2>4. Told'
    BY <1>t, <1>to, <1>25 DEF Told, TypeOK, AfterEnvs
  <2>5. Temporary'
    BY <1>t, <1>te, <1>25 DEF Temporary, TypeOK, AfterEnvs
  <2>6. Recorded'
    BY <1>t, <1>re, <1>25 DEF Recorded, TypeOK, AfterEnvs
  <2> QED
    BY <2>1, <2>2, <2>3, <2>4, <2>5, <2>6 DEF IInv
<1>26. ASSUME NEW c \in Cmds, DeployExternals(c) PROVE IInv'
  <2>1. TypeOK'
    BY <1>t, <1>26 DEF TypeOK, DeployExternals, Step
  <2>2. Calls'
    BY <1>t, <1>ca, <1>26 DEF Calls, TypeOK, DeployExternals, Step
  <2>3. Places'
    BY <1>t, <1>pl, <1>26 DEF Places, TypeOK, DeployExternals, Step
  <2>4. Told'
    BY <1>t, <1>to, <1>26 DEF Told, TypeOK, DeployExternals, Step
  <2>5. Temporary'
    BY <1>t, <1>te, <1>26 DEF Temporary, TypeOK, DeployExternals, Step
  <2>6. Recorded'
    BY <1>t, <1>re, <1>26 DEF Recorded, TypeOK, DeployExternals, Step
  <2> QED
    BY <2>1, <2>2, <2>3, <2>4, <2>5, <2>6 DEF IInv
<1>27. ASSUME NEW c \in Cmds, RunnerCleanUp(c) PROVE IInv'
  <2>1. TypeOK'
    BY <1>t, <1>27 DEF TypeOK, RunnerCleanUp, UpdateConfigMap
  <2>2. Calls'
    BY <1>t, <1>ca, <1>27 DEF Calls, TypeOK, RunnerCleanUp, UpdateConfigMap
  <2>3. Places'
    BY <1>t, <1>pl, <1>27 DEF Places, TypeOK, RunnerCleanUp, UpdateConfigMap
  <2>4. Told'
    BY <1>t, <1>to, <1>27 DEF Told, TypeOK, RunnerCleanUp, UpdateConfigMap
  <2>5. Temporary'
    BY <1>t, <1>te, <1>27 DEF Temporary, TypeOK, RunnerCleanUp, UpdateConfigMap
  <2>6. Recorded'
    BY <1>t, <1>re, <1>27 DEF Recorded, TypeOK, RunnerCleanUp, UpdateConfigMap
  <2> QED
    BY <2>1, <2>2, <2>3, <2>4, <2>5, <2>6 DEF IInv
<1>28. ASSUME NEW c \in Cmds, DeployStack(c) PROVE IInv'
  <2>1. TypeOK'
    BY <1>t, <1>28 DEF TypeOK, DeployStack, AddPhaseDuration
  <2>2. Calls'
    BY <1>t, <1>ca, <1>28 DEF Calls, TypeOK, DeployStack, AddPhaseDuration
  <2>3. Places'
    BY <1>t, <1>pl, <1>28 DEF Places, TypeOK, DeployStack, AddPhaseDuration
  <2>4. Told'
    BY <1>t, <1>to, <1>28 DEF Told, TypeOK, DeployStack, AddPhaseDuration
  <2>5. Temporary'
    BY <1>t, <1>te, <1>28 DEF Temporary, TypeOK, DeployStack, AddPhaseDuration
  <2>6. Recorded'
    BY <1>t, <1>re, <1>28 DEF Recorded, TypeOK, DeployStack, AddPhaseDuration
  <2> QED
    BY <2>1, <2>2, <2>3, <2>4, <2>5, <2>6 DEF IInv
<1>29. ASSUME NEW c \in Cmds, AfterComposePhase(c) PROVE IInv'
  <2>1. TypeOK'
    BY <1>t, <1>29 DEF TypeOK, AfterComposePhase, UpdateConfigMap
  <2>2. Calls'
    BY <1>t, <1>ca, <1>29 DEF Calls, TypeOK, AfterComposePhase, UpdateConfigMap
  <2>3. Places'
    BY <1>t, <1>pl, <1>29 DEF Places, TypeOK, AfterComposePhase, UpdateConfigMap
  <2>4. Told'
    BY <1>t, <1>to, <1>29 DEF Told, TypeOK, AfterComposePhase, UpdateConfigMap
  <2>5. Temporary'
    BY <1>t, <1>te, <1>29 DEF Temporary, TypeOK, AfterComposePhase, UpdateConfigMap
  <2>6. Recorded'
    BY <1>t, <1>re, <1>29 DEF Recorded, TypeOK, AfterComposePhase, UpdateConfigMap
  <2> QED
    BY <2>1, <2>2, <2>3, <2>4, <2>5, <2>6 DEF IInv
<1>30. ASSUME NEW c \in Cmds, DeployEndpoints(c) PROVE IInv'
  <2>1. TypeOK'
    BY <1>t, <1>30 DEF TypeOK, DeployEndpoints, UpdateConfigMap
  <2>2. Calls'
    BY <1>t, <1>ca, <1>30 DEF Calls, TypeOK, DeployEndpoints, UpdateConfigMap
  <2>3. Places'
    BY <1>t, <1>pl, <1>30 DEF Places, TypeOK, DeployEndpoints, UpdateConfigMap
  <2>4. Told'
    BY <1>t, <1>to, <1>30 DEF Told, TypeOK, DeployEndpoints, UpdateConfigMap
  <2>5. Temporary'
    BY <1>t, <1>te, <1>30 DEF Temporary, TypeOK, DeployEndpoints, UpdateConfigMap
  <2>6. Recorded'
    BY <1>t, <1>re, <1>30 DEF Recorded, TypeOK, DeployEndpoints, UpdateConfigMap
  <2> QED
    BY <2>1, <2>2, <2>3, <2>4, <2>5, <2>6 DEF IInv
<1>31. ASSUME NEW c \in Cmds, DeployDivert(c) PROVE IInv'
  <2>1. TypeOK'
    BY <1>t, <1>31 DEF TypeOK, DeployDivert, UpdateConfigMap
  <2>2. Calls'
    BY <1>t, <1>ca, <1>31 DEF Calls, TypeOK, DeployDivert, UpdateConfigMap
  <2>3. Places'
    BY <1>t, <1>pl, <1>31 DEF Places, TypeOK, DeployDivert, UpdateConfigMap
  <2>4. Told'
    BY <1>t, <1>to, <1>31 DEF Told, TypeOK, DeployDivert, UpdateConfigMap
  <2>5. Temporary'
    BY <1>t, <1>te, <1>31 DEF Temporary, TypeOK, DeployDivert, UpdateConfigMap
  <2>6. Recorded'
    BY <1>t, <1>re, <1>31 DEF Recorded, TypeOK, DeployDivert, UpdateConfigMap
  <2> QED
    BY <2>1, <2>2, <2>3, <2>4, <2>5, <2>6 DEF IInv
<1>32. ASSUME NEW c \in Cmds, HasDeployedSomething(c) PROVE IInv'
  <2>1. TypeOK'
    BY <1>t, <1>32 DEF TypeOK, HasDeployedSomething, UpdateConfigMap
  <2>2. Calls'
    BY <1>t, <1>ca, <1>32 DEF Calls, TypeOK, HasDeployedSomething, UpdateConfigMap
  <2>3. Places'
    BY <1>t, <1>pl, <1>32 DEF Places, TypeOK, HasDeployedSomething, UpdateConfigMap
  <2>4. Told'
    BY <1>t, <1>to, <1>32 DEF Told, TypeOK, HasDeployedSomething, UpdateConfigMap
  <2>5. Temporary'
    BY <1>t, <1>te, <1>32 DEF Temporary, TypeOK, HasDeployedSomething, UpdateConfigMap
  <2>6. Recorded'
    BY <1>t, <1>re, <1>32 DEF Recorded, TypeOK, HasDeployedSomething, UpdateConfigMap
  <2> QED
    BY <2>1, <2>2, <2>3, <2>4, <2>5, <2>6 DEF IInv
<1>33. ASSUME NEW c \in Cmds, WaitForResourcesToBeRunning(c) PROVE IInv'
  <2>1. TypeOK'
    BY <1>t, <1>33 DEF TypeOK, WaitForResourcesToBeRunning, UpdateConfigMap
  <2>2. Calls'
    BY <1>t, <1>ca, <1>33 DEF Calls, TypeOK, WaitForResourcesToBeRunning, UpdateConfigMap
  <2>3. Places'
    BY <1>t, <1>pl, <1>33 DEF Places, TypeOK, WaitForResourcesToBeRunning, UpdateConfigMap
  <2>4. Told'
    BY <1>t, <1>to, <1>33 DEF Told, TypeOK, WaitForResourcesToBeRunning, UpdateConfigMap
  <2>5. Temporary'
    BY <1>t, <1>te, <1>33 DEF Temporary, TypeOK, WaitForResourcesToBeRunning,
       UpdateConfigMap
  <2>6. Recorded'
    BY <1>t, <1>re, <1>33 DEF Recorded, TypeOK, WaitForResourcesToBeRunning, UpdateConfigMap
  <2> QED
    BY <2>1, <2>2, <2>3, <2>4, <2>5, <2>6 DEF IInv
<1>34. ASSUME NEW c \in Cmds, AfterStatus(c) PROVE IInv'
  <2>1. TypeOK'
    BY <1>t, <1>34 DEF TypeOK, AfterStatus
  <2>2. Calls'
    BY <1>t, <1>ca, <1>34 DEF Calls, TypeOK, AfterStatus
  <2>3. Places'
    BY <1>t, <1>pl, <1>34 DEF Places, TypeOK, AfterStatus
  <2>4. Told'
    BY <1>t, <1>to, <1>34 DEF Told, TypeOK, AfterStatus
  <2>5. Temporary'
    BY <1>t, <1>te, <1>34 DEF Temporary, TypeOK, AfterStatus
  <2>6. Recorded'
    BY <1>t, <1>re, <1>34 DEF Recorded, TypeOK, AfterStatus
  <2> QED
    BY <2>1, <2>2, <2>3, <2>4, <2>5, <2>6 DEF IInv
<1>35. ASSUME NEW c \in Cmds, PrepareDestroy(c) PROVE IInv'
  <2>1. TypeOK'
    BY <1>t, <1>35 DEF TypeOK, PrepareDestroy, TranslateConfigMapAndDeploy
  <2>2. Calls'
    BY <1>t, <1>ca, <1>35 DEF Calls, TypeOK, PrepareDestroy, TranslateConfigMapAndDeploy
  <2>3. Places'
    BY <1>t, <1>pl, <1>35 DEF Places, TypeOK, PrepareDestroy, TranslateConfigMapAndDeploy
  <2>4. Told'
    BY <1>t, <1>to, <1>35 DEF Told, TypeOK, PrepareDestroy, TranslateConfigMapAndDeploy
  <2>5. Temporary'
    BY <1>t, <1>te, <1>35 DEF Temporary, TypeOK, PrepareDestroy, TranslateConfigMapAndDeploy
  <2>6. Recorded'
    BY <1>t, <1>re, <1>35 DEF Recorded, TypeOK, PrepareDestroy, TranslateConfigMapAndDeploy
  <2> QED
    BY <2>1, <2>2, <2>3, <2>4, <2>5, <2>6 DEF IInv
<1>36. ASSUME NEW c \in Cmds, DestroyDependencies(c) PROVE IInv'
  <2>1. TypeOK'
    BY <1>t, <1>36 DEF TypeOK, DestroyDependencies, SetErrorStatus
  <2>2. Calls'
    BY <1>t, <1>ca, <1>36 DEF Calls, TypeOK, DestroyDependencies, SetErrorStatus
  <2>3. Places'
    BY <1>t, <1>pl, <1>36 DEF Places, TypeOK, DestroyDependencies, SetErrorStatus
  <2>4. Told'
    BY <1>t, <1>to, <1>36 DEF Told, TypeOK, DestroyDependencies, SetErrorStatus
  <2>5. Temporary'
    BY <1>t, <1>te, <1>36 DEF Temporary, TypeOK, DestroyDependencies, SetErrorStatus
  <2>6. Recorded'
    BY <1>t, <1>re, <1>36 DEF Recorded, TypeOK, DestroyDependencies, SetErrorStatus
  <2> QED
    BY <2>1, <2>2, <2>3, <2>4, <2>5, <2>6 DEF IInv
<1>37. ASSUME NEW c \in Cmds, DestroyDivert(c) PROVE IInv'
  <2>1. TypeOK'
    BY <1>t, <1>37 DEF TypeOK, DestroyDivert
  <2>2. Calls'
    BY <1>t, <1>ca, <1>37 DEF Calls, TypeOK, DestroyDivert
  <2>3. Places'
    BY <1>t, <1>pl, <1>37 DEF Places, TypeOK, DestroyDivert
  <2>4. Told'
    BY <1>t, <1>to, <1>37 DEF Told, TypeOK, DestroyDivert
  <2>5. Temporary'
    BY <1>t, <1>te, <1>37 DEF Temporary, TypeOK, DestroyDivert
  <2>6. Recorded'
    BY <1>t, <1>re, <1>37 DEF Recorded, TypeOK, DestroyDivert
  <2> QED
    BY <2>1, <2>2, <2>3, <2>4, <2>5, <2>6 DEF IInv
<1>38. ASSUME NEW c \in Cmds, RunDestroyCommands(c) PROVE IInv'
  <2>1. TypeOK'
    BY <1>t, <1>38 DEF TypeOK, RunDestroyCommands, SetErrorStatus
  <2>2. Calls'
    BY <1>t, <1>ca, <1>38 DEF Calls, TypeOK, RunDestroyCommands, SetErrorStatus
  <2>3. Places'
    BY <1>t, <1>pl, <1>38 DEF Places, TypeOK, RunDestroyCommands, SetErrorStatus
  <2>4. Told'
    BY <1>t, <1>to, <1>38 DEF Told, TypeOK, RunDestroyCommands, SetErrorStatus
  <2>5. Temporary'
    BY <1>t, <1>te, <1>38 DEF Temporary, TypeOK, RunDestroyCommands, SetErrorStatus
  <2>6. Recorded'
    BY <1>t, <1>re, <1>38 DEF Recorded, TypeOK, RunDestroyCommands, SetErrorStatus
  <2> QED
    BY <2>1, <2>2, <2>3, <2>4, <2>5, <2>6 DEF IInv
<1>39. ASSUME NEW c \in Cmds, DestroySFSVolumes(c) PROVE IInv'
  <2>1. TypeOK'
    BY <1>t, <1>39 DEF TypeOK, DestroySFSVolumes, SetErrorStatus
  <2>2. Calls'
    BY <1>t, <1>ca, <1>39 DEF Calls, TypeOK, DestroySFSVolumes, SetErrorStatus
  <2>3. Places'
    BY <1>t, <1>pl, <1>39 DEF Places, TypeOK, DestroySFSVolumes, SetErrorStatus
  <2>4. Told'
    BY <1>t, <1>to, <1>39 DEF Told, TypeOK, DestroySFSVolumes, SetErrorStatus
  <2>5. Temporary'
    BY <1>t, <1>te, <1>39 DEF Temporary, TypeOK, DestroySFSVolumes, SetErrorStatus
  <2>6. Recorded'
    BY <1>t, <1>re, <1>39 DEF Recorded, TypeOK, DestroySFSVolumes, SetErrorStatus
  <2> QED
    BY <2>1, <2>2, <2>3, <2>4, <2>5, <2>6 DEF IInv
<1>40. ASSUME NEW c \in Cmds, DestroyHelmReleases(c) PROVE IInv'
  <2>1. TypeOK'
    BY <1>t, <1>40 DEF TypeOK, DestroyHelmReleases, SetErrorStatus
  <2>2. Calls'
    BY <1>t, <1>ca, <1>40 DEF Calls, TypeOK, DestroyHelmReleases, SetErrorStatus
  <2>3. Places'
    BY <1>t, <1>pl, <1>40 DEF Places, TypeOK, DestroyHelmReleases, SetErrorStatus
  <2>4. Told'
    BY <1>t, <1>to, <1>40 DEF Told, TypeOK, DestroyHelmReleases, SetErrorStatus
  <2>5. Temporary'
    BY <1>t, <1>te, <1>40 DEF Temporary, TypeOK, DestroyHelmReleases, SetErrorStatus
  <2>6. Recorded'
    BY <1>t, <1>re, <1>40 DEF Recorded, TypeOK, DestroyHelmReleases, SetErrorStatus
  <2> QED
    BY <2>1, <2>2, <2>3, <2>4, <2>5, <2>6 DEF IInv
<1>41. ASSUME NEW c \in Cmds, DestroyWithLabel(c) PROVE IInv'
  <2>1. TypeOK'
    BY <1>t, <1>41 DEF TypeOK, DestroyWithLabel, SetErrorStatus
  <2>2. Calls'
    BY <1>t, <1>ca, <1>41 DEF Calls, TypeOK, DestroyWithLabel, SetErrorStatus
  <2>3. Places'
    BY <1>t, <1>pl, <1>41 DEF Places, TypeOK, DestroyWithLabel, SetErrorStatus
  <2>4. Told'
    BY <1>t, <1>to, <1>41 DEF Told, TypeOK, DestroyWithLabel, SetErrorStatus
  <2>5. Temporary'
    BY <1>t, <1>te, <1>41 DEF Temporary, TypeOK, DestroyWithLabel, SetErrorStatus
  <2>6. Recorded'
    BY <1>t, <1>re, <1>41 DEF Recorded, TypeOK, DestroyWithLabel, SetErrorStatus
  <2> QED
    BY <2>1, <2>2, <2>3, <2>4, <2>5, <2>6 DEF IInv
<1>42. ASSUME NEW c \in Cmds, DestroyConfigMap(c) PROVE IInv'
  <2>1. TypeOK'
    BY <1>t, <1>42 DEF TypeOK, DestroyConfigMap
  <2>2. Calls'
    BY <1>t, <1>ca, <1>42 DEF Calls, TypeOK, DestroyConfigMap
  <2>3. Places'
    BY <1>t, <1>pl, <1>42 DEF Places, TypeOK, DestroyConfigMap
  <2>4. Told'
    BY <1>t, <1>to, <1>42 DEF Told, TypeOK, DestroyConfigMap
  <2>5. Temporary'
    BY <1>t, <1>te, <1>42 DEF Temporary, TypeOK, DestroyConfigMap
  <2>6. Recorded'
    BY <1>t, <1>re, <1>42 DEF Recorded, TypeOK, DestroyConfigMap
  <2> QED
    BY <2>1, <2>2, <2>3, <2>4, <2>5, <2>6 DEF IInv
<1>43. CASE UNCHANGED vars
  BY <1>t, <1>ca, <1>pl, <1>to, <1>te, <1>re, <1>43 DEF IInv, TypeOK, Calls, Places, Told, Temporary, Recorded, Alive, vars
<1> QED
  BY <1>1, <1>2, <1>3, <1>4, <1>5, <1>6, <1>7, <1>8, <1>9, <1>10, <1>11, <1>12,
     <1>13, <1>14, <1>15, <1>16, <1>17, <1>18, <1>19, <1>20, <1>21, <1>22, <1>23,
     <1>24, <1>25, <1>26, <1>27, <1>28, <1>29, <1>30, <1>31, <1>32, <1>33, <1>34,
     <1>35, <1>36, <1>37, <1>38, <1>39, <1>40, <1>41, <1>42, <1>43
     DEF Next, CmapCall, DeployRun, DestroyRun

\* The inductive invariant holds in every reachable state.
THEOREM EnvironmentInvariance == Spec => []IInv
<1>1. Init => IInv
  BY InitEstablishes
<1>2. IInv /\ [Next]_vars => IInv'
  BY StepPreserves
<1> QED
  BY <1>1, <1>2, PTL DEF Spec

\* What the config map says and what the last command that wrote it returned agree,
\* for any number of deploys and destroys (cmd/deploy/deploy.go,
\* cmd/destroy/destroy.go, pkg/cmd/pipeline/translate.go:368-380).
THEOREM StatusesMatch == Spec => []StatusMatchesResult
<1>1. IInv => StatusMatchesResult
  BY CommandsAssumption
     DEF CommandsAssumption, IInv, Told, Places, InProgress, StatusMatchesResult, Settled
<1> QED
  BY <1>1, EnvironmentInvariance, PTL

\* Wherever commands stop, no proxy, no kubeconfig of a successful deploy and, as long
\* as commands do not overlap, no resource without a record is left behind.
THEOREM NothingLeft == Spec => []NothingIsLeftBehind
<1>1. IInv => NothingIsLeftBehind
  <2> SUFFICES ASSUME IInv PROVE NothingIsLeftBehind
    OBVIOUS
  <2>1. CleanEnd
    BY DEF IInv, TypeOK, Places, Temporary, RunnerPcs, CleanEnd, Cmds
  <2>2. TypeOK /\ NoOrphans
    BY DEF IInv, Recorded, NoOrphans
  <2> QED
    BY <2>1, <2>2 DEF NothingIsLeftBehind
<1> QED
  BY <1>1, EnvironmentInvariance, PTL

\* What a step may do to the config map: create it with the first call of a command
\* or from the backend, and change it under a lock only by its creator.
Honest ==
  /\ cm = NoMap /\ cm' # NoMap =>
       cm'.by = NoMap \/ (cm'.by \in Cmds /\ pc[cm'.by] = "first")
  /\ cm # NoMap /\ cm.lock /\ cm' # NoMap /\ cm' # cm =>
       \/ cm'.by = cm.by /\ cm'.status = cm.status
       \/ cm'.by \in Cmds /\ copy[cm'.by] = "new" /\ pc[cm'.by] = "first"

\* Every step is: only five of them write the map.
LEMMA StepsAreHonest == IInv /\ [Next]_vars => Honest
<1> SUFFICES ASSUME IInv, [Next]_vars, cm' # cm PROVE Honest
  BY DEF Honest
<1>t. TypeOK /\ Calls
  BY DEF IInv
<1>1. CASE BackendLock
  <2>1. CASE cm = NoMap
    BY <1>1, <2>1 DEF BackendLock, Honest
  <2>2. CASE cm # NoMap
    <3>1. cm' = [cm EXCEPT !.lock = ~cm.lock, !.shadow = FALSE] /\ cm \in Maps
      BY <1>t, <1>1, <2>2 DEF BackendLock, TypeOK
    <3> QED
      BY <2>2, <3>1 DEF Honest, Maps
  <2> QED
    BY <2>1, <2>2
<1>2. ASSUME NEW c \in Cmds, CmapCreate(c) PROVE Honest
  <2>1. cm = NoMap /\ cm' = [status |-> want[c], by |-> c, lock |-> FALSE, shadow |-> FALSE]
    BY <1>2 DEF CmapCreate
  <2>2. pc[c] = "first"
    BY <1>t, <1>2 DEF CmapCreate, Calls, Calling
  <2> QED
    BY <2>1, <2>2 DEF Honest
<1>3. ASSUME NEW c \in Cmds, CmapPut(c) PROVE Honest
  <2>1. cm # NoMap /\ copy[c] # "stale" /\ cm' = Written(c)
    BY <1>3 DEF CmapPut
  <2>2. call[c] # "aux" /\ cm'.by = c
    BY <2>1 DEF Written
  <2>3. copy[c] = "fresh" => ~cm.lock
    BY <1>t, <1>3, <2>2 DEF Calls, CmapPut
  <2>4. copy[c] = "new" => pc[c] = "first"
    BY <1>t, <1>3 DEF Calls, Calling, CmapPut
  <2>5. copy[c] \in {"new", "fresh"}
    BY <1>t, <1>3, <2>1 DEF TypeOK, Calls, CmapPut
  <2> QED
    BY <2>1, <2>2, <2>3, <2>4, <2>5 DEF Honest
<1>4. ASSUME NEW c \in Cmds, CmapRecreate(c) PROVE Honest
  <2>1. cm = NoMap /\ copy[c] = "new"
        /\ cm' = [status |-> want[c], by |-> c, lock |-> FALSE, shadow |-> FALSE]
    BY <1>4 DEF CmapRecreate
  <2>2. pc[c] = "first"
    BY <1>t, <1>4, <2>1 DEF CmapRecreate, Calls, Calling
  <2> QED
    BY <2>1, <2>2 DEF Honest
<1>5. ASSUME NEW c \in Cmds, DestroyConfigMap(c) PROVE Honest
  BY <1>5 DEF DestroyConfigMap, Honest
<1>6. BackendLock \/ \E c \in Cmds : CmapCreate(c) \/ CmapPut(c) \/ CmapRecreate(c)
                                      \/ DestroyConfigMap(c)
  <2>1. ASSUME NEW c \in Cmds,
           BeginDeploy(c) \/ BeginDestroy(c) \/ Exit(c) \/ Kill(c) \/ Interrupt(c) \/
           CleanUpOnInterrupt(c) \/ LeaveOnInterrupt(c) \/ CmapGet(c)
        PROVE  cm' = cm
    BY <2>1 DEF BeginDeploy, BeginDestroy, Exit, Kill, Interrupt, CleanUpOnInterrupt,
       LeaveOnInterrupt, CmapGet, Goto, Finish, StartProcess, kvars
  <2>2. ASSUME NEW c \in Cmds,
           CmapLook(c) \/ LoadManifest(c) \/ AfterFirst(c) \/ DeployDependencies(c) \/
           BuildImages(c) \/ RecreateFailedPods(c) \/ GetDeployer(c) \/ DeployRemote(c)
        PROVE  cm' = cm
    BY <2>2 DEF CmapLook, LoadManifest, AfterFirst, DeployDependencies, BuildImages,
       RecreateFailedPods, GetDeployer, DeployRemote, Start, TranslateConfigMapAndDeploy,
       Goto, Finish, UpdateConfigMap, SetBuildEnvVars, Step, kvars
  <2>3. ASSUME NEW c \in Cmds,
           ModifyKubeconfig(c) \/ StartProxy(c) \/ RunCommands(c) \/ AfterPhase(c) \/
           AfterEnvs(c) \/ DeployExternals(c) \/ RunnerCleanUp(c) \/ DeployStack(c)
        PROVE  cm' = cm
    BY <2>3 DEF ModifyKubeconfig, StartProxy, RunCommands, AfterPhase, AfterEnvs,
       DeployExternals, RunnerCleanUp, DeployStack, Start, UpdateConfigMap, Goto,
       AddPhaseDuration, UpdateEnvs, Step, kvars
  <2>4. ASSUME NEW c \in Cmds,
           AfterComposePhase(c) \/ DeployEndpoints(c) \/ DeployDivert(c) \/
           HasDeployedSomething(c) \/ WaitForResourcesToBeRunning(c) \/ AfterStatus(c) \/
           PrepareDestroy(c) \/ DestroyDependencies(c)
        PROVE  cm' = cm
    BY <2>4 DEF AfterComposePhase, DeployEndpoints, DeployDivert, HasDeployedSomething,
       WaitForResourcesToBeRunning, AfterStatus, PrepareDestroy, DestroyDependencies, Start,
       UpdateConfigMap, Goto, Finish, TranslateConfigMapAndDeploy, SetErrorStatus, kvars
  <2>5. ASSUME NEW c \in Cmds,
           DestroyDivert(c) \/ RunDestroyCommands(c) \/ DestroySFSVolumes(c) \/
           DestroyHelmReleases(c) \/ DestroyWithLabel(c)
        PROVE  cm' = cm
    BY <2>5 DEF DestroyDivert, RunDestroyCommands, DestroySFSVolumes, DestroyHelmReleases,
       DestroyWithLabel, Goto, Finish, Start, SetErrorStatus, kvars
  <2>6. UNCHANGED vars => cm' = cm
    BY DEF vars
  <2> QED
    BY <2>1, <2>2, <2>3, <2>4, <2>5, <2>6 DEF Next, CmapCall, DeployRun, DestroyRun
<1> QED
  BY <1>1, <1>2, <1>3, <1>4, <1>5, <1>6

\* A destroyed environment does not come back (configmaps.Deploy at crud.go:54-92).
THEOREM NeverResurrected == Spec => NotResurrected
<1>1. IInv /\ [Next]_vars => [cm = NoMap /\ cm' # NoMap =>
        cm'.by = NoMap \/ (cm'.by \in Cmds /\ pc[cm'.by] = "first")]_vars
  BY StepsAreHonest DEF Honest
<1> QED
  BY <1>1, EnvironmentInvariance, PTL DEF Spec, NotResurrected

\* The lock of a pipeline action is honoured (translate.go:368-380).
THEOREM LocksAreHonoured == Spec => LockIsHonoured
<1>1. IInv /\ [Next]_vars => [cm # NoMap /\ cm.lock /\ cm' # NoMap /\ cm' # cm =>
        \/ cm'.by = cm.by /\ cm'.status = cm.status
        \/ cm'.by \in Cmds /\ copy[cm'.by] = "new" /\ pc[cm'.by] = "first"]_vars
  BY StepsAreHonest DEF Honest
<1> QED
  BY <1>1, EnvironmentInvariance, PTL DEF Spec, LockIsHonoured
=============================================================================
