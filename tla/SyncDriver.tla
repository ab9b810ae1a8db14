----------------------------- MODULE SyncDriver -----------------------------
(***************************************************************************)
(* The file synchronization of `okteto up` (pkg/syncthing and              *)
(* cmd/up/syncthing.go): the waits of the start-up, the loop that waits    *)
(* for the first synchronization, the restart in both directions, and the  *)
(* two goroutines that watch Syncthing afterwards.  The local and the      *)
(* remote Syncthing are external: they scan, transfer, fail and recover at *)
(* any time.                                                               *)
(***************************************************************************)
EXTENDS Integers, FiniteSets

CONSTANTS
  NFolders,          \* the synchronized folders
  MaxRetries,        \* maxRetries of the health and ping counters (3)
  MaxGlobalRetries,  \* readings before a database reset (360)
  MaxDeletesRetries, \* maxNeedDeletesRetries (50)
  HealthPeriod       \* turns of the loop between two health checks (40)

ASSUME CountsAssumption ==
  /\ NFolders \in Nat \ {0} /\ MaxRetries \in Nat \ {0} /\ HealthPeriod \in Nat \ {0}
  /\ MaxGlobalRetries \in Nat /\ MaxDeletesRetries \in Nat

VARIABLES
  pc,          \* the goroutine of up.sync
  folder,      \* the folder it waits for
  err,         \* what up.sync returned
  cachedStatus,      \* cachedStatus[side], for all the folders of the side
  overwritten, \* the folders with Overwritten set
  turn,        \* the turns of the completion loop, modulo HealthPeriod
  lc, rc,      \* localCompletion and remoteCompletion
  prev,        \* the previous global bytes, local and remote
  globalRetries, deletesRetries,
  healthRetries,     \* isHealthyRetries, shared by every check
  pings,       \* the failed rounds of Monitor
  monitor,     \* the goroutine Monitor
  statusPc,    \* the goroutine MonitorStatus: which side comes next
  disconnect,  \* the channel up.Disconnect
  cancelled,   \* the context of the activation is cancelled
  scan,        \* scan[side][f]: the folder is being scanned
  asked,       \* asked[side]: this Syncthing was asked for state changes before
  event,       \* event[side][f]: a state change since that first question
  seen,        \* the sides whose first folder was really seen scanned (a history
               \* variable, like the next one)
  stale,       \* the others whose cached `idle' is that of an earlier activation
  localClean   \* MonitorStatus has found the local side without errors every time

wfcVars == <<overwritten, turn, lc, rc, prev, globalRetries, deletesRetries>>
monitorVars == <<pings, monitor, statusPc, disconnect>>
worldVars == <<scan, asked, event>>
historyVars == <<seen, stale>>
vars == <<pc, folder, err, cachedStatus, wfcVars, healthRetries, monitorVars, cancelled, historyVars,
          localClean, worldVars>>

Sides == {"local", "remote"}
Folders == 1..NFolders
Bytes == 0..1
\* An APICall after its retries: an answer, a Client.Timeout, another error.
Answers == {"ok", "busy", "lost"}
\* The same for the question about pull errors, whose answer is their kind.
HealthAnswers == {"none", "space", "other", "busy", "lost"}
\* The answers about the synchronization; Syncthing moves between two questions.
Readings == [global : Bytes, need : Bytes, deletes : Bytes]

\* The cached status and the counter of the health checks belong to the package: an
\* activation finds those of the one before.  The local Syncthing is a new process;
\* the remote one may have run, scanned and been asked before.
Init ==
  /\ pc = "ping local" /\ folder = 1 /\ err = "none"
  /\ cachedStatus \in [Sides -> {"unset", "scanning", "idle"}]
  /\ overwritten = {} /\ turn = 0
  /\ lc = [global |-> 0, need |-> 0, deletes |-> 0] /\ rc = lc
  /\ prev = [local |-> 0, remote |-> 0]
  /\ globalRetries = 0 /\ deletesRetries = 0 /\ healthRetries \in 0..MaxRetries + 1
  /\ pings = 0 /\ monitor = "off" /\ statusPc = "off" /\ disconnect = "empty"
  /\ cancelled = FALSE
  /\ \E scanning, changed \in [Folders -> BOOLEAN], before \in BOOLEAN :
       /\ \A f \in Folders : changed[f] => before
       /\ scan = [s \in Sides |-> IF s = "local" THEN [f \in Folders |-> TRUE] ELSE scanning]
       /\ event = [s \in Sides |-> IF s = "local" THEN [f \in Folders |-> FALSE] ELSE changed]
       /\ asked = [s \in Sides |-> s = "remote" /\ before]
  /\ seen = {}
  /\ stale = {s \in Sides : cachedStatus[s] = "idle"}
  /\ localClean = TRUE

Fail(e) == pc' = "failed" /\ err' = e
Goto(p) == pc' = p /\ UNCHANGED err
Running(p) == pc = p /\ ~cancelled

-----------------------------------------------------------------------------
\* The start-up.

\* IdentifyReadinessIssue: what the log of a Syncthing that does not answer says.
IdentifyReadinessIssue == {"not responding", "insufficient space on user disk"}

\* WaitForPing: a Client.Timeout counts as an answer.  After the timeout the log
\* of the local Syncthing says whether the disk is full.
WaitForPing(side, next) ==
  /\ Running(IF side = "local" THEN "ping local" ELSE "ping remote")
  /\ Goto(next) \/ \E e \in IdentifyReadinessIssue : Fail(e)
  /\ UNCHANGED <<folder, cachedStatus, wfcVars, healthRetries, monitorVars, cancelled, historyVars, localClean, worldVars>>

Status(side, f) == IF scan[side][f] THEN "scanning" ELSE "idle"

\* GetSyncthingStatus: the last state change since the first question, or the
\* cached answer, or the last state change of the whole history, which is
\* cached for the side.
GetSyncthingStatus(side, f, answer) ==
  IF answer # "ok" THEN [status |-> "unknown", cache |-> cachedStatus[side]]
  ELSE IF event[side][f] THEN [status |-> Status(side, f), cache |-> cachedStatus[side]]
  ELSE IF cachedStatus[side] # "unset" THEN [status |-> cachedStatus[side], cache |-> cachedStatus[side]]
  ELSE [status |-> Status(side, f), cache |-> Status(side, f)]

\* One turn of waitForFolderScanning.  A question that is not answered in time may
\* have been received.
WaitForScanning(side, next) ==
  /\ Running(IF side = "local" THEN "scan local" ELSE "scan remote")
  /\ \E answer \in Answers :
       LET got == GetSyncthingStatus(side, folder, answer)
       IN /\ cachedStatus' = [cachedStatus EXCEPT ![side] = got.cache]
          /\ \E received \in {TRUE, answer = "ok"} : asked' = [asked EXCEPT ![side] = @ \/ received]
          /\ \/ answer = "lost" /\ Fail("lost") /\ UNCHANGED <<folder, historyVars>>
             \/ /\ got.status = "idle"
                /\ seen' = seen \cup {s \in {side} : folder = 1 /\ ~scan[side][1]}
                /\ stale' = stale \ seen'
                /\ IF folder = NFolders THEN folder' = 1 /\ Goto(next)
                                        ELSE folder' = folder + 1 /\ UNCHANGED <<pc, err>>
             \/ /\ answer # "lost" /\ got.status # "idle" /\ UNCHANGED <<folder, historyVars>>
                /\ UNCHANGED <<pc, err>> \/ Fail("scan not completed")
  /\ UNCHANGED <<wfcVars, healthRetries, monitorVars, cancelled, localClean, scan, event>>

\* The state of the folders is not read any more: it is given one value.
WaitForConnected ==
  /\ Running("connect")
  /\ \/ Goto("complete")
     \/ Fail("busy") \/ Fail("lost")
  /\ scan' = [s \in Sides |-> [f \in Folders |-> FALSE]]
  /\ event' = [s \in Sides |-> [f \in Folders |-> TRUE]] /\ asked' = [s \in Sides |-> TRUE]
  /\ UNCHANGED <<folder, cachedStatus, wfcVars, healthRetries, monitorVars, cancelled, historyVars, localClean>>

-----------------------------------------------------------------------------
\* The health check, and the loop of WaitForCompletion.

\* GetFolderErrors: the cause of pull errors, or why it is not known.
GetFolderErrors(pull, answer) == IF answer # "ok" THEN answer ELSE pull

\* IsHealthy: the counter after the check, and its error.  The first answer is
\* the one about pull errors, the second the one about their cause.
IsHealthy(pull, answer) ==
  LET n == IF healthRetries > MaxRetries THEN healthRetries ELSE healthRetries + 1
      cause == GetFolderErrors(pull, answer)
  IN CASE pull = "busy" -> [count |-> healthRetries, err |-> "nil"]
       [] pull = "lost" -> [count |-> healthRetries, err |-> "lost"]
       [] pull = "none" -> [count |-> 0, err |-> "nil"]
       [] pull \in {"space", "other"} ->
            [count |-> n,
             err |-> IF cause = "space" THEN "space"
                     ELSE IF n <= MaxRetries THEN "nil"
                     ELSE IF cause = "busy" THEN "unknown" ELSE cause]

\* The health check of every HealthPeriod-th turn, of the remote side only.
LoopHealth ==
  /\ Running("complete")
  /\ turn' = (turn + 1) % HealthPeriod
  /\ IF turn' = 0
     THEN \E pull \in HealthAnswers, answer \in Answers :
            LET h == IsHealthy(pull, answer)
            IN healthRetries' = h.count /\ IF h.err = "nil" THEN Goto("overwrite") ELSE Fail(h.err)
     ELSE Goto("overwrite") /\ UNCHANGED healthRetries
  /\ UNCHANGED <<folder, cachedStatus, overwritten, lc, rc, prev, globalRetries, deletesRetries,
                 monitorVars, cancelled, historyVars, localClean, worldVars>>

\* Variant: a busy Syncthing is asked again at once.
OverwriteAgain ==
  /\ Running("overwrite")
  /\ \/ \E f \in 0..NFolders - 1 :
          /\ overwritten' = overwritten \cup 1..f
          /\ turn' = (turn + 1) % HealthPeriod
          /\ Fail("lost") \/ UNCHANGED <<pc, err>>
     \/ overwritten' = Folders /\ Goto("progress") /\ UNCHANGED turn
  /\ UNCHANGED <<folder, cachedStatus, lc, rc, prev, globalRetries, deletesRetries, healthRetries,
                 monitorVars, cancelled, historyVars, localClean, worldVars>>

\* Overwrite: the folders in order until one is not answered.
Overwrite ==
  /\ Running("overwrite")
  /\ \/ \E f \in 0..NFolders - 1 :
          /\ overwritten' = overwritten \cup 1..f
          /\ Fail("lost") \/ Goto("progress")   \* a busy Syncthing is tried again later
     \/ overwritten' = Folders /\ Goto("progress")
  /\ UNCHANGED <<folder, cachedStatus, turn, lc, rc, prev, globalRetries, deletesRetries, healthRetries,
                 monitorVars, cancelled, historyVars, localClean, worldVars>>

\* computeProgress asks the two sides one after the other.
GetCompletionLocal ==
  /\ Running("progress")
  /\ \/ lc' \in Readings /\ Goto("progress remote")
     \/ Goto("complete") /\ UNCHANGED lc
     \/ Fail("lost") /\ UNCHANGED lc
  /\ UNCHANGED <<folder, cachedStatus, overwritten, turn, rc, prev, globalRetries, deletesRetries,
                 healthRetries, monitorVars, cancelled, historyVars, localClean, worldVars>>

GetCompletionRemote ==
  /\ Running("progress remote")
  /\ \/ rc' \in {r \in Readings : r.deletes = 0} /\ Goto("decide")
     \/ Goto("complete") /\ UNCHANGED rc
     \/ Fail("lost") /\ UNCHANGED rc
  /\ UNCHANGED <<folder, cachedStatus, overwritten, turn, lc, prev, globalRetries, deletesRetries,
                 healthRetries, monitorVars, cancelled, historyVars, localClean, worldVars>>

\* The counter of needsDatabaseReset: readings in a row in which the two sides
\* differ and neither moves.
GlobalRetriesAfter ==
  IF lc.global = rc.global \/ lc.global # prev.local \/ rc.global # prev.remote
  THEN 0 ELSE globalRetries + 1

DeletesRetriesAfter ==
  IF lc.need = rc.need /\ lc.need = 0 /\ lc.global = rc.global /\ lc.deletes > 0
  THEN deletesRetries + 1 ELSE deletesRetries

\* Variant: the folders that were not overwritten are forgotten.
isCompletedBytes ==
  /\ lc.need = rc.need /\ lc.need = 0 /\ lc.global = rc.global
  /\ lc.deletes > 0 => DeletesRetriesAfter >= MaxDeletesRetries

isCompleted ==
  /\ lc.need = rc.need /\ lc.need = 0 /\ lc.global = rc.global
  /\ lc.deletes > 0 => DeletesRetriesAfter >= MaxDeletesRetries
  /\ overwritten = Folders

Decide ==
  /\ Running("decide")
  /\ globalRetries' = GlobalRetriesAfter
  /\ prev' = IF GlobalRetriesAfter = 0 THEN [local |-> lc.global, remote |-> rc.global] ELSE prev
  /\ IF GlobalRetriesAfter > MaxGlobalRetries
     THEN Fail("needs reset") /\ UNCHANGED deletesRetries
     ELSE /\ deletesRetries' = IF DeletesRetriesAfter > MaxDeletesRetries THEN deletesRetries
                               ELSE DeletesRetriesAfter
          /\ IF isCompleted THEN Goto("restart") ELSE Goto("complete")
  /\ UNCHANGED <<folder, cachedStatus, overwritten, turn, lc, rc, healthRetries, monitorVars, cancelled,
                 historyVars, localClean, worldVars>>

\* The configuration becomes sendreceive, the monitors start, Syncthing restarts.
Restart ==
  /\ Running("restart")
  /\ lc' = [global |-> 0, need |-> 0, deletes |-> 0] /\ rc' = lc'   \* out of scope by now
  /\ prev' = [local |-> 0, remote |-> 0] /\ turn' = 0 /\ globalRetries' = 0 /\ deletesRetries' = 0
  /\ \/ Goto("synced") /\ monitor' = "on" /\ statusPc' = "local"
     \/ Fail("lost") /\ monitor' = "on" /\ statusPc' = "local"
     \/ Fail("config file") /\ UNCHANGED <<monitor, statusPc>>
  /\ UNCHANGED <<folder, cachedStatus, overwritten, healthRetries, pings,
                 disconnect, cancelled, historyVars, localClean, worldVars>>

-----------------------------------------------------------------------------
\* The goroutines that watch Syncthing.

Send(e) == disconnect = "empty" /\ disconnect' = e

\* A round of Monitor: the local Syncthing, then the remote one.
Monitor ==
  /\ monitor = "on" /\ ~cancelled
  /\ \/ pings' = 0 /\ UNCHANGED <<monitor, disconnect>>
     \/ /\ pings < MaxRetries /\ pings' = pings + 1 /\ UNCHANGED <<monitor, disconnect>>
     \/ /\ pings >= MaxRetries /\ Send("lost") /\ monitor' = "off" /\ UNCHANGED pings
  /\ UNCHANGED <<pc, folder, err, cachedStatus, wfcVars, healthRetries, statusPc, cancelled, historyVars, localClean, worldVars>>

\* A check of MonitorStatus; the remote side only after a good local one.
MonitorStatus(side) ==
  /\ statusPc = side /\ ~cancelled
  /\ \E pull \in HealthAnswers, answer \in Answers :
       LET h == IsHealthy(pull, answer)
       IN /\ healthRetries' = h.count
          /\ localClean' = (localClean /\ (side = "local" => pull = "none"))
          /\ \/ /\ h.err \in {"nil", "busy", "lost"} /\ UNCHANGED disconnect
                /\ statusPc' = IF side = "local" /\ h.err = "nil" THEN "remote" ELSE "local"
             \/ h.err \notin {"nil", "busy", "lost"} /\ Send(h.err) /\ statusPc' = "off"
  /\ UNCHANGED <<pc, folder, err, cachedStatus, wfcVars, pings, monitor, cancelled, historyVars, worldVars>>

\* The end of the activation (up.go): it takes one message, or ends by itself.
EndActivation ==
  /\ ~cancelled
  /\ \/ disconnect # "empty" /\ disconnect' = "empty"
     \/ pc \in {"synced", "failed"} /\ UNCHANGED disconnect
     \/ UNCHANGED disconnect   \* CTRL+C, the pod is lost
  /\ cancelled' = TRUE
  /\ UNCHANGED <<pc, folder, err, cachedStatus, wfcVars, healthRetries, pings, monitor, statusPc, historyVars, localClean, worldVars>>

-----------------------------------------------------------------------------
\* A Syncthing ends the scan of a folder.

ScanStep(side, f) ==
  /\ pc \in {"ping local", "ping remote", "scan local", "scan remote"}
  /\ scan[side][f] /\ scan' = [scan EXCEPT ![side][f] = FALSE]
  /\ event' = [event EXCEPT ![side][f] = asked[side]]
  /\ ~cancelled
  /\ UNCHANGED <<pc, folder, err, cachedStatus, wfcVars, healthRetries, monitorVars, cancelled, asked, historyVars, localClean>>

Sync ==
  \/ WaitForPing("local", "ping remote") \/ WaitForPing("remote", "scan local")
  \/ WaitForScanning("local", "scan remote") \/ WaitForScanning("remote", "connect")
  \/ WaitForConnected \/ LoopHealth \/ Overwrite \/ GetCompletionLocal \/ GetCompletionRemote
  \/ Decide \/ Restart

Done == cancelled /\ UNCHANGED vars

Next == Sync \/ Monitor \/ MonitorStatus("local") \/ MonitorStatus("remote") \/ EndActivation
        \/ (\E s \in Sides, f \in Folders : ScanStep(s, f)) \/ Done

Spec == Init /\ [][Next]_vars

-----------------------------------------------------------------------------
\* The goroutines run; Syncthing and the end of the activation need not.
FairSpec ==
  /\ Spec /\ WF_vars(Sync) /\ WF_vars(Monitor)
  /\ WF_vars(MonitorStatus("local")) /\ WF_vars(MonitorStatus("remote"))

PlaceTypes ==
  /\ pc \in {"ping local", "ping remote", "scan local", "scan remote", "connect", "complete", "overwrite",
             "progress", "progress remote", "decide", "restart", "synced", "failed"}
  /\ folder \in Folders
  /\ cachedStatus \in [Sides -> {"unset", "scanning", "idle"}]
  /\ overwritten \subseteq Folders /\ seen \subseteq Sides
  /\ disconnect \in {"empty", "lost", "space", "unknown", "other"}

CounterTypes ==
  /\ turn \in 0..HealthPeriod - 1
  /\ globalRetries \in 0..MaxGlobalRetries + 1 /\ deletesRetries \in 0..MaxDeletesRetries
  /\ healthRetries \in 0..MaxRetries + 1 /\ pings \in 0..MaxRetries

TypeOK == PlaceTypes /\ CounterTypes

\* The synchronization is declared done only after every folder was overwritten
\* with the local files, whatever answers were lost on the way (completion.go).
SyncedMeansOverwritten == pc \in {"restart", "synced"} => overwritten = Folders

\* The wait for the scan has really seen the first folder of each side scanned,
\* unless an earlier activation left `idle' in the cache, which is never emptied.
\* The other folders may be answered with the first one's state, because the cache
\* holds one status per side (syncthing.go:49, 634).
FirstFolderScanned ==
  /\ pc \in {"scan remote", "connect", "complete"} => "local" \in seen \cup stale
  /\ pc \in {"connect", "complete"} => "remote" \in seen \cup stale

\* A database reset is asked for only when the two sides disagree on the bytes
\* and neither has moved since the disagreement began (completion.go:134-150).
ResetMeansStuck ==
  err = "needs reset" =>
    lc.global # rc.global /\ prev = [local |-> lc.global, remote |-> rc.global]

\* As long as the local side is healthy MonitorStatus reports no errors of the
\* remote side but a full disk: the local check resets the counter they share
\* before every remote one (syncthing.go:583).
RemoteErrorsAloneAreSilent == localClean => disconnect \notin {"unknown", "other"}

\* What the synchronization reports is so, whatever an earlier activation left in the
\* cache and in the counter: it is complete only after the folders were overwritten,
\* the first folder was scanned (unless the cache was `idle' from the start), a reset
\* means that nothing moved, and errors of the remote side alone are the only ones
\* that are not told.
SyncTellsTheTruth ==
  TypeOK /\ SyncedMeansOverwritten /\ FirstFolderScanned /\ ResetMeansStuck /\ RemoteErrorsAloneAreSilent

\* The wait for the first synchronization always comes back to its reading of
\* the two sides: no order of answers leaves it waiting (completion.go:57).
LoopGoesOn == (pc = "overwrite") ~> (pc \in {"complete", "restart", "failed"} \/ cancelled)

-----------------------------------------------------------------------------
\* What makes SyncTellsTheTruth inductive.

ReadingTypes ==
  lc \in Readings /\ rc \in Readings /\ prev \in [local : Bytes, remote : Bytes]

WorldTypes ==
  /\ scan \in [Sides -> [Folders -> BOOLEAN]] /\ event \in [Sides -> [Folders -> BOOLEAN]]
  /\ asked \in [Sides -> BOOLEAN] /\ stale \subseteq Sides

Pings == {"ping local", "ping remote"}

\* An error ends the goroutine; until then the reset counter is within its limit.
Failures ==
  /\ err # "none" => pc = "failed"
  /\ pc # "failed" => globalRetries <= MaxGlobalRetries

\* A folder that was seen scanned is not scanned again, and unless it is that of an
\* earlier activation, the cache says so only after the scan of the first folder.
CacheIsFirst ==
  /\ \A s \in Sides : cachedStatus[s] = "idle" /\ s \notin stale => ~scan[s][1]
  /\ \A s \in seen : ~scan[s][1]
  /\ pc \in Pings => folder = 1

\* The side whose wait is over, or has left the first folder, was seen there, or its
\* cache is that of an earlier activation.
FirstWasSeen ==
  /\ pc = "scan local" /\ folder # 1 => "local" \in seen \cup stale
  /\ pc = "scan remote" /\ folder # 1 => "remote" \in seen \cup stale
  /\ pc \notin Pings \cup {"scan local", "failed"} => "local" \in seen \cup stale
  /\ pc \notin Pings \cup {"scan local", "scan remote", "failed"} => "remote" \in seen \cup stale

\* The monitors run after the loop, and a clean local check has reset the counter
\* that the remote check uses next.
CounterIsReset ==
  /\ statusPc # "off" => pc \in {"synced", "failed"}
  /\ statusPc = "remote" /\ localClean => healthRetries = 0

SyncIInv ==
  /\ TypeOK /\ ReadingTypes /\ WorldTypes /\ Failures /\ CacheIsFirst /\ FirstWasSeen /\ CounterIsReset
  /\ SyncedMeansOverwritten /\ ResetMeansStuck /\ RemoteErrorsAloneAreSilent
=============================================================================
