--------------------------- MODULE Tunnels_proofs ---------------------------
(***************************************************************************)
(* Which ports an activation serves, for every manifest and any number of  *)
(* reconnections, and what the file synchronization reports, for any       *)
(* number of folders and any limits of its counters.                       *)
(*                                                                         *)
(* ForwardSetup: that the forwards are up when the manager starts depends  *)
(* on what the marks of the earlier turns mean, which ForwardsSoFar and    *)
(* ReversesSoFar say turn by turn.  SyncDriver: that the first folder was  *)
(* really scanned depends on the order in which the cache of a side, its   *)
(* events and its scans can change (CacheIsFirst), and that errors of the  *)
(* remote side stay silent on who has reset the counter (CounterIsReset).  *)
(***************************************************************************)
EXTENDS SyncDriver, ForwardSetup, TLAPS

\* The first activation satisfies the invariant.
LEMMA SetupStart == SetupInit => SetupIInv
<1> SUFFICES ASSUME SetupInit PROVE SetupIInv
  OBVIOUS
<1>1. 1 \in 1..MaxActivations
  BY ActivationsAssumption DEF ActivationsAssumption
<1>2. SetupTypeOK
  BY <1>1 DEF SetupInit, SetupTypeOK, Ports
<1>3. ForwardsSoFar /\ ReversesSoFar /\ ReversesAreAdded
  BY DEF SetupInit, ForwardsSoFar, ReversesSoFar, ReversesAreAdded
<1>4. GlobalsSoFar /\ GlobalsAreStarted /\ NoPortTwice
  BY DEF SetupInit, GlobalsSoFar, GlobalsAreStarted, NoPortTwice
<1> QED
  BY <1>2, <1>3, <1>4 DEF SetupIInv

\* Every step of the set-up preserves it.
LEMMA SetupStep == SetupIInv /\ [SetupNext]_setupVars => SetupIInv'
<1> SUFFICES ASSUME SetupIInv, [SetupNext]_setupVars PROVE SetupIInv'
  OBVIOUS
<1>t. SetupTypeOK
  BY DEF SetupIInv
<1>f. ForwardsSoFar
  BY DEF SetupIInv
<1>r. ReversesSoFar
  BY DEF SetupIInv
<1>a. ReversesAreAdded
  BY DEF SetupIInv
<1>g. GlobalsSoFar
  BY DEF SetupIInv
<1>n. NoPortTwice
  BY DEF SetupIInv
<1>s. GlobalsAreStarted
  BY DEF SetupIInv
<1>1. ASSUME NEW p \in Ports, AddForward(p) PROVE SetupIInv'
  <2>1. SetupTypeOK'
    BY <1>t, <1>1 DEF SetupTypeOK, AddForward, canAdd, ByLabels
  <2>2. ForwardsSoFar'
    BY <1>f, <1>t, <1>1 DEF ForwardsSoFar, Served, ByLabels, SetupTypeOK, AddForward, canAdd
  <2>3. ReversesSoFar'
    BY <1>r, <1>t, <1>f, <1>1 DEF ReversesSoFar, SetupTypeOK, ForwardsSoFar, AddForward,
       canAdd, ByLabels
  <2>4. ReversesAreAdded'
    BY <1>a, <1>t, <1>r, <1>1 DEF ReversesAreAdded, SetupTypeOK, ReversesSoFar, AddForward,
       canAdd, ByLabels
  <2>5. GlobalsSoFar'
    BY <1>g, <1>t, <1>1 DEF GlobalsSoFar, SetupTypeOK, AddForward, canAdd, ByLabels
  <2>6. NoPortTwice'
    BY <1>n, <1>t, <1>1 DEF NoPortTwice, SetupTypeOK, AddForward, canAdd, ByLabels
  <2>7. GlobalsAreStarted'
    BY <1>s, <1>g, <1>t, <1>1
    DEF GlobalsAreStarted, GlobalsSoFar, SetupTypeOK, AddForward, canAdd, ByLabels
  <2> QED
    BY <2>1, <2>2, <2>3, <2>4, <2>5, <2>6, <2>7 DEF SetupIInv
<1>2. ASSUME NEW p \in Ports, AddReverse(p) PROVE SetupIInv'
  <2>1. SetupTypeOK'
    BY <1>t, <1>2 DEF SetupTypeOK, AddReverse, canAdd
  <2>2. ForwardsSoFar'
    BY <1>f, <1>t, <1>2 DEF ForwardsSoFar, Served, ByLabels, SetupTypeOK, AddReverse, canAdd
  <2>3. ReversesSoFar'
    BY <1>r, <1>t, <1>f, <1>2 DEF ReversesSoFar, SetupTypeOK, ForwardsSoFar, AddReverse,
       canAdd
  <2>4. ReversesAreAdded'
    BY <1>a, <1>t, <1>r, <1>2 DEF ReversesAreAdded, SetupTypeOK, ReversesSoFar, AddReverse,
       canAdd
  <2>5. GlobalsSoFar'
    BY <1>g, <1>t, <1>2 DEF GlobalsSoFar, SetupTypeOK, AddReverse, canAdd
  <2>6. NoPortTwice'
    BY <1>n, <1>t, <1>2 DEF NoPortTwice, SetupTypeOK, AddReverse, canAdd
  <2>7. GlobalsAreStarted'
    BY <1>s, <1>g, <1>t, <1>2
    DEF GlobalsAreStarted, GlobalsSoFar, SetupTypeOK, AddReverse, canAdd
  <2> QED
    BY <2>1, <2>2, <2>3, <2>4, <2>5, <2>6, <2>7 DEF SetupIInv
<1>3. ASSUME NEW p \in Ports, TakePort(p) PROVE SetupIInv'
  <2>1. SetupTypeOK'
    BY <1>t, <1>3 DEF SetupTypeOK, TakePort
  <2>2. ForwardsSoFar'
    BY <1>f, <1>t, <1>3 DEF ForwardsSoFar, Served, ByLabels, SetupTypeOK, TakePort
  <2>3. ReversesSoFar'
    BY <1>r, <1>t, <1>f, <1>3 DEF ReversesSoFar, SetupTypeOK, ForwardsSoFar, TakePort
  <2>4. ReversesAreAdded'
    BY <1>a, <1>t, <1>r, <1>3 DEF ReversesAreAdded, SetupTypeOK, ReversesSoFar, TakePort
  <2>5. GlobalsSoFar'
    BY <1>g, <1>t, <1>3 DEF GlobalsSoFar, SetupTypeOK, TakePort
  <2>6. NoPortTwice'
    BY <1>n, <1>t, <1>3 DEF NoPortTwice, SetupTypeOK, TakePort
  <2>7. GlobalsAreStarted'
    BY <1>s, <1>g, <1>t, <1>3
    DEF GlobalsAreStarted, GlobalsSoFar, SetupTypeOK, TakePort
  <2> QED
    BY <2>1, <2>2, <2>3, <2>4, <2>5, <2>6, <2>7 DEF SetupIInv
<1>4. CASE ForwardsTurnEnds
  <2>1. SetupTypeOK'
    BY <1>t, <1>4 DEF SetupTypeOK, ForwardsTurnEnds, Ports
  <2>2. ForwardsSoFar'
    BY <1>f, <1>t, <1>4 DEF ForwardsSoFar, Served, ByLabels, SetupTypeOK, ForwardsTurnEnds
  <2>3. ReversesSoFar'
    BY <1>r, <1>t, <1>f, <1>4 DEF ReversesSoFar, SetupTypeOK, ForwardsSoFar,
       ForwardsTurnEnds
  <2>4. ReversesAreAdded'
    BY <1>a, <1>t, <1>r, <1>4 DEF ReversesAreAdded, SetupTypeOK, ReversesSoFar,
       ForwardsTurnEnds
  <2>5. GlobalsSoFar'
    BY <1>g, <1>t, <1>4 DEF GlobalsSoFar, SetupTypeOK, ForwardsTurnEnds
  <2>6. NoPortTwice'
    BY <1>n, <1>t, <1>4 DEF NoPortTwice, SetupTypeOK, ForwardsTurnEnds
  <2>7. GlobalsAreStarted'
    BY <1>s, <1>g, <1>t, <1>4
    DEF GlobalsAreStarted, GlobalsSoFar, SetupTypeOK, ForwardsTurnEnds
  <2> QED
    BY <2>1, <2>2, <2>3, <2>4, <2>5, <2>6, <2>7 DEF SetupIInv
<1>5. CASE StartForwarder
  <2>1. SetupTypeOK'
    BY <1>t, <1>5 DEF SetupTypeOK, StartForwarder, isNeededGlobalForwarder, Ports
  <2>2. ForwardsSoFar'
    BY <1>f, <1>t, <1>5 DEF ForwardsSoFar, Served, ByLabels, SetupTypeOK, StartForwarder,
       isNeededGlobalForwarder
  <2>3. ReversesSoFar'
    BY <1>r, <1>t, <1>f, <1>5 DEF ReversesSoFar, SetupTypeOK, ForwardsSoFar, StartForwarder,
       isNeededGlobalForwarder
  <2>4. ReversesAreAdded'
    BY <1>a, <1>t, <1>r, <1>5 DEF ReversesAreAdded, SetupTypeOK, ReversesSoFar,
       StartForwarder, isNeededGlobalForwarder
  <2>5. GlobalsSoFar'
    BY <1>g, <1>t, <1>5 DEF GlobalsSoFar, SetupTypeOK, StartForwarder,
       isNeededGlobalForwarder
  <2>6. NoPortTwice'
    BY <1>n, <1>t, <1>5 DEF NoPortTwice, SetupTypeOK, StartForwarder,
       isNeededGlobalForwarder
  <2>7. GlobalsAreStarted'
    BY <1>s, <1>g, <1>t, <1>5
    DEF GlobalsAreStarted, GlobalsSoFar, SetupTypeOK, StartForwarder, isNeededGlobalForwarder
  <2> QED
    BY <2>1, <2>2, <2>3, <2>4, <2>5, <2>6, <2>7 DEF SetupIInv
<1>6. CASE addGlobalForwards
  <2>1. SetupTypeOK'
    BY <1>t, <1>6 DEF SetupTypeOK, addGlobalForwards, canAdd, IsRefused, Ports
  <2>2. ForwardsSoFar'
    BY <1>f, <1>t, <1>6 DEF ForwardsSoFar, Served, ByLabels, SetupTypeOK, addGlobalForwards,
       canAdd
  <2>3. ReversesSoFar'
    BY <1>r, <1>t, <1>f, <1>6 DEF ReversesSoFar, SetupTypeOK, ForwardsSoFar,
       addGlobalForwards, canAdd
  <2>4. ReversesAreAdded'
    BY <1>a, <1>t, <1>r, <1>6 DEF ReversesAreAdded, SetupTypeOK, ReversesSoFar,
       addGlobalForwards, canAdd
  <2>5. GlobalsSoFar'
    BY <1>g, <1>t, <1>6 DEF GlobalsSoFar, SetupTypeOK, addGlobalForwards, canAdd
  <2>6. NoPortTwice'
    BY <1>n, <1>t, <1>6 DEF NoPortTwice, SetupTypeOK, addGlobalForwards, canAdd
  <2>7. GlobalsAreStarted'
    BY <1>s, <1>g, <1>t, <1>6
    DEF GlobalsAreStarted, GlobalsSoFar, SetupTypeOK, addGlobalForwards, canAdd
  <2> QED
    BY <2>1, <2>2, <2>3, <2>4, <2>5, <2>6, <2>7 DEF SetupIInv
<1>7. CASE Reconnect
  <2>1. SetupTypeOK'
    <3>1. activation' \in 1..MaxActivations
      BY <1>t, <1>7, ActivationsAssumption DEF SetupTypeOK, Reconnect, ActivationsAssumption
    <3> QED
      BY <1>t, <3>1, <1>7 DEF SetupTypeOK, Reconnect, NewManager, Ports
  <2>2. ForwardsSoFar'
    BY <1>f, <1>t, <1>7 DEF ForwardsSoFar, Served, ByLabels, SetupTypeOK, Reconnect,
       NewManager
  <2>3. ReversesSoFar'
    BY <1>r, <1>t, <1>f, <1>7 DEF ReversesSoFar, SetupTypeOK, ForwardsSoFar, Reconnect,
       NewManager
  <2>4. ReversesAreAdded'
    BY <1>a, <1>t, <1>r, <1>7 DEF ReversesAreAdded, SetupTypeOK, ReversesSoFar, Reconnect,
       NewManager
  <2>5. GlobalsSoFar'
    BY <1>g, <1>t, <1>7 DEF GlobalsSoFar, SetupTypeOK, Reconnect, NewManager
  <2>6. NoPortTwice'
    BY <1>n, <1>t, <1>7 DEF NoPortTwice, SetupTypeOK, Reconnect, NewManager
  <2>7. GlobalsAreStarted'
    BY <1>s, <1>g, <1>t, <1>7
    DEF GlobalsAreStarted, GlobalsSoFar, SetupTypeOK, Reconnect, NewManager
  <2> QED
    BY <2>1, <2>2, <2>3, <2>4, <2>5, <2>6, <2>7 DEF SetupIInv
<1>8. CASE UNCHANGED setupVars
  <2>1. SetupTypeOK'
    BY <1>t, <1>8 DEF SetupTypeOK, setupVars
  <2>2. ForwardsSoFar'
    BY <1>f, <1>8 DEF ForwardsSoFar, Served, ByLabels, setupVars
  <2>3. ReversesSoFar'
    BY <1>r, <1>8 DEF ReversesSoFar, setupVars
  <2>4. ReversesAreAdded'
    BY <1>a, <1>8 DEF ReversesAreAdded, setupVars
  <2>5. GlobalsSoFar'
    BY <1>g, <1>8 DEF GlobalsSoFar, setupVars
  <2>6. NoPortTwice'
    BY <1>n, <1>8 DEF NoPortTwice, setupVars
  <2>7. GlobalsAreStarted'
    BY <1>s, <1>g, <1>8
    DEF GlobalsAreStarted, GlobalsSoFar, setupVars
  <2> QED
    BY <2>1, <2>2, <2>3, <2>4, <2>5, <2>6, <2>7 DEF SetupIInv
<1> QED
  BY <1>1, <1>2, <1>3, <1>4, <1>5, <1>6, <1>7, <1>8 DEF SetupNext, Ended

\* The forwards and reverses of every manifest are up when the manager starts, with
\* the exceptions of PortsAreServed, however often ports are taken and freed and the
\* turns of addToForwarder are repeated (forwards.go).
THEOREM PortsStayServed == SetupSpec => []PortsAreServed
<1>1. SetupIInv => PortsAreServed
  BY DEF SetupIInv, PortsAreServed, SetupTypeOK, ForwardsAreAdded, ForwardsSoFar, Served, GlobalsSoFar,
         GlobalMissingOnlyAfterReconnect
<1> QED
  BY SetupStart, SetupStep, <1>1, PTL DEF SetupSpec

-----------------------------------------------------------------------------
\* The folders are visited from the first to the last.
LEMMA FolderNumbers ==
  /\ 1 \in Folders
  /\ \A f \in Folders : f # NFolders => f + 1 \in Folders /\ f + 1 # 1
  /\ \A f \in 0..NFolders - 1 : 1..f \subseteq Folders
  BY CountsAssumption DEF CountsAssumption, Folders

\* The health check counts within its limit, is reset by an answer without errors,
\* and on a fresh counter reports nothing but a full disk or a lost Syncthing.
LEMMA Health ==
  ASSUME healthRetries \in 0..MaxRetries + 1, NEW pull \in HealthAnswers, NEW answer \in Answers
  PROVE  /\ IsHealthy(pull, answer).count \in 0..MaxRetries + 1
         /\ IsHealthy(pull, answer).err \in {"nil", "busy", "lost", "space", "unknown", "other"}
         /\ pull = "none" => IsHealthy(pull, answer) = [count |-> 0, err |-> "nil"]
         /\ healthRetries = 0 => IsHealthy(pull, answer).err \notin {"unknown", "other"}
<1> USE CountsAssumption DEF CountsAssumption, IsHealthy, GetFolderErrors, Answers
<1>1. CASE pull = "busy"
  BY <1>1
<1>2. CASE pull = "lost"
  BY <1>2
<1>3. CASE pull = "none"
  BY <1>3
<1>4. CASE pull \in {"space", "other"}
  BY <1>4
<1> QED
  BY <1>1, <1>2, <1>3, <1>4 DEF HealthAnswers

\* The start of the synchronization satisfies the invariant.
LEMMA SyncStart == Init => SyncIInv
<1> SUFFICES ASSUME Init PROVE SyncIInv
  OBVIOUS
<1>1. PlaceTypes
  <2>1. pc = "ping local" /\ folder = 1 /\ overwritten = {} /\ disconnect = "empty"
    BY DEF Init
  <2>2. cachedStatus \in [Sides -> {"unset", "scanning", "idle"}] /\ seen = {}
    BY DEF Init
  <2> QED
    BY <2>1, <2>2, FolderNumbers DEF PlaceTypes
<1>2. CounterTypes
  <2>1. /\ turn = 0 /\ globalRetries = 0 /\ deletesRetries = 0 /\ pings = 0
        /\ healthRetries \in 0..MaxRetries + 1
    BY DEF Init
  <2> QED
    BY <2>1, CountsAssumption DEF CounterTypes, CountsAssumption
<1>3. ReadingTypes /\ WorldTypes
  <2>1. /\ lc = [global |-> 0, need |-> 0, deletes |-> 0] /\ rc = lc
        /\ prev = [local |-> 0, remote |-> 0]
    BY DEF Init
  <2>2. ReadingTypes
    BY <2>1 DEF ReadingTypes, Readings, Bytes
  <2>3. PICK scanning \in [Folders -> BOOLEAN], changed \in [Folders -> BOOLEAN], before \in BOOLEAN :
          /\ scan = [s \in Sides |-> IF s = "local" THEN [f \in Folders |-> TRUE] ELSE scanning]
          /\ event = [s \in Sides |-> IF s = "local" THEN [f \in Folders |-> FALSE] ELSE changed]
          /\ asked = [s \in Sides |-> s = "remote" /\ before]
    BY DEF Init
  <2>4. scan \in [Sides -> [Folders -> BOOLEAN]] /\ event \in [Sides -> [Folders -> BOOLEAN]]
    BY <2>3
  <2>5. asked \in [Sides -> BOOLEAN]
    <3>1. \A s \in Sides : (s = "remote" /\ before) \in BOOLEAN
      OBVIOUS
    <3> QED
      BY <2>3, <3>1
  <2>6. stale \subseteq Sides
    BY DEF Init
  <2>7. WorldTypes
    BY <2>4, <2>5, <2>6 DEF WorldTypes
  <2> QED
    BY <2>2, <2>7
<1>4. Failures /\ CacheIsFirst
  <2>1. err = "none" /\ globalRetries = 0
    BY DEF Init
  <2>2. Failures
    BY <2>1, CountsAssumption DEF CountsAssumption, Failures
  <2>3. CacheIsFirst
    BY DEF Init, CacheIsFirst, Pings
  <2> QED
    BY <2>2, <2>3
<1>5. FirstWasSeen /\ CounterIsReset
  BY DEF Init, FirstWasSeen, CounterIsReset, Pings
<1>6. SyncedMeansOverwritten /\ ResetMeansStuck /\ RemoteErrorsAloneAreSilent
  BY DEF Init, SyncedMeansOverwritten, ResetMeansStuck, RemoteErrorsAloneAreSilent
<1> QED
  BY <1>1, <1>2, <1>3, <1>4, <1>5, <1>6 DEF SyncIInv, TypeOK

\* One question about a folder: unless the cache is that of an earlier activation, what
\* is cached is `idle' only when the scan of the first folder is over, and so is the
\* answer about that folder.
LEMMA Answered ==
  ASSUME NEW side \in Sides, NEW answer \in Answers, PlaceTypes, WorldTypes, CacheIsFirst,
         folder # 1 => side \in seen \cup stale
  PROVE  LET got == GetSyncthingStatus(side, folder, answer)
         IN /\ got.cache \in {"unset", "scanning", "idle"}
            /\ got.cache = "idle" /\ side \notin stale => ~scan[side][1]
            /\ got.status = "idle" /\ folder = 1 /\ side \notin stale => ~scan[side][1]
  BY DEF PlaceTypes, WorldTypes, CacheIsFirst, GetSyncthingStatus, Status

\* Every step of the synchronization preserves it.
LEMMA SyncStep == SyncIInv /\ [Next]_vars => SyncIInv'
<1> SUFFICES ASSUME SyncIInv, [Next]_vars PROVE SyncIInv'
  OBVIOUS
<1>p. PlaceTypes
  BY DEF SyncIInv, TypeOK
<1>t. CounterTypes
  BY DEF SyncIInv, TypeOK
<1>o. ReadingTypes
  BY DEF SyncIInv, TypeOK
<1>v. WorldTypes
  BY DEF SyncIInv, TypeOK
<1>f. Failures
  BY DEF SyncIInv, TypeOK
<1>c. CacheIsFirst
  BY DEF SyncIInv, TypeOK
<1>s. FirstWasSeen
  BY DEF SyncIInv, TypeOK
<1>r. CounterIsReset
  BY DEF SyncIInv, TypeOK
<1>w. SyncedMeansOverwritten
  BY DEF SyncIInv, TypeOK
<1>k. ResetMeansStuck
  BY DEF SyncIInv, TypeOK
<1>e. RemoteErrorsAloneAreSilent
  BY DEF SyncIInv, TypeOK
<1> USE DEF wfcVars, monitorVars, worldVars, historyVars, Goto, Fail, Running
<1>1. CASE WaitForPing("local", "ping remote")
  <2>1. PlaceTypes'
    BY <1>p, <1>1 DEF PlaceTypes, WaitForPing, IdentifyReadinessIssue
  <2>2. CounterTypes'
    BY <1>t, CountsAssumption, <1>1 DEF CounterTypes, CountsAssumption, WaitForPing,
       IdentifyReadinessIssue
  <2>3. ReadingTypes'
    BY <1>o, <1>1 DEF ReadingTypes, WaitForPing, IdentifyReadinessIssue
  <2>4. WorldTypes'
    BY <1>v, <1>1 DEF WorldTypes, WaitForPing, IdentifyReadinessIssue
  <2>5. Failures'
    BY <1>f, <1>1 DEF Failures, WaitForPing, IdentifyReadinessIssue
  <2>6. CacheIsFirst'
    BY <1>c, <1>1 DEF CacheIsFirst, Pings, WaitForPing, IdentifyReadinessIssue
  <2>7. FirstWasSeen'
    BY <1>s, <1>1 DEF FirstWasSeen, Pings, WaitForPing, IdentifyReadinessIssue
  <2>8. CounterIsReset'
    BY <1>r, <1>1 DEF CounterIsReset, WaitForPing, IdentifyReadinessIssue
  <2>9. SyncedMeansOverwritten'
    BY <1>w, <1>1 DEF SyncedMeansOverwritten, WaitForPing, IdentifyReadinessIssue
  <2>10. ResetMeansStuck'
    BY <1>k, <1>f, <1>1 DEF ResetMeansStuck, Failures, WaitForPing, IdentifyReadinessIssue
  <2>11. RemoteErrorsAloneAreSilent'
    BY <1>e, <1>r, <1>1 DEF RemoteErrorsAloneAreSilent, CounterIsReset, WaitForPing,
       IdentifyReadinessIssue
  <2> QED
    BY <2>1, <2>2, <2>3, <2>4, <2>5, <2>6, <2>7, <2>8, <2>9, <2>10, <2>11 DEF SyncIInv,
       TypeOK
<1>2. CASE WaitForPing("remote", "scan local")
  <2>1. PlaceTypes'
    BY <1>p, <1>2 DEF PlaceTypes, WaitForPing, IdentifyReadinessIssue
  <2>2. CounterTypes'
    BY <1>t, CountsAssumption, <1>2 DEF CounterTypes, CountsAssumption, WaitForPing,
       IdentifyReadinessIssue
  <2>3. ReadingTypes'
    BY <1>o, <1>2 DEF ReadingTypes, WaitForPing, IdentifyReadinessIssue
  <2>4. WorldTypes'
    BY <1>v, <1>2 DEF WorldTypes, WaitForPing, IdentifyReadinessIssue
  <2>5. Failures'
    BY <1>f, <1>2 DEF Failures, WaitForPing, IdentifyReadinessIssue
  <2>6. CacheIsFirst'
    BY <1>c, <1>2 DEF CacheIsFirst, Pings, WaitForPing, IdentifyReadinessIssue
  <2>7. FirstWasSeen'
    BY <1>s, <1>2, <1>c DEF FirstWasSeen, Pings, WaitForPing, IdentifyReadinessIssue,
       CacheIsFirst
  <2>8. CounterIsReset'
    BY <1>r, <1>2 DEF CounterIsReset, WaitForPing, IdentifyReadinessIssue
  <2>9. SyncedMeansOverwritten'
    BY <1>w, <1>2 DEF SyncedMeansOverwritten, WaitForPing, IdentifyReadinessIssue
  <2>10. ResetMeansStuck'
    BY <1>k, <1>f, <1>2 DEF ResetMeansStuck, Failures, WaitForPing, IdentifyReadinessIssue
  <2>11. RemoteErrorsAloneAreSilent'
    BY <1>e, <1>r, <1>2 DEF RemoteErrorsAloneAreSilent, CounterIsReset, WaitForPing,
       IdentifyReadinessIssue
  <2> QED
    BY <2>1, <2>2, <2>3, <2>4, <2>5, <2>6, <2>7, <2>8, <2>9, <2>10, <2>11 DEF SyncIInv,
       TypeOK
<1>3. CASE WaitForScanning("local", "scan remote")
  <2> DEFINE got(answer) == GetSyncthingStatus("local", folder, answer)
  <2>a. PICK answer \in Answers :
          /\ cachedStatus' = [cachedStatus EXCEPT !["local"] = got(answer).cache]
          /\ \E received \in {TRUE, answer = "ok"} :
               asked' = [asked EXCEPT !["local"] = @ \/ received]
          /\ \/ answer = "lost" /\ pc' = "failed" /\ UNCHANGED <<folder, seen, stale>>
             \/ /\ got(answer).status = "idle"
                /\ seen' = seen \cup {s \in {"local"} : folder = 1 /\ ~scan["local"][1]}
                /\ stale' = stale \ seen'
                /\ IF folder = NFolders THEN folder' = 1 /\ pc' = "scan remote"
                                        ELSE folder' = folder + 1 /\ UNCHANGED pc
             \/ /\ UNCHANGED <<folder, seen, stale>>
                /\ UNCHANGED pc \/ pc' = "failed"
    BY <1>3 DEF WaitForScanning
  <2>b. pc = "scan local" /\ "local" \in Sides /\ scan' = scan /\ event' = event
    BY <1>3 DEF WaitForScanning, Sides
  <2>c. folder # 1 => "local" \in seen \cup stale
    BY <1>s, <2>b DEF FirstWasSeen
  <2>d. /\ got(answer).cache \in {"unset", "scanning", "idle"}
        /\ got(answer).cache = "idle" /\ "local" \notin stale => ~scan["local"][1]
        /\ got(answer).status = "idle" /\ folder = 1 /\ "local" \notin stale => ~scan["local"][1]
    BY <1>p, <1>v, <1>c, <2>b, <2>c, Answered
  <2> HIDE DEF got
  <2>e. /\ seen \subseteq seen' /\ seen \cup stale \subseteq seen' \cup stale'
        /\ \A s \in seen' : s \in seen \/ (s = "local" /\ ~scan["local"][1])
        /\ stale' \subseteq stale
    BY <2>a
  <2>1. PlaceTypes'
    <3>1. cachedStatus' \in [Sides -> {"unset", "scanning", "idle"}]
      BY <1>p, <2>a, <2>b, <2>d DEF PlaceTypes
    <3>2. folder' \in Folders
      BY <1>p, <2>a, FolderNumbers DEF PlaceTypes
    <3>3. seen' \subseteq Sides
      BY <1>p, <2>b, <2>e DEF PlaceTypes
    <3>4. /\ UNCHANGED <<overwritten, disconnect>>
          /\ pc' \in {"scan local", "scan remote", "failed"}
      BY <2>a, <2>b, <1>3 DEF WaitForScanning
    <3> QED
      BY <1>p, <3>1, <3>2, <3>3, <3>4 DEF PlaceTypes
  <2>2. CounterTypes'
    BY <1>t, CountsAssumption, <1>3 DEF CounterTypes, CountsAssumption, WaitForScanning
  <2>3. ReadingTypes'
    BY <1>o, <1>3 DEF ReadingTypes, WaitForScanning
  <2>4. WorldTypes'
    <3>1. asked' \in [Sides -> BOOLEAN]
      <4>1. PICK received \in BOOLEAN : asked' = [asked EXCEPT !["local"] = @ \/ received]
        BY Zenon, <2>a
      <4>2. (asked["local"] \/ received) \in BOOLEAN
        OBVIOUS
      <4> QED
        BY <1>v, <4>1, <4>2 DEF WorldTypes
    <3> QED
      BY <1>v, <2>b, <2>e, <3>1 DEF WorldTypes
  <2>5. Failures'
    BY <1>f, <1>3 DEF Failures, WaitForScanning
  <2>6. CacheIsFirst'
    <3>1. cachedStatus'["remote"] = cachedStatus["remote"] /\ cachedStatus'["local"] = got(answer).cache
      BY <1>p, <2>a, <2>b DEF PlaceTypes, Sides
    <3>2. pc' \in {"scan local", "scan remote", "failed"}
      BY <2>a, <2>b
    <3>3. \A s \in seen' : ~scan'[s][1]
      BY <1>c, <2>b, <2>e DEF CacheIsFirst
    <3>4. ASSUME NEW s \in Sides, cachedStatus'[s] = "idle", s \notin stale' PROVE ~scan'[s][1]
      <4>1. CASE s \in seen'
        BY <3>3, <4>1
      <4>2. CASE s \notin seen'
        <5>1. s \notin stale
          BY <2>e, <3>4, <4>2
        <5> QED
          BY <1>c, <2>b, <2>d, <3>1, <3>4, <5>1 DEF CacheIsFirst, Sides
      <4> QED
        BY <4>1, <4>2
    <3> QED
      BY <3>2, <3>3, <3>4 DEF CacheIsFirst, Pings
  <2>7. FirstWasSeen'
    <3>1. folder' # folder \/ pc' = "scan remote" => "local" \in seen' \cup stale'
      <4>1. CASE folder = 1
        <5>1. SUFFICES
                ASSUME folder' # folder \/ pc' = "scan remote", "local" \notin stale
                PROVE "local" \in seen'
          BY <2>e
        <5>2. /\ got(answer).status = "idle"
              /\ seen' = seen \cup {s \in {"local"} : folder = 1 /\ ~scan["local"][1]}
          BY <2>a, <2>b, <5>1
        <5> QED
          BY <2>d, <4>1, <5>1, <5>2
      <4> QED
        BY <2>c, <2>e, <4>1
    <3>2. pc' \in {"scan local", "scan remote", "failed"} /\ (pc' = "scan remote" => folder' = 1)
      BY <2>a, <2>b
    <3> QED
      BY <1>s, <2>b, <2>c, <2>e, <3>1, <3>2 DEF FirstWasSeen, Pings
  <2>8. CounterIsReset'
    BY <1>r, <1>3 DEF CounterIsReset, WaitForScanning
  <2>9. SyncedMeansOverwritten'
    BY <1>w, <1>3 DEF SyncedMeansOverwritten, WaitForScanning
  <2>10. ResetMeansStuck'
    BY <1>k, <1>f, <1>3 DEF ResetMeansStuck, Failures, WaitForScanning
  <2>11. RemoteErrorsAloneAreSilent'
    BY <1>e, <1>r, <1>3 DEF RemoteErrorsAloneAreSilent, CounterIsReset, WaitForScanning
  <2> QED
    BY <2>1, <2>2, <2>3, <2>4, <2>5, <2>6, <2>7, <2>8, <2>9, <2>10, <2>11 DEF SyncIInv,
       TypeOK
<1>4. CASE WaitForScanning("remote", "connect")
  <2> DEFINE got(answer) == GetSyncthingStatus("remote", folder, answer)
  <2>a. PICK answer \in Answers :
          /\ cachedStatus' = [cachedStatus EXCEPT !["remote"] = got(answer).cache]
          /\ \E received \in {TRUE, answer = "ok"} :
               asked' = [asked EXCEPT !["remote"] = @ \/ received]
          /\ \/ answer = "lost" /\ pc' = "failed" /\ UNCHANGED <<folder, seen, stale>>
             \/ /\ got(answer).status = "idle"
                /\ seen' = seen \cup {s \in {"remote"} : folder = 1 /\ ~scan["remote"][1]}
                /\ stale' = stale \ seen'
                /\ IF folder = NFolders THEN folder' = 1 /\ pc' = "connect"
                                        ELSE folder' = folder + 1 /\ UNCHANGED pc
             \/ /\ UNCHANGED <<folder, seen, stale>>
                /\ UNCHANGED pc \/ pc' = "failed"
    BY <1>4 DEF WaitForScanning
  <2>b. pc = "scan remote" /\ "remote" \in Sides /\ scan' = scan /\ event' = event
    BY <1>4 DEF WaitForScanning, Sides
  <2>c. folder # 1 => "remote" \in seen \cup stale
    BY <1>s, <2>b DEF FirstWasSeen
  <2>d. /\ got(answer).cache \in {"unset", "scanning", "idle"}
        /\ got(answer).cache = "idle" /\ "remote" \notin stale => ~scan["remote"][1]
        /\ got(answer).status = "idle" /\ folder = 1 /\ "remote" \notin stale => ~scan["remote"][1]
    BY <1>p, <1>v, <1>c, <2>b, <2>c, Answered
  <2> HIDE DEF got
  <2>e. /\ seen \subseteq seen' /\ seen \cup stale \subseteq seen' \cup stale'
        /\ \A s \in seen' : s \in seen \/ (s = "remote" /\ ~scan["remote"][1])
        /\ stale' \subseteq stale
    BY <2>a
  <2>1. PlaceTypes'
    <3>1. cachedStatus' \in [Sides -> {"unset", "scanning", "idle"}]
      BY <1>p, <2>a, <2>b, <2>d DEF PlaceTypes
    <3>2. folder' \in Folders
      BY <1>p, <2>a, FolderNumbers DEF PlaceTypes
    <3>3. seen' \subseteq Sides
      BY <1>p, <2>b, <2>e DEF PlaceTypes
    <3>4. /\ UNCHANGED <<overwritten, disconnect>>
          /\ pc' \in {"scan remote", "connect", "failed"}
      BY <2>a, <2>b, <1>4 DEF WaitForScanning
    <3> QED
      BY <1>p, <3>1, <3>2, <3>3, <3>4 DEF PlaceTypes
  <2>2. CounterTypes'
    BY <1>t, CountsAssumption, <1>4 DEF CounterTypes, CountsAssumption, WaitForScanning
  <2>3. ReadingTypes'
    BY <1>o, <1>4 DEF ReadingTypes, WaitForScanning
  <2>4. WorldTypes'
    <3>1. asked' \in [Sides -> BOOLEAN]
      <4>1. PICK received \in BOOLEAN : asked' = [asked EXCEPT !["remote"] = @ \/ received]
        BY Zenon, <2>a
      <4>2. (asked["remote"] \/ received) \in BOOLEAN
        OBVIOUS
      <4> QED
        BY <1>v, <4>1, <4>2 DEF WorldTypes
    <3> QED
      BY <1>v, <2>b, <2>e, <3>1 DEF WorldTypes
  <2>5. Failures'
    BY <1>f, <1>4 DEF Failures, WaitForScanning
  <2>6. CacheIsFirst'
    <3>1. cachedStatus'["local"] = cachedStatus["local"] /\ cachedStatus'["remote"] = got(answer).cache
      BY <1>p, <2>a, <2>b DEF PlaceTypes, Sides
    <3>2. pc' \in {"scan remote", "connect", "failed"}
      BY <2>a, <2>b
    <3>3. \A s \in seen' : ~scan'[s][1]
      BY <1>c, <2>b, <2>e DEF CacheIsFirst
    <3>4. ASSUME NEW s \in Sides, cachedStatus'[s] = "idle", s \notin stale' PROVE ~scan'[s][1]
      <4>1. CASE s \in seen'
        BY <3>3, <4>1
      <4>2. CASE s \notin seen'
        <5>1. s \notin stale
          BY <2>e, <3>4, <4>2
        <5> QED
          BY <1>c, <2>b, <2>d, <3>1, <3>4, <5>1 DEF CacheIsFirst, Sides
      <4> QED
        BY <4>1, <4>2
    <3> QED
      BY <3>2, <3>3, <3>4 DEF CacheIsFirst, Pings
  <2>7. FirstWasSeen'
    <3>1. folder' # folder \/ pc' = "connect" => "remote" \in seen' \cup stale'
      <4>1. CASE folder = 1
        <5>1. SUFFICES
                ASSUME folder' # folder \/ pc' = "connect", "remote" \notin stale
                PROVE "remote" \in seen'
          BY <2>e
        <5>2. /\ got(answer).status = "idle"
              /\ seen' = seen \cup {s \in {"remote"} : folder = 1 /\ ~scan["remote"][1]}
          BY <2>a, <2>b, <5>1
        <5> QED
          BY <2>d, <4>1, <5>1, <5>2
      <4> QED
        BY <2>c, <2>e, <4>1
    <3>2. pc' \in {"scan remote", "connect", "failed"} /\ (pc' = "connect" => folder' = 1)
      BY <2>a, <2>b
    <3> QED
      BY <1>s, <2>b, <2>c, <2>e, <3>1, <3>2 DEF FirstWasSeen, Pings
  <2>8. CounterIsReset'
    BY <1>r, <1>4 DEF CounterIsReset, WaitForScanning
  <2>9. SyncedMeansOverwritten'
    BY <1>w, <1>4 DEF SyncedMeansOverwritten, WaitForScanning
  <2>10. ResetMeansStuck'
    BY <1>k, <1>f, <1>4 DEF ResetMeansStuck, Failures, WaitForScanning
  <2>11. RemoteErrorsAloneAreSilent'
    BY <1>e, <1>r, <1>4 DEF RemoteErrorsAloneAreSilent, CounterIsReset, WaitForScanning
  <2> QED
    BY <2>1, <2>2, <2>3, <2>4, <2>5, <2>6, <2>7, <2>8, <2>9, <2>10, <2>11 DEF SyncIInv,
       TypeOK
<1>5. CASE WaitForConnected
  <2>1. PlaceTypes'
    BY <1>p, <1>5 DEF PlaceTypes, WaitForConnected
  <2>2. CounterTypes'
    BY <1>t, CountsAssumption, <1>5 DEF CounterTypes, CountsAssumption, WaitForConnected
  <2>3. ReadingTypes'
    BY <1>o, <1>5 DEF ReadingTypes, WaitForConnected
  <2>4. WorldTypes'
    BY <1>v, <1>5 DEF WorldTypes, WaitForConnected
  <2>5. Failures'
    BY <1>f, <1>5 DEF Failures, WaitForConnected
  <2>6. CacheIsFirst'
    BY <1>p, <1>c, <1>5, FolderNumbers DEF CacheIsFirst, PlaceTypes, Pings, WaitForConnected
  <2>7. FirstWasSeen'
    BY <1>s, <1>5 DEF FirstWasSeen, Pings, WaitForConnected
  <2>8. CounterIsReset'
    BY <1>r, <1>5 DEF CounterIsReset, WaitForConnected
  <2>9. SyncedMeansOverwritten'
    BY <1>w, <1>5 DEF SyncedMeansOverwritten, WaitForConnected
  <2>10. ResetMeansStuck'
    BY <1>k, <1>f, <1>5 DEF ResetMeansStuck, Failures, WaitForConnected
  <2>11. RemoteErrorsAloneAreSilent'
    BY <1>e, <1>r, <1>5 DEF RemoteErrorsAloneAreSilent, CounterIsReset, WaitForConnected
  <2> QED
    BY <2>1, <2>2, <2>3, <2>4, <2>5, <2>6, <2>7, <2>8, <2>9, <2>10, <2>11 DEF SyncIInv,
       TypeOK
<1>6. CASE LoopHealth
  <2>1. PlaceTypes'
    BY <1>p, <1>6 DEF PlaceTypes, LoopHealth
  <2>2. CounterTypes'
    <3>1. turn' \in 0..HealthPeriod - 1
      BY <1>t, CountsAssumption, <1>6 DEF CounterTypes, CountsAssumption, LoopHealth
    <3>2. healthRetries' \in 0..MaxRetries + 1
      BY <1>t, Health, <1>6 DEF CounterTypes, LoopHealth
    <3> QED
      BY <1>t, <3>1, <3>2, <1>6 DEF CounterTypes, LoopHealth
  <2>3. ReadingTypes'
    BY <1>o, <1>6 DEF ReadingTypes, LoopHealth
  <2>4. WorldTypes'
    BY <1>v, <1>6 DEF WorldTypes, LoopHealth
  <2>5. Failures'
    BY <1>f, <1>6 DEF Failures, LoopHealth
  <2>6. CacheIsFirst'
    BY <1>c, <1>6 DEF CacheIsFirst, Pings, LoopHealth
  <2>7. FirstWasSeen'
    BY <1>s, <1>6 DEF FirstWasSeen, Pings, LoopHealth
  <2>8. CounterIsReset'
    BY <1>r, <1>6 DEF CounterIsReset, LoopHealth
  <2>9. SyncedMeansOverwritten'
    BY <1>w, <1>6 DEF SyncedMeansOverwritten, LoopHealth
  <2>10. ResetMeansStuck'
    <3>1. err' # "needs reset"
      BY <1>t, <1>f, Health, <1>6 DEF CounterTypes, Failures, LoopHealth
    <3> QED
      BY <3>1 DEF ResetMeansStuck
  <2>11. RemoteErrorsAloneAreSilent'
    BY <1>e, <1>r, <1>6 DEF RemoteErrorsAloneAreSilent, CounterIsReset, LoopHealth
  <2> QED
    BY <2>1, <2>2, <2>3, <2>4, <2>5, <2>6, <2>7, <2>8, <2>9, <2>10, <2>11 DEF SyncIInv,
       TypeOK
<1>7. CASE Overwrite
  <2>1. PlaceTypes'
    <3>1. UNCHANGED <<folder, cachedStatus, seen, disconnect>> /\ pc' \in {"failed", "progress"}
      BY <1>7 DEF Overwrite
    <3>2. overwritten' \subseteq Folders
      BY <1>p, FolderNumbers, <1>7 DEF PlaceTypes, Overwrite
    <3> QED
      BY <1>p, <3>1, <3>2 DEF PlaceTypes
  <2>2. CounterTypes'
    BY <1>t, CountsAssumption, <1>7 DEF CounterTypes, CountsAssumption, Overwrite
  <2>3. ReadingTypes'
    BY <1>o, <1>7 DEF ReadingTypes, Overwrite
  <2>4. WorldTypes'
    BY <1>v, <1>7 DEF WorldTypes, Overwrite
  <2>5. Failures'
    BY <1>f, <1>7 DEF Failures, Overwrite
  <2>6. CacheIsFirst'
    BY <1>c, <1>7 DEF CacheIsFirst, Pings, Overwrite
  <2>7. FirstWasSeen'
    BY <1>s, <1>7 DEF FirstWasSeen, Pings, Overwrite
  <2>8. CounterIsReset'
    BY <1>r, <1>7 DEF CounterIsReset, Overwrite
  <2>9. SyncedMeansOverwritten'
    BY <1>w, <1>7 DEF SyncedMeansOverwritten, Overwrite
  <2>10. ResetMeansStuck'
    BY <1>k, <1>f, <1>7 DEF ResetMeansStuck, Failures, Overwrite
  <2>11. RemoteErrorsAloneAreSilent'
    BY <1>e, <1>r, <1>7 DEF RemoteErrorsAloneAreSilent, CounterIsReset, Overwrite
  <2> QED
    BY <2>1, <2>2, <2>3, <2>4, <2>5, <2>6, <2>7, <2>8, <2>9, <2>10, <2>11 DEF SyncIInv,
       TypeOK
<1>8. CASE GetCompletionLocal
  <2>1. PlaceTypes'
    BY <1>p, <1>8 DEF PlaceTypes, GetCompletionLocal
  <2>2. CounterTypes'
    BY <1>t, CountsAssumption, <1>8 DEF CounterTypes, CountsAssumption, GetCompletionLocal
  <2>3. ReadingTypes'
    BY <1>o, <1>8 DEF ReadingTypes, GetCompletionLocal
  <2>4. WorldTypes'
    BY <1>v, <1>8 DEF WorldTypes, GetCompletionLocal
  <2>5. Failures'
    BY <1>f, <1>8 DEF Failures, GetCompletionLocal
  <2>6. CacheIsFirst'
    BY <1>c, <1>8 DEF CacheIsFirst, Pings, GetCompletionLocal
  <2>7. FirstWasSeen'
    BY <1>s, <1>8 DEF FirstWasSeen, Pings, GetCompletionLocal
  <2>8. CounterIsReset'
    BY <1>r, <1>8 DEF CounterIsReset, GetCompletionLocal
  <2>9. SyncedMeansOverwritten'
    BY <1>w, <1>8 DEF SyncedMeansOverwritten, GetCompletionLocal
  <2>10. ResetMeansStuck'
    BY <1>k, <1>f, <1>8 DEF ResetMeansStuck, Failures, GetCompletionLocal
  <2>11. RemoteErrorsAloneAreSilent'
    BY <1>e, <1>r, <1>8 DEF RemoteErrorsAloneAreSilent, CounterIsReset, GetCompletionLocal
  <2> QED
    BY <2>1, <2>2, <2>3, <2>4, <2>5, <2>6, <2>7, <2>8, <2>9, <2>10, <2>11 DEF SyncIInv,
       TypeOK
<1>9. CASE GetCompletionRemote
  <2>1. PlaceTypes'
    BY <1>p, <1>9 DEF PlaceTypes, GetCompletionRemote
  <2>2. CounterTypes'
    BY <1>t, CountsAssumption, <1>9 DEF CounterTypes, CountsAssumption, GetCompletionRemote
  <2>3. ReadingTypes'
    BY <1>o, <1>9 DEF ReadingTypes, GetCompletionRemote
  <2>4. WorldTypes'
    BY <1>v, <1>9 DEF WorldTypes, GetCompletionRemote
  <2>5. Failures'
    BY <1>f, <1>9 DEF Failures, GetCompletionRemote
  <2>6. CacheIsFirst'
    BY <1>c, <1>9 DEF CacheIsFirst, Pings, GetCompletionRemote
  <2>7. FirstWasSeen'
    BY <1>s, <1>9 DEF FirstWasSeen, Pings, GetCompletionRemote
  <2>8. CounterIsReset'
    BY <1>r, <1>9 DEF CounterIsReset, GetCompletionRemote
  <2>9. SyncedMeansOverwritten'
    BY <1>w, <1>9 DEF SyncedMeansOverwritten, GetCompletionRemote
  <2>10. ResetMeansStuck'
    BY <1>k, <1>f, <1>9 DEF ResetMeansStuck, Failures, GetCompletionRemote
  <2>11. RemoteErrorsAloneAreSilent'
    BY <1>e, <1>r, <1>9 DEF RemoteErrorsAloneAreSilent, CounterIsReset, GetCompletionRemote
  <2> QED
    BY <2>1, <2>2, <2>3, <2>4, <2>5, <2>6, <2>7, <2>8, <2>9, <2>10, <2>11 DEF SyncIInv,
       TypeOK
<1>10. CASE Decide
  <2>a. /\ globalRetries' = GlobalRetriesAfter
        /\ prev' = IF GlobalRetriesAfter = 0 THEN [local |-> lc.global, remote |-> rc.global] ELSE prev
        /\ \/ GlobalRetriesAfter > MaxGlobalRetries /\ pc' = "failed" /\ UNCHANGED deletesRetries
           \/ /\ ~(GlobalRetriesAfter > MaxGlobalRetries) /\ UNCHANGED err
              /\ \/ UNCHANGED deletesRetries
                 \/ /\ ~(DeletesRetriesAfter > MaxDeletesRetries)
                    /\ deletesRetries' = DeletesRetriesAfter
        /\ UNCHANGED <<lc, rc, turn, healthRetries, pings>>
    BY <1>10 DEF Decide
  <2>b. GlobalRetriesAfter \in 0..MaxGlobalRetries + 1
    <3>1. pc = "decide"
      BY <1>10 DEF Decide
    <3>2. globalRetries \in 0..MaxGlobalRetries
      BY <1>f, <1>t, <3>1, CountsAssumption DEF Failures, CounterTypes, CountsAssumption
    <3> QED
      BY <3>2, CountsAssumption DEF GlobalRetriesAfter, CountsAssumption
  <2>c. GlobalRetriesAfter > MaxGlobalRetries => GlobalRetriesAfter # 0
    BY CountsAssumption DEF CountsAssumption
  <2>1. PlaceTypes'
    BY <1>p, <1>10 DEF PlaceTypes, Decide, isCompleted, DeletesRetriesAfter,
       GlobalRetriesAfter
  <2>2. CounterTypes'
    <3>1. DeletesRetriesAfter \in Nat
      BY <1>t, CountsAssumption DEF CounterTypes, CountsAssumption, DeletesRetriesAfter
    <3>2. deletesRetries' \in 0..MaxDeletesRetries
      BY <1>t, <2>a, <3>1, CountsAssumption DEF CounterTypes, CountsAssumption
    <3> QED
      BY <1>t, <2>a, <2>b, <3>2 DEF CounterTypes
  <2>3. ReadingTypes'
    BY <1>o, <1>10 DEF ReadingTypes, Decide, isCompleted, DeletesRetriesAfter,
       GlobalRetriesAfter, Readings
  <2>4. WorldTypes'
    BY <1>v, <1>10 DEF WorldTypes, Decide, isCompleted, DeletesRetriesAfter,
       GlobalRetriesAfter
  <2>5. Failures'
    <3>1. pc # "failed"
      BY <1>10 DEF Decide
    <3> QED
      BY <1>f, <2>a, <2>b, <3>1, CountsAssumption DEF Failures, CountsAssumption
  <2>6. CacheIsFirst'
    BY <1>c, <1>10 DEF CacheIsFirst, Pings, Decide, isCompleted, DeletesRetriesAfter,
       GlobalRetriesAfter
  <2>7. FirstWasSeen'
    BY <1>s, <1>10 DEF FirstWasSeen, Pings, Decide, isCompleted, DeletesRetriesAfter,
       GlobalRetriesAfter
  <2>8. CounterIsReset'
    BY <1>r, <1>10 DEF CounterIsReset, Decide, isCompleted, DeletesRetriesAfter,
       GlobalRetriesAfter
  <2>9. SyncedMeansOverwritten'
    BY <1>w, <1>10 DEF SyncedMeansOverwritten, Decide, isCompleted, DeletesRetriesAfter,
       GlobalRetriesAfter
  <2>10. ResetMeansStuck'
    <3> SUFFICES ASSUME err' = "needs reset" PROVE ResetMeansStuck'
      BY DEF ResetMeansStuck
    <3>0. err # "needs reset"
      BY <1>f, <1>10 DEF Failures, Decide
    <3>a. GlobalRetriesAfter > MaxGlobalRetries
      BY <2>a, <3>0
    <3>b. GlobalRetriesAfter # 0
      BY <2>c, <3>a
    <3>1. GlobalRetriesAfter # 0 /\ prev' = prev /\ UNCHANGED <<lc, rc>>
      BY <2>a, <3>b
    <3>2. lc.global # rc.global /\ lc.global = prev.local /\ rc.global = prev.remote
      BY <3>1 DEF GlobalRetriesAfter
    <3>3. prev = [local |-> prev.local, remote |-> prev.remote]
      BY <1>o DEF ReadingTypes
    <3> QED
      BY <3>1, <3>2, <3>3 DEF ResetMeansStuck
  <2>11. RemoteErrorsAloneAreSilent'
    BY <1>e, <1>r, <1>10 DEF RemoteErrorsAloneAreSilent, CounterIsReset, Decide,
       isCompleted, DeletesRetriesAfter, GlobalRetriesAfter
  <2> QED
    BY <2>1, <2>2, <2>3, <2>4, <2>5, <2>6, <2>7, <2>8, <2>9, <2>10, <2>11 DEF SyncIInv,
       TypeOK
<1>11. CASE Restart
  <2>1. PlaceTypes'
    BY <1>p, <1>11 DEF PlaceTypes, Restart
  <2>2. CounterTypes'
    <3>1. turn' = 0 /\ globalRetries' = 0 /\ deletesRetries' = 0 /\ UNCHANGED <<healthRetries, pings>>
      BY <1>11 DEF Restart
    <3> QED
      BY <1>t, <3>1, CountsAssumption DEF CounterTypes, CountsAssumption
  <2>3. ReadingTypes'
    <3>1. /\ lc' = [global |-> 0, need |-> 0, deletes |-> 0] /\ rc' = lc'
          /\ prev' = [local |-> 0, remote |-> 0]
      BY <1>11 DEF Restart
    <3> QED
      BY <3>1 DEF ReadingTypes, Readings, Bytes
  <2>4. WorldTypes'
    BY <1>v, <1>11 DEF WorldTypes, Restart
  <2>5. Failures'
    <3>1. globalRetries' = 0 /\ (err' = err \/ pc' = "failed") /\ pc # "failed"
      BY <1>11 DEF Restart
    <3> QED
      BY <1>f, <3>1, CountsAssumption DEF Failures, CountsAssumption
  <2>6. CacheIsFirst'
    BY <1>c, <1>11 DEF CacheIsFirst, Pings, Restart
  <2>7. FirstWasSeen'
    BY <1>s, <1>11 DEF FirstWasSeen, Pings, Restart
  <2>8. CounterIsReset'
    BY <1>r, <1>11 DEF CounterIsReset, Restart
  <2>9. SyncedMeansOverwritten'
    BY <1>w, <1>11 DEF SyncedMeansOverwritten, Restart
  <2>10. ResetMeansStuck'
    BY <1>k, <1>f, <1>11 DEF ResetMeansStuck, Failures, Restart
  <2>11. RemoteErrorsAloneAreSilent'
    BY <1>e, <1>r, <1>11 DEF RemoteErrorsAloneAreSilent, CounterIsReset, Restart
  <2> QED
    BY <2>1, <2>2, <2>3, <2>4, <2>5, <2>6, <2>7, <2>8, <2>9, <2>10, <2>11 DEF SyncIInv,
       TypeOK
<1>12. CASE Monitor
  <2>1. PlaceTypes'
    BY <1>p, <1>12 DEF PlaceTypes, Monitor, Send
  <2>2. CounterTypes'
    BY <1>t, CountsAssumption, <1>12 DEF CounterTypes, CountsAssumption, Monitor, Send
  <2>3. ReadingTypes'
    BY <1>o, <1>12 DEF ReadingTypes, Monitor, Send
  <2>4. WorldTypes'
    BY <1>v, <1>12 DEF WorldTypes, Monitor, Send
  <2>5. Failures'
    BY <1>f, <1>12 DEF Failures, Monitor, Send
  <2>6. CacheIsFirst'
    BY <1>c, <1>12 DEF CacheIsFirst, Pings, Monitor, Send
  <2>7. FirstWasSeen'
    BY <1>s, <1>12 DEF FirstWasSeen, Pings, Monitor, Send
  <2>8. CounterIsReset'
    BY <1>r, <1>12 DEF CounterIsReset, Monitor, Send
  <2>9. SyncedMeansOverwritten'
    BY <1>w, <1>12 DEF SyncedMeansOverwritten, Monitor, Send
  <2>10. ResetMeansStuck'
    BY <1>k, <1>f, <1>12 DEF ResetMeansStuck, Failures, Monitor, Send
  <2>11. RemoteErrorsAloneAreSilent'
    BY <1>e, <1>r, <1>12 DEF RemoteErrorsAloneAreSilent, CounterIsReset, Monitor, Send
  <2> QED
    BY <2>1, <2>2, <2>3, <2>4, <2>5, <2>6, <2>7, <2>8, <2>9, <2>10, <2>11 DEF SyncIInv,
       TypeOK
<1>13. CASE MonitorStatus("local")
  <2>a. PICK pull \in HealthAnswers, answer \in Answers :
          /\ healthRetries' = IsHealthy(pull, answer).count
          /\ (localClean' => localClean /\ pull = "none")
          /\ \/ /\ IsHealthy(pull, answer).err \in {"nil", "busy", "lost"} /\ UNCHANGED disconnect
                /\ statusPc' = IF IsHealthy(pull, answer).err = "nil" THEN "remote" ELSE "local"
             \/ /\ IsHealthy(pull, answer).err \notin {"nil", "busy", "lost"}
                /\ disconnect' = IsHealthy(pull, answer).err /\ statusPc' = "off"
    BY <1>13 DEF MonitorStatus, Send
  <2>b. /\ IsHealthy(pull, answer).count \in 0..MaxRetries + 1
        /\ IsHealthy(pull, answer).err \in {"nil", "busy", "lost", "space", "unknown", "other"}
        /\ pull = "none" => IsHealthy(pull, answer) = [count |-> 0, err |-> "nil"]
        /\ healthRetries = 0 => IsHealthy(pull, answer).err \notin {"unknown", "other"}
    BY <1>t, Health DEF CounterTypes
  <2>1. PlaceTypes'
    <3>1. UNCHANGED <<pc, folder, cachedStatus, overwritten, seen>>
      BY <1>13 DEF MonitorStatus
    <3>2. disconnect' \in {"empty", "lost", "space", "unknown", "other"}
      BY <1>p, <2>a, <2>b DEF PlaceTypes
    <3> QED
      BY <1>p, <3>1, <3>2 DEF PlaceTypes
  <2>2. CounterTypes'
    <3>1. UNCHANGED <<turn, globalRetries, deletesRetries, pings>>
      BY <1>13 DEF MonitorStatus
    <3> QED
      BY <1>t, <2>a, <2>b, <3>1 DEF CounterTypes
  <2>3. ReadingTypes'
    BY <1>o, <1>13 DEF ReadingTypes, MonitorStatus, Send
  <2>4. WorldTypes'
    BY <1>v, <1>13 DEF WorldTypes, MonitorStatus, Send
  <2>5. Failures'
    BY <1>f, <1>13 DEF Failures, MonitorStatus, Send
  <2>6. CacheIsFirst'
    BY <1>c, <1>13 DEF CacheIsFirst, Pings, MonitorStatus, Send
  <2>7. FirstWasSeen'
    BY <1>s, <1>13 DEF FirstWasSeen, Pings, MonitorStatus, Send
  <2>8. CounterIsReset'
    <3>1. pc' = pc /\ statusPc # "off"
      BY <1>13 DEF MonitorStatus
    <3> QED
      BY <1>r, <2>a, <2>b, <3>1 DEF CounterIsReset
  <2>9. SyncedMeansOverwritten'
    BY <1>w, <1>13 DEF SyncedMeansOverwritten, MonitorStatus, Send
  <2>10. ResetMeansStuck'
    BY <1>k, <1>f, <1>13 DEF ResetMeansStuck, Failures, MonitorStatus, Send
  <2>11. RemoteErrorsAloneAreSilent'
    <3>1. statusPc = "local"
      BY <1>13 DEF MonitorStatus
    <3> QED
      BY <1>e, <1>r, <2>a, <2>b, <3>1 DEF RemoteErrorsAloneAreSilent, CounterIsReset
  <2> QED
    BY <2>1, <2>2, <2>3, <2>4, <2>5, <2>6, <2>7, <2>8, <2>9, <2>10, <2>11 DEF SyncIInv,
       TypeOK
<1>14. CASE MonitorStatus("remote")
  <2>a. PICK pull \in HealthAnswers, answer \in Answers :
          /\ healthRetries' = IsHealthy(pull, answer).count
          /\ (localClean' => localClean)
          /\ \/ /\ IsHealthy(pull, answer).err \in {"nil", "busy", "lost"} /\ UNCHANGED disconnect
                /\ statusPc' = "local"
             \/ /\ IsHealthy(pull, answer).err \notin {"nil", "busy", "lost"}
                /\ disconnect' = IsHealthy(pull, answer).err /\ statusPc' = "off"
    BY <1>14 DEF MonitorStatus, Send
  <2>b. /\ IsHealthy(pull, answer).count \in 0..MaxRetries + 1
        /\ IsHealthy(pull, answer).err \in {"nil", "busy", "lost", "space", "unknown", "other"}
        /\ pull = "none" => IsHealthy(pull, answer) = [count |-> 0, err |-> "nil"]
        /\ healthRetries = 0 => IsHealthy(pull, answer).err \notin {"unknown", "other"}
    BY <1>t, Health DEF CounterTypes
  <2>1. PlaceTypes'
    <3>1. UNCHANGED <<pc, folder, cachedStatus, overwritten, seen>>
      BY <1>14 DEF MonitorStatus
    <3>2. disconnect' \in {"empty", "lost", "space", "unknown", "other"}
      BY <1>p, <2>a, <2>b DEF PlaceTypes
    <3> QED
      BY <1>p, <3>1, <3>2 DEF PlaceTypes
  <2>2. CounterTypes'
    <3>1. UNCHANGED <<turn, globalRetries, deletesRetries, pings>>
      BY <1>14 DEF MonitorStatus
    <3> QED
      BY <1>t, <2>a, <2>b, <3>1 DEF CounterTypes
  <2>3. ReadingTypes'
    BY <1>o, <1>14 DEF ReadingTypes, MonitorStatus, Send
  <2>4. WorldTypes'
    BY <1>v, <1>14 DEF WorldTypes, MonitorStatus, Send
  <2>5. Failures'
    BY <1>f, <1>14 DEF Failures, MonitorStatus, Send
  <2>6. CacheIsFirst'
    BY <1>c, <1>14 DEF CacheIsFirst, Pings, MonitorStatus, Send
  <2>7. FirstWasSeen'
    BY <1>s, <1>14 DEF FirstWasSeen, Pings, MonitorStatus, Send
  <2>8. CounterIsReset'
    <3>1. pc' = pc /\ statusPc # "off"
      BY <1>14 DEF MonitorStatus
    <3> QED
      BY <1>r, <2>a, <2>b, <3>1 DEF CounterIsReset
  <2>9. SyncedMeansOverwritten'
    BY <1>w, <1>14 DEF SyncedMeansOverwritten, MonitorStatus, Send
  <2>10. ResetMeansStuck'
    BY <1>k, <1>f, <1>14 DEF ResetMeansStuck, Failures, MonitorStatus, Send
  <2>11. RemoteErrorsAloneAreSilent'
    <3>1. statusPc = "remote"
      BY <1>14 DEF MonitorStatus
    <3> QED
      BY <1>e, <1>r, <2>a, <2>b, <3>1 DEF RemoteErrorsAloneAreSilent, CounterIsReset
  <2> QED
    BY <2>1, <2>2, <2>3, <2>4, <2>5, <2>6, <2>7, <2>8, <2>9, <2>10, <2>11 DEF SyncIInv,
       TypeOK
<1>15. CASE EndActivation
  <2>1. PlaceTypes'
    BY <1>p, <1>15 DEF PlaceTypes, EndActivation
  <2>2. CounterTypes'
    BY <1>t, CountsAssumption, <1>15 DEF CounterTypes, CountsAssumption, EndActivation
  <2>3. ReadingTypes'
    BY <1>o, <1>15 DEF ReadingTypes, EndActivation
  <2>4. WorldTypes'
    BY <1>v, <1>15 DEF WorldTypes, EndActivation
  <2>5. Failures'
    BY <1>f, <1>15 DEF Failures, EndActivation
  <2>6. CacheIsFirst'
    BY <1>c, <1>15 DEF CacheIsFirst, Pings, EndActivation
  <2>7. FirstWasSeen'
    BY <1>s, <1>15 DEF FirstWasSeen, Pings, EndActivation
  <2>8. CounterIsReset'
    BY <1>r, <1>15 DEF CounterIsReset, EndActivation
  <2>9. SyncedMeansOverwritten'
    BY <1>w, <1>15 DEF SyncedMeansOverwritten, EndActivation
  <2>10. ResetMeansStuck'
    BY <1>k, <1>f, <1>15 DEF ResetMeansStuck, Failures, EndActivation
  <2>11. RemoteErrorsAloneAreSilent'
    BY <1>e, <1>r, <1>15 DEF RemoteErrorsAloneAreSilent, CounterIsReset, EndActivation
  <2> QED
    BY <2>1, <2>2, <2>3, <2>4, <2>5, <2>6, <2>7, <2>8, <2>9, <2>10, <2>11 DEF SyncIInv,
       TypeOK
<1>16. ASSUME NEW s \in Sides, NEW f \in Folders, ScanStep(s, f) PROVE SyncIInv'
  <2>1. PlaceTypes'
    BY <1>p, <1>16 DEF PlaceTypes, ScanStep
  <2>2. CounterTypes'
    BY <1>t, CountsAssumption, <1>16 DEF CounterTypes, CountsAssumption, ScanStep
  <2>3. ReadingTypes'
    BY <1>o, <1>16 DEF ReadingTypes, ScanStep
  <2>4. WorldTypes'
    BY <1>v, <1>16 DEF WorldTypes, ScanStep
  <2>5. Failures'
    BY <1>f, <1>16 DEF Failures, ScanStep
  <2>6. CacheIsFirst'
    <3>1. UNCHANGED <<pc, folder, cachedStatus, seen, stale>>
      BY <1>16 DEF ScanStep
    <3>2. \A t \in Sides, g \in Folders : scan'[t][g] => scan[t][g]
      BY <1>v, <1>16 DEF WorldTypes, ScanStep
    <3> QED
      BY <1>p, <1>c, <3>1, <3>2, FolderNumbers DEF CacheIsFirst, PlaceTypes
  <2>7. FirstWasSeen'
    BY <1>s, <1>16 DEF FirstWasSeen, Pings, ScanStep
  <2>8. CounterIsReset'
    BY <1>r, <1>16 DEF CounterIsReset, ScanStep
  <2>9. SyncedMeansOverwritten'
    BY <1>w, <1>16 DEF SyncedMeansOverwritten, ScanStep
  <2>10. ResetMeansStuck'
    BY <1>k, <1>f, <1>16 DEF ResetMeansStuck, Failures, ScanStep
  <2>11. RemoteErrorsAloneAreSilent'
    BY <1>e, <1>r, <1>16 DEF RemoteErrorsAloneAreSilent, CounterIsReset, ScanStep
  <2> QED
    BY <2>1, <2>2, <2>3, <2>4, <2>5, <2>6, <2>7, <2>8, <2>9, <2>10, <2>11 DEF SyncIInv,
       TypeOK
<1>17. CASE UNCHANGED vars
  <2>1. PlaceTypes'
    BY <1>p, <1>17 DEF PlaceTypes, vars
  <2>2. CounterTypes'
    BY <1>t, <1>17 DEF CounterTypes, vars
  <2>3. ReadingTypes'
    BY <1>o, <1>17 DEF ReadingTypes, vars
  <2>4. WorldTypes'
    BY <1>v, <1>17 DEF WorldTypes, vars
  <2>5. Failures'
    BY <1>f, <1>17 DEF Failures, vars
  <2>6. CacheIsFirst'
    BY <1>c, <1>17 DEF CacheIsFirst, Pings, vars
  <2>7. FirstWasSeen'
    BY <1>s, <1>17 DEF FirstWasSeen, Pings, vars
  <2>8. CounterIsReset'
    BY <1>r, <1>17 DEF CounterIsReset, vars
  <2>9. SyncedMeansOverwritten'
    BY <1>w, <1>17 DEF SyncedMeansOverwritten, vars
  <2>10. ResetMeansStuck'
    BY <1>k, <1>17 DEF ResetMeansStuck, vars
  <2>11. RemoteErrorsAloneAreSilent'
    BY <1>e, <1>17 DEF RemoteErrorsAloneAreSilent, vars
  <2> QED
    BY <2>1, <2>2, <2>3, <2>4, <2>5, <2>6, <2>7, <2>8, <2>9, <2>10, <2>11 DEF SyncIInv,
       TypeOK
<1> QED
  BY <1>1, <1>2, <1>3, <1>4, <1>5, <1>6, <1>7, <1>8, <1>9, <1>10, <1>11, <1>12, <1>13,
     <1>14, <1>15, <1>16, <1>17 DEF Next, Sync, Done

\* What up.sync reports is so in every order of answers, timeouts and scans of the
\* two Syncthing processes (completion.go, syncthing.go, monitor.go).
THEOREM SyncIsTruthful == Spec => []SyncTellsTheTruth
<1>1. SyncIInv => SyncTellsTheTruth
  BY DEF SyncIInv, SyncTellsTheTruth, FirstFolderScanned, FirstWasSeen, Pings
<1> QED
  BY SyncStart, SyncStep, <1>1, PTL DEF Spec
=============================================================================
