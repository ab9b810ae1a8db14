-------------------------- MODULE Commands_proofs ---------------------------
(***************************************************************************)
(* That `okteto down' undoes what `okteto up' did, that diverts of a       *)
(* shared namespace hold and that the file of contexts stays whole, for    *)
(* any number of commands, cuts and changes.                               *)
(*                                                                         *)
(* DevMode: an application, and each copy of it that a command read and    *)
(* has yet to write, knows the replicas of the user (AppsAreSane); a clone *)
(* is made before and removed after its application is switched            *)
(* (ClonesAreFirst, ClonesAreFound), and DownSoFar and UpSoFar say what    *)
(* each place of a command has behind it.                                  *)
(* Divert: what a command has read is what is there or an earlier version, *)
(* each try that failed is an update of another (IstioIInv), and every     *)
(* service of the user is diverted, was not seen, or waits for a command   *)
(* (NginxIInv).                                                            *)
(* Contexts: each command is sound (CommandIsSound): what it knows of its  *)
(* context, and why it writes, follows from where it is, and the last      *)
(* writer was entitled to write (WriterIsEntitled).                        *)
(***************************************************************************)
EXTENDS DevMode, Contexts, Divert, TLAPS

-----------------------------------------------------------------------------
(* Applications in and out of development mode                               *)

\* What DevModeOff and translate make of an application that remembers n replicas.
IsOff(a, n) ==
  a.there /\ ~a.auto /\ ~a.dev /\ ~a.marked /\ a.kept = None /\ a.replicas = n /\ a.slept \in {None, n}
IsTranslated(a, n) ==
  a.there /\ ~a.auto /\ a.dev /\ a.marked /\ a.kept = n /\ a.slept = None /\ a.replicas = 0

\* Numbers of replicas, and none.
LEMMA Numbers ==
  /\ None \in None..3 /\ None \notin {2, 3} /\ 0 \in 0..3 /\ 1 \in 0..3 /\ 2 \in 0..3 /\ 3 \in 0..3
  /\ \A n \in 0..3 : n \in None..3
  BY DEF None

\* The constant applications and the commands that do nothing.
LEMMA Places ==
  /\ Absent \in AppType /\ ~Absent.there /\ ~Absent.auto /\ ~Absent.dev
  /\ Sandbox \in AppType /\ ~Sandbox.there /\ Sandbox.auto /\ Sandbox.dev
  /\ Idle \in UpType /\ Idle.pc = "idle" /\ Idle.main = Absent /\ Idle.svc = Absent
  /\ IdleDown \in DownType /\ IdleDown.pc = "idle" /\ IdleDown.main = Absent /\ IdleDown.svc = Absent
  /\ ~IdleDown.checked /\ IdleDown.todo = {} /\ ~IdleDown.rm
<1>1. Absent \in AppType /\ ~Absent.there /\ ~Absent.auto /\ ~Absent.dev
  BY Numbers DEF Absent, Application, AppType
<1>2. Sandbox \in AppType /\ ~Sandbox.there /\ Sandbox.auto /\ Sandbox.dev
  BY Numbers DEF Sandbox, Application, AppType
<1>3. Idle \in UpType /\ Idle.pc = "idle" /\ Idle.main = Absent /\ Idle.svc = Absent
  BY <1>1 DEF Idle, UpType, UpPlaces
<1>4. /\ IdleDown \in DownType /\ IdleDown.pc = "idle" /\ IdleDown.main = Absent /\ IdleDown.svc = Absent
      /\ ~IdleDown.checked /\ IdleDown.todo = {} /\ ~IdleDown.rm
  BY <1>1 DEF IdleDown, DownType
<1> QED
  BY <1>1, <1>2, <1>3, <1>4

\* DevModeOff gives the application its replicas back and forgets the rest.
LEMMA OffIs ==
  ASSUME NEW a \in AppType, NEW n \in {2, 3}, IsSane(a, n), a.there
  PROVE  DevModeOff(a) \in AppType /\ IsOff(DevModeOff(a), n)
<1>1. getPreviousAppReplicas(a) = n
  BY Numbers DEF getPreviousAppReplicas, IsSane
<1>2. n \in 0..3 /\ None \in None..3
  BY Numbers
<1>3. DevModeOff(a) \in AppType
  BY <1>1, <1>2 DEF DevModeOff, AppType
<1>4. /\ DevModeOff(a).there /\ ~DevModeOff(a).auto /\ ~DevModeOff(a).dev /\ ~DevModeOff(a).marked
  BY DEF DevModeOff, AppType, IsSane
<1>5. DevModeOff(a).kept = None /\ DevModeOff(a).replicas = n /\ DevModeOff(a).slept = a.slept
  BY <1>1 DEF DevModeOff, AppType
<1>6. a.slept \in {None, n}
  BY Numbers DEF IsSane, AppType
<1> QED
  BY <1>3, <1>4, <1>5, <1>6 DEF IsOff

\* translate remembers the replicas and takes them away; it keeps a sandbox one.
LEMMA TranslationIs ==
  ASSUME NEW a \in AppType, NEW n \in {2, 3}, IsSane(a, n)
  PROVE  /\ a.there => translate(a) \in AppType /\ IsTranslated(translate(a), n)
         /\ translate(a).there = a.there /\ translate(a).auto = a.auto
         /\ a.there => [translate(a) EXCEPT !.there = TRUE] = translate(a)
<1>1. translate(a).there = a.there /\ translate(a).auto = a.auto
  BY DEF translate, DevModeOff, AppType
<1>2. ASSUME a.there PROVE translate(a) \in AppType /\ IsTranslated(translate(a), n)
  <2>1. PICK b \in AppType : b = DevModeOff(a) /\ IsOff(b, n)
    BY <1>2, OffIs
  <2>2. getPreviousAppReplicas(b) = n
    BY <2>1, Numbers DEF getPreviousAppReplicas, IsOff
  <2>3. translate(a) = [b EXCEPT !.kept = n, !.slept = None, !.dev = TRUE, !.marked = TRUE, !.replicas = 0]
    BY <2>1, <2>2 DEF translate
  <2>4. n \in None..3 /\ None \in None..3 /\ 0 \in 0..3
    BY Numbers
  <2>5. translate(a) \in AppType
    BY <2>3, <2>4 DEF AppType
  <2>6. /\ translate(a).kept = n /\ translate(a).slept = None /\ translate(a).replicas = 0
        /\ translate(a).dev /\ translate(a).marked
    BY <2>3 DEF AppType
  <2>7. translate(a).there /\ ~translate(a).auto
    BY <1>1, <1>2, <2>1 DEF IsSane
  <2> QED
    BY <2>5, <2>6, <2>7 DEF IsTranslated
<1>3. ASSUME a.there PROVE [translate(a) EXCEPT !.there = TRUE] = translate(a)
  BY <1>2, <1>3 DEF IsTranslated, AppType
<1> QED
  BY <1>1, <1>2, <1>3

\* Both know the replicas of the user.
LEMMA StaySane ==
  ASSUME NEW a \in AppType, NEW n \in {2, 3}, IsOff(a, n) \/ IsTranslated(a, n)
  PROVE  IsSane(a, n)
<1>1. CASE IsOff(a, n)
  BY <1>1, Numbers DEF IsOff, IsSane, AppType
<1>2. CASE IsTranslated(a, n)
  BY <1>2, Numbers DEF IsTranslated, IsSane, AppType
<1> QED
  BY <1>1, <1>2

\* A clone is there and has replicas.
LEMMA CloneIs ==
  ASSUME NEW x \in Apps, NEW a \in AppType, NEW n \in {2, 3}, IsSane(a, n), a.there \/ x = "main"
  PROVE  DevClone(x, a) \in [there : BOOLEAN, replicas : 0..3] /\ DevClone(x, a).there
<1>1. CASE x = "main"
  BY <1>1 DEF DevClone
<1>2. CASE x # "main"
  <2>1. DevModeOff(a).replicas = n
    BY <1>2, OffIs DEF IsOff
  <2> QED
    BY <1>2, <2>1 DEF DevClone
<1> QED
  BY <1>1, <1>2

\* A step of okteto up from one place to the next.
LEMMA UpStepIs ==
  ASSUME ClusterTypes, CommandTypes, NEW from, NEW to \in UpPlaces, UpStep(from, to)
  PROVE  /\ up.pc = from /\ up' \in UpType /\ up'.pc = to /\ up'.later = up.later
         /\ IF to = "running" THEN ~up'.main.there /\ ~up'.main.auto /\ ~up'.svc.there
            ELSE up'.main = up.main /\ up'.svc = up.svc
         /\ (~overlap' => ~overlap /\ down.pc = "idle") /\ overlap' \in BOOLEAN
         /\ UNCHANGED <<kind, wanted, down>>
<1>1. up.pc = from /\ UNCHANGED <<kind, wanted, down>>
  BY DEF UpStep
<1>2. (~overlap' => ~overlap /\ down.pc = "idle") /\ overlap' \in BOOLEAN
  BY DEF UpStep, ClusterTypes
<1>3. CASE to = "running"
  BY <1>1, <1>2, <1>3, Places DEF UpStep, UpType, CommandTypes
<1>4. CASE to # "running"
  BY <1>1, <1>2, <1>4 DEF UpStep, UpType, CommandTypes
<1> QED
  BY <1>3, <1>4

\* Every step of okteto up, of okteto down, of the user and of the platform preserves
\* the invariant.
LEMMA DevStep == DevIInv /\ [Next]_vars => DevIInv'
<1> SUFFICES ASSUME DevIInv, [Next]_vars PROVE DevIInv'
  OBVIOUS
<1>t. ClusterTypes
  BY DEF DevIInv
<1>y. CommandTypes
  BY DEF DevIInv
<1>a. AppsAreSane
  BY DEF DevIInv
<1>h. CommandsHold
  BY DEF DevIInv
<1>k. KindsHold
  BY DEF DevIInv
<1>d. DownSoFar
  BY DEF DevIInv
<1>f. ClonesAreFirst
  BY DEF DevIInv
<1>o. ClonesAreFound
  BY DEF DevIInv
<1>u. UpSoFar
  BY DEF DevIInv
<1>1. CASE UpStart
  <2>a. /\ up.pc = "idle" /\ up' \in UpType /\ up'.pc = "app" /\ ~up'.main.there /\ ~up'.main.auto /\ ~up'.svc.there
        /\ count' \in CountType /\ count'.cuts = count.cuts /\ count'.changes = count.changes
        /\ (~overlap' => ~overlap /\ down.pc = "idle") /\ overlap' \in BOOLEAN
        /\ UNCHANGED <<kind, app, clone, secret, service, volume, wanted, down>>
    <3>1. up.pc = "idle" /\ up' \in UpType /\ up'.pc = "app" /\ ~up'.main.there /\ ~up'.main.auto /\ ~up'.svc.there
      <4>1. PICK later \in BOOLEAN : up.pc = "idle" /\ up' = [Idle EXCEPT !.pc = "app", !.later = later]
        BY <1>1 DEF UpStart
      <4> QED
        BY <4>1, Places DEF UpType, UpPlaces
    <3>2. count' \in CountType /\ count'.cuts = count.cuts /\ count'.changes = count.changes
      BY <1>y, <1>1 DEF UpStart, CommandTypes, CountType
    <3>3. (~overlap' => ~overlap /\ down.pc = "idle") /\ overlap' \in BOOLEAN
      BY <1>t, <1>1 DEF UpStart, ClusterTypes
    <3>4. UNCHANGED <<kind, app, clone, secret, service, volume, wanted, down>>
      BY <1>1 DEF UpStart, cluster
    <3> QED
      BY <3>1, <3>2, <3>3, <3>4
  <2>1. ClusterTypes'
    BY <2>a, <1>t, <1>y DEF ClusterTypes, CommandTypes
  <2>2. CommandTypes'
    BY <2>a, <1>y DEF CommandTypes
  <2>3. AppsAreSane'
    BY <2>a, <1>a, <1>t, <1>y, <1>h, <2>1 DEF IsSane, IsOff, IsTranslated, AppsAreSane,
       Apps, ClusterTypes, CommandTypes, CommandsHold
  <2>4. CommandsHold'
    BY <2>a, <1>h, <1>y DEF IsTranslated, CommandsHold, CommandTypes
  <2>5. KindsHold'
    BY <2>a, <1>k, <1>h, <1>y DEF IsTranslated, IsOff, KindsHold, CommandsHold, CommandTypes
  <2>6. DownSoFar'
    BY <2>a, <1>d, <1>h, <1>k, <1>t, <1>y DEF IsOff, DownSoFar, Restored, Apps,
       CommandsHold, KindsHold, ClusterTypes, CommandTypes
  <2>7. ClonesAreFirst'
    BY <2>a, <1>f, <1>h, <1>d, <1>t, <1>y DEF IsTranslated, IsOff, Restored, ClonesAreFirst,
       Apps, CommandsHold, DownSoFar, ClusterTypes, CommandTypes
  <2>8. ClonesAreFound'
    BY <2>a, <1>o, <1>h, <1>f, <1>k, <1>d, <1>t, <1>y DEF IsTranslated, IsOff,
       ClonesAreFound, Apps, Autocreate, CommandsHold, ClonesAreFirst, KindsHold, DownSoFar,
       Restored, ClusterTypes, CommandTypes
  <2>9. UpSoFar'
    BY <2>a, <1>u, <1>h, <1>t, <1>y, <1>f DEF IsTranslated, UpSoFar, Switched, Apps,
       CommandsHold, ClusterTypes, CommandTypes, ClonesAreFirst
  <2> QED
    BY <2>1, <2>2, <2>3, <2>4, <2>5, <2>6, <2>7, <2>8, <2>9 DEF DevIInv
<1>2. CASE UpGetApp
  <2>a. /\ up.pc = "app" /\ up' \in UpType /\ (~overlap' => ~overlap /\ down.pc = "idle") /\ overlap' \in BOOLEAN
        /\ \/ up'.pc = "idle" /\ ~up'.main.there /\ ~up'.main.auto /\ ~up'.svc.there
           \/ /\ up'.pc = "volume" /\ up'.svc = up.svc
              /\ \/ kind = "app" /\ up'.main = app["main"] /\ app["main"].there
                 \/ kind # "app" /\ ~up'.main.there /\ up'.main.auto /\ ~app["main"].there
        /\ UNCHANGED <<kind, app, clone, secret, service, volume, wanted, down, count>>
    <3>1. up.pc = "app" /\ up' \in UpType /\ (~overlap' => ~overlap /\ down.pc = "idle") /\ overlap' \in BOOLEAN
      BY ZenonT(60), <1>t, <1>y, <1>a, <1>k, Places, <1>2 DEF UpGetApp, ClusterTypes, CommandTypes,
         cluster, AppsAreSane, IsSane, GetApp, AppFound, Autocreate, Apps, UpType, UpPlaces
    <3>2. /\ \/ up'.pc = "idle" /\ ~up'.main.there /\ ~up'.main.auto /\ ~up'.svc.there
             \/ /\ up'.pc = "volume" /\ up'.svc = up.svc
                /\ \/ kind = "app" /\ up'.main = app["main"] /\ app["main"].there
                   \/ kind # "app" /\ ~up'.main.there /\ up'.main.auto /\ ~app["main"].there
      BY ZenonT(60), <1>t, <1>y, <1>a, <1>k, Places, <1>2 DEF UpGetApp, ClusterTypes, CommandTypes,
         cluster, AppsAreSane, IsSane, GetApp, AppFound, Autocreate, Apps, UpType, UpPlaces
    <3>3. UNCHANGED <<kind, app, clone, secret, service, volume, wanted, down, count>>
      BY <1>2 DEF UpGetApp, cluster
    <3> QED
      BY <3>1, <3>2, <3>3
  <2>1. ClusterTypes'
    BY <2>a, <1>t, <1>y DEF ClusterTypes, CommandTypes
  <2>2. CommandTypes'
    BY <2>a, <1>y DEF CommandTypes
  <2>3. AppsAreSane'
    BY <2>a, <1>a, <1>t, <1>y, <1>h, <2>1 DEF IsSane, IsOff, IsTranslated, AppsAreSane,
       Apps, ClusterTypes, CommandTypes, CommandsHold
  <2>4. CommandsHold'
    BY <2>a, <1>h, <1>y DEF IsTranslated, CommandsHold, CommandTypes
  <2>5. KindsHold'
    BY <2>a, <1>k, <1>h, <1>y, <1>a DEF IsTranslated, IsOff, KindsHold, CommandsHold,
       CommandTypes, AppsAreSane, IsSane, Apps
  <2>6. DownSoFar'
    BY <2>a, <1>d, <1>h, <1>k, <1>t, <1>y DEF IsOff, DownSoFar, Restored, Apps,
       CommandsHold, KindsHold, ClusterTypes, CommandTypes
  <2>7. ClonesAreFirst'
    BY <2>a, <1>f, <1>h, <1>d, <1>t, <1>y DEF IsTranslated, IsOff, Restored, ClonesAreFirst,
       Apps, CommandsHold, DownSoFar, ClusterTypes, CommandTypes
  <2>8. ClonesAreFound'
    BY <2>a, <1>o, <1>h, <1>f, <1>k, <1>d, <1>t, <1>y DEF IsTranslated, IsOff,
       ClonesAreFound, Apps, Autocreate, CommandsHold, ClonesAreFirst, KindsHold, DownSoFar,
       Restored, ClusterTypes, CommandTypes
  <2>9. UpSoFar'
    BY <2>a, <1>u, <1>h, <1>t, <1>y, <1>f DEF IsTranslated, UpSoFar, Switched, Apps,
       CommandsHold, ClusterTypes, CommandTypes, ClonesAreFirst
  <2> QED
    BY <2>1, <2>2, <2>3, <2>4, <2>5, <2>6, <2>7, <2>8, <2>9 DEF DevIInv
<1>3. CASE CreateVolume
  <2>a. /\ up.pc = "volume" /\ up' \in UpType /\ up'.later = up.later
        /\ up'.pc = "translations" /\ up'.main = up.main /\ up'.svc = up.svc
        /\ (~overlap' => ~overlap /\ down.pc = "idle") /\ overlap' \in BOOLEAN
        /\ UNCHANGED <<kind, wanted, down, count>>
        /\ volume' \in {"absent", "there", "terminating"}
        /\ UNCHANGED <<app, clone, secret, service>>
    <3>0. UpStep("volume", "translations")
      BY <1>3 DEF CreateVolume
    <3>1. up.pc = "volume" /\ up' \in UpType /\ up'.later = up.later
      BY <1>t, <1>y, <3>0, UpStepIs DEF UpPlaces
    <3>2. up'.pc = "translations" /\ up'.main = up.main /\ up'.svc = up.svc
      BY <1>t, <1>y, <3>0, UpStepIs DEF UpPlaces
    <3>3. (~overlap' => ~overlap /\ down.pc = "idle") /\ overlap' \in BOOLEAN
      BY <1>t, <1>y, <3>0, UpStepIs DEF UpPlaces
    <3>4. UNCHANGED <<kind, wanted, down, count>>
      BY <1>3, <3>0 DEF CreateVolume, UpStep
    <3>5. volume' \in {"absent", "there", "terminating"}
      BY <1>t, <1>y, <1>3, <3>0 DEF CreateVolume, ClusterTypes, UpStep
    <3>6. UNCHANGED <<app, clone, secret, service>>
      BY <1>3, <3>0 DEF CreateVolume, UpStep
    <3> QED
      BY <3>1, <3>2, <3>3, <3>4, <3>5, <3>6
  <2>1. ClusterTypes'
    BY <2>a, <1>t, <1>y DEF ClusterTypes, CommandTypes
  <2>2. CommandTypes'
    BY <2>a, <1>y DEF CommandTypes
  <2>3. AppsAreSane'
    BY <2>a, <1>a, <1>t, <1>y, <1>h, <2>1 DEF IsSane, IsOff, IsTranslated, AppsAreSane,
       Apps, ClusterTypes, CommandTypes, CommandsHold
  <2>4. CommandsHold'
    BY <2>a, <1>h, <1>y DEF IsTranslated, CommandsHold, CommandTypes
  <2>5. KindsHold'
    BY <2>a, <1>k, <1>h, <1>y DEF IsTranslated, IsOff, KindsHold, CommandsHold, CommandTypes
  <2>6. DownSoFar'
    BY <2>a, <1>d, <1>h, <1>k, <1>t, <1>y DEF IsOff, DownSoFar, Restored, Apps,
       CommandsHold, KindsHold, ClusterTypes, CommandTypes
  <2>7. ClonesAreFirst'
    BY <2>a, <1>f, <1>h, <1>d, <1>t, <1>y DEF IsTranslated, IsOff, Restored, ClonesAreFirst,
       Apps, CommandsHold, DownSoFar, ClusterTypes, CommandTypes
  <2>8. ClonesAreFound'
    BY <2>a, <1>o, <1>h, <1>f, <1>k, <1>d, <1>t, <1>y DEF IsTranslated, IsOff,
       ClonesAreFound, Apps, Autocreate, CommandsHold, ClonesAreFirst, KindsHold, DownSoFar,
       Restored, ClusterTypes, CommandTypes
  <2>9. UpSoFar'
    BY <2>a, <1>u, <1>h, <1>t, <1>y, <1>f DEF IsTranslated, UpSoFar, Switched, Apps,
       CommandsHold, ClusterTypes, CommandTypes, ClonesAreFirst
  <2> QED
    BY <2>1, <2>2, <2>3, <2>4, <2>5, <2>6, <2>7, <2>8, <2>9 DEF DevIInv
<1>4. CASE GetTranslations
  <2>a. /\ up.pc = "translations" /\ up' \in UpType /\ up'.later = up.later
        /\ up'.pc = "secret" /\ up'.main = up.main /\ up'.svc = app["svc"] /\ app["svc"].there
        /\ (~overlap' => ~overlap /\ down.pc = "idle") /\ overlap' \in BOOLEAN
        /\ UNCHANGED <<kind, app, clone, secret, service, volume, wanted, down, count>>
    <3>1. up.pc = "translations" /\ up' \in UpType /\ up'.later = up.later
      BY <1>t, <1>y, <1>4 DEF GetTranslations, ClusterTypes, CommandTypes, cluster, UpType,
         UpPlaces, Apps
    <3>2. up'.pc = "secret" /\ up'.main = up.main /\ up'.svc = app["svc"] /\ app["svc"].there
      BY <1>t, <1>y, <1>4 DEF GetTranslations, ClusterTypes, CommandTypes, cluster, UpType,
         UpPlaces, Apps
    <3>3. (~overlap' => ~overlap /\ down.pc = "idle") /\ overlap' \in BOOLEAN
      BY <1>t, <1>4 DEF GetTranslations, ClusterTypes
    <3>4. UNCHANGED <<kind, app, clone, secret, service, volume, wanted, down, count>>
      BY <1>4 DEF GetTranslations, cluster
    <3> QED
      BY <3>1, <3>2, <3>3, <3>4
  <2>1. ClusterTypes'
    BY <2>a, <1>t, <1>y DEF ClusterTypes, CommandTypes
  <2>2. CommandTypes'
    BY <2>a, <1>y DEF CommandTypes
  <2>3. AppsAreSane'
    BY <2>a, <1>a, <1>t, <1>y, <1>h, <2>1 DEF IsSane, IsOff, IsTranslated, AppsAreSane,
       Apps, ClusterTypes, CommandTypes, CommandsHold
  <2>4. CommandsHold'
    BY <2>a, <1>h, <1>y DEF IsTranslated, CommandsHold, CommandTypes
  <2>5. KindsHold'
    BY <2>a, <1>k, <1>h, <1>y DEF IsTranslated, IsOff, KindsHold, CommandsHold, CommandTypes
  <2>6. DownSoFar'
    BY <2>a, <1>d, <1>h, <1>k, <1>t, <1>y DEF IsOff, DownSoFar, Restored, Apps,
       CommandsHold, KindsHold, ClusterTypes, CommandTypes
  <2>7. ClonesAreFirst'
    BY <2>a, <1>f, <1>h, <1>d, <1>t, <1>y DEF IsTranslated, IsOff, Restored, ClonesAreFirst,
       Apps, CommandsHold, DownSoFar, ClusterTypes, CommandTypes
  <2>8. ClonesAreFound'
    BY <2>a, <1>o, <1>h, <1>f, <1>k, <1>d, <1>t, <1>y DEF IsTranslated, IsOff,
       ClonesAreFound, Apps, Autocreate, CommandsHold, ClonesAreFirst, KindsHold, DownSoFar,
       Restored, ClusterTypes, CommandTypes
  <2>9. UpSoFar'
    BY <2>a, <1>u, <1>h, <1>t, <1>y, <1>f DEF IsTranslated, UpSoFar, Switched, Apps,
       CommandsHold, ClusterTypes, CommandTypes, ClonesAreFirst
  <2> QED
    BY <2>1, <2>2, <2>3, <2>4, <2>5, <2>6, <2>7, <2>8, <2>9 DEF DevIInv
<1>5. CASE CreateSecret
  <2>a. /\ up.pc = "secret" /\ up' \in UpType /\ up'.later = up.later
        /\ up'.pc = "mainClone" /\ up'.main = up.main /\ up'.svc = up.svc
        /\ (~overlap' => ~overlap /\ down.pc = "idle") /\ overlap' \in BOOLEAN
        /\ UNCHANGED <<kind, wanted, down, count>>
        /\ secret'
        /\ UNCHANGED <<app, clone, service, volume>>
    <3>0. UpStep("secret", "mainClone")
      BY <1>5 DEF CreateSecret
    <3>1. up.pc = "secret" /\ up' \in UpType /\ up'.later = up.later
      BY <1>t, <1>y, <3>0, UpStepIs DEF UpPlaces
    <3>2. up'.pc = "mainClone" /\ up'.main = up.main /\ up'.svc = up.svc
      BY <1>t, <1>y, <3>0, UpStepIs DEF UpPlaces
    <3>3. (~overlap' => ~overlap /\ down.pc = "idle") /\ overlap' \in BOOLEAN
      BY <1>t, <1>y, <3>0, UpStepIs DEF UpPlaces
    <3>4. UNCHANGED <<kind, wanted, down, count>>
      BY <1>5, <3>0 DEF CreateSecret, UpStep
    <3>5. secret'
      BY <1>t, <1>y, <1>5, <3>0 DEF CreateSecret, ClusterTypes, UpStep
    <3>6. UNCHANGED <<app, clone, service, volume>>
      BY <1>5, <3>0 DEF CreateSecret, UpStep
    <3> QED
      BY <3>1, <3>2, <3>3, <3>4, <3>5, <3>6
  <2>1. ClusterTypes'
    BY <2>a, <1>t, <1>y DEF ClusterTypes, CommandTypes
  <2>2. CommandTypes'
    BY <2>a, <1>y DEF CommandTypes
  <2>3. AppsAreSane'
    BY <2>a, <1>a, <1>t, <1>y, <1>h, <2>1 DEF IsSane, IsOff, IsTranslated, AppsAreSane,
       Apps, ClusterTypes, CommandTypes, CommandsHold
  <2>4. CommandsHold'
    BY <2>a, <1>h, <1>y DEF IsTranslated, CommandsHold, CommandTypes
  <2>5. KindsHold'
    BY <2>a, <1>k, <1>h, <1>y DEF IsTranslated, IsOff, KindsHold, CommandsHold, CommandTypes
  <2>6. DownSoFar'
    BY <2>a, <1>d, <1>h, <1>k, <1>t, <1>y DEF IsOff, DownSoFar, Restored, Apps,
       CommandsHold, KindsHold, ClusterTypes, CommandTypes
  <2>7. ClonesAreFirst'
    BY <2>a, <1>f, <1>h, <1>d, <1>t, <1>y DEF IsTranslated, IsOff, Restored, ClonesAreFirst,
       Apps, CommandsHold, DownSoFar, ClusterTypes, CommandTypes
  <2>8. ClonesAreFound'
    BY <2>a, <1>o, <1>h, <1>f, <1>k, <1>d, <1>t, <1>y DEF IsTranslated, IsOff,
       ClonesAreFound, Apps, Autocreate, CommandsHold, ClonesAreFirst, KindsHold, DownSoFar,
       Restored, ClusterTypes, CommandTypes
  <2>9. UpSoFar'
    BY <2>a, <1>u, <1>h, <1>t, <1>y, <1>f DEF IsTranslated, UpSoFar, Switched, Apps,
       CommandsHold, ClusterTypes, CommandTypes, ClonesAreFirst
  <2> QED
    BY <2>1, <2>2, <2>3, <2>4, <2>5, <2>6, <2>7, <2>8, <2>9 DEF DevIInv
<1>6. CASE DeployClone("main", "mainClone", "mainApp")
  <2>a. /\ up.pc = "mainClone" /\ up' \in UpType /\ up'.later = up.later
        /\ up'.pc = "mainApp" /\ up'.main = up.main /\ up'.svc = up.svc
        /\ (~overlap' => ~overlap /\ down.pc = "idle") /\ overlap' \in BOOLEAN
        /\ UNCHANGED <<kind, wanted, down, count>>
        /\ clone' \in [Apps -> [there : BOOLEAN, replicas : 0..3]]
        /\ clone'["main"].there /\ clone'["svc"] = clone["svc"]
        /\ UNCHANGED <<app, secret, service, volume>>
    <3>0. UpStep("mainClone", "mainApp")
      BY <1>6 DEF DeployClone
    <3>1. up.pc = "mainClone" /\ up' \in UpType /\ up'.later = up.later
      BY <1>t, <1>y, <3>0, UpStepIs DEF UpPlaces
    <3>2. up'.pc = "mainApp" /\ up'.main = up.main /\ up'.svc = up.svc
      BY <1>t, <1>y, <3>0, UpStepIs DEF UpPlaces
    <3>3. (~overlap' => ~overlap /\ down.pc = "idle") /\ overlap' \in BOOLEAN
      BY <1>t, <1>y, <3>0, UpStepIs DEF UpPlaces
    <3>4. UNCHANGED <<kind, wanted, down, count>>
      BY <1>6, <3>0 DEF DeployClone, UpStep
    <3>5. clone' \in [Apps -> [there : BOOLEAN, replicas : 0..3]]
      BY <1>t, <1>y, <1>a, <1>h, CloneIs, <1>6, <3>0 DEF DeployClone, ClusterTypes,
         CommandTypes, CommandsHold, AppsAreSane, UpType, Apps, UpStep
    <3>6. clone'["main"].there /\ clone'["svc"] = clone["svc"]
      BY <1>t, <1>y, <1>a, <1>h, CloneIs, <1>6, <3>0 DEF DeployClone, ClusterTypes,
         CommandTypes, CommandsHold, AppsAreSane, UpType, Apps, UpStep
    <3>7. UNCHANGED <<app, secret, service, volume>>
      BY <1>6, <3>0 DEF DeployClone, UpStep
    <3> QED
      BY <3>1, <3>2, <3>3, <3>4, <3>5, <3>6, <3>7
  <2>1. ClusterTypes'
    BY <2>a, <1>t, <1>y DEF ClusterTypes, CommandTypes
  <2>2. CommandTypes'
    BY <2>a, <1>y DEF CommandTypes
  <2>3. AppsAreSane'
    BY <2>a, <1>a, <1>t, <1>y, <1>h, <2>1 DEF IsSane, IsOff, IsTranslated, AppsAreSane,
       Apps, ClusterTypes, CommandTypes, CommandsHold
  <2>4. CommandsHold'
    BY <2>a, <1>h, <1>y DEF IsTranslated, CommandsHold, CommandTypes
  <2>5. KindsHold'
    BY <2>a, <1>k, <1>h, <1>y DEF IsTranslated, IsOff, KindsHold, CommandsHold, CommandTypes
  <2>6. DownSoFar'
    BY <2>a, <1>d, <1>h, <1>k, <1>t, <1>y DEF IsOff, DownSoFar, Restored, Apps,
       CommandsHold, KindsHold, ClusterTypes, CommandTypes
  <2>7. ClonesAreFirst'
    BY <2>a, <1>f, <1>h, <1>d, <1>t, <1>y DEF IsTranslated, IsOff, Restored, ClonesAreFirst,
       Apps, CommandsHold, DownSoFar, ClusterTypes, CommandTypes
  <2>8. ClonesAreFound'
    BY <2>a, <1>o, <1>h, <1>f, <1>k, <1>d, <1>t, <1>y DEF IsTranslated, IsOff,
       ClonesAreFound, Apps, Autocreate, CommandsHold, ClonesAreFirst, KindsHold, DownSoFar,
       Restored, ClusterTypes, CommandTypes
  <2>9. UpSoFar'
    BY <2>a, <1>u, <1>h, <1>t, <1>y, <1>f DEF IsTranslated, UpSoFar, Switched, Apps,
       CommandsHold, ClusterTypes, CommandTypes, ClonesAreFirst
  <2> QED
    BY <2>1, <2>2, <2>3, <2>4, <2>5, <2>6, <2>7, <2>8, <2>9 DEF DevIInv
<1>7. CASE DeployApp("main", "mainApp", IF up.later THEN "service" ELSE "svcClone")
  <2>a. /\ up.pc = "mainApp" /\ up' \in UpType /\ up'.later = up.later
        /\ up'.pc = (IF up.later THEN "service" ELSE "svcClone") /\ up'.main = up.main /\ up'.svc = up.svc
        /\ (~overlap' => ~overlap /\ down.pc = "idle") /\ overlap' \in BOOLEAN
        /\ UNCHANGED <<kind, wanted, down, count>>
        /\ app' \in [Apps -> AppType] /\ app'["svc"] = app["svc"]
        /\ IF up.main.there THEN IsTranslated(app'["main"], wanted["main"]) ELSE app' = app
        /\ UNCHANGED <<clone, secret, service, volume>>
    <3>0. UpStep("mainApp", IF up.later THEN "service" ELSE "svcClone")
      BY <1>7 DEF DeployApp
    <3>1. up.pc = "mainApp" /\ up' \in UpType /\ up'.later = up.later
      BY <1>t, <1>y, <3>0, UpStepIs DEF UpPlaces
    <3>2. up'.pc = (IF up.later THEN "service" ELSE "svcClone") /\ up'.main = up.main /\ up'.svc = up.svc
      BY <1>t, <1>y, <3>0, UpStepIs DEF UpPlaces
    <3>3. (~overlap' => ~overlap /\ down.pc = "idle") /\ overlap' \in BOOLEAN
      BY <1>t, <1>y, <3>0, UpStepIs DEF UpPlaces
    <3>4. UNCHANGED <<kind, wanted, down, count>>
      BY <1>7, <3>0 DEF DeployApp, UpStep
    <3>5. app' \in [Apps -> AppType] /\ app'["svc"] = app["svc"]
      BY ZenonT(60), <1>t, <1>y, <1>a, <1>h, TranslationIs, <1>7, <3>0 DEF DeployApp, Deploy,
         ClusterTypes, CommandTypes, CommandsHold, AppsAreSane, UpType, Apps, UpStep
    <3>6. IF up.main.there THEN IsTranslated(app'["main"], wanted["main"]) ELSE app' = app
      BY <1>t, <1>y, <1>a, <1>h, TranslationIs, <1>7, <3>0 DEF DeployApp, Deploy,
         ClusterTypes, CommandTypes, CommandsHold, AppsAreSane, UpType, Apps, UpStep
    <3>7. UNCHANGED <<clone, secret, service, volume>>
      BY <1>7, <3>0 DEF DeployApp, UpStep
    <3> QED
      BY <3>1, <3>2, <3>3, <3>4, <3>5, <3>6, <3>7
  <2>1. ClusterTypes'
    BY <2>a, <1>t, <1>y DEF ClusterTypes, CommandTypes
  <2>2. CommandTypes'
    BY <2>a, <1>y DEF CommandTypes
  <2>3. AppsAreSane'
    <3>0. /\ wanted' = wanted /\ wanted["main"] \in {2, 3} /\ wanted["svc"] \in {2, 3}
          /\ app' \in [Apps -> AppType] /\ Apps = {"main", "svc"}
      BY <2>a, <1>t DEF ClusterTypes, Apps
    <3>1. IsSane(app'["main"], wanted["main"])
      <4>1. CASE up.main.there
        BY <4>1, <3>0, <2>a, StaySane
      <4>2. CASE ~up.main.there
        BY <4>2, <3>0, <2>a, <1>a DEF AppsAreSane
      <4> QED
        BY <4>1, <4>2
    <3>2. IsSane(app'["svc"], wanted["svc"])
      BY <3>0, <2>a, <1>a DEF AppsAreSane
    <3>3. IsSane(up'.main, wanted["main"]) /\ IsSane(up'.svc, wanted["svc"])
      BY <2>a, <1>a DEF AppsAreSane, IsSane
    <3>4. IsSane(down.main, wanted["main"]) /\ IsSane(down.svc, wanted["svc"])
      BY <1>a DEF AppsAreSane
    <3> QED
      BY <3>0, <3>1, <3>2, <3>3, <3>4, <2>a DEF AppsAreSane
  <2>4. CommandsHold'
    BY <2>a, <1>h, <1>y DEF IsTranslated, CommandsHold, CommandTypes
  <2>5. KindsHold'
    BY <2>a, <1>k, <1>h, <1>y DEF IsTranslated, IsOff, KindsHold, CommandsHold, CommandTypes
  <2>6. DownSoFar'
    BY <2>a, <1>d, <1>h, <1>k, <1>t, <1>y DEF IsOff, DownSoFar, Restored, Apps,
       CommandsHold, KindsHold, ClusterTypes, CommandTypes
  <2>7. ClonesAreFirst'
    BY <2>a, <1>f, <1>h, <1>d, <1>t, <1>y DEF IsTranslated, IsOff, Restored, ClonesAreFirst,
       Apps, CommandsHold, DownSoFar, ClusterTypes, CommandTypes
  <2>8. ClonesAreFound'
    BY <2>a, <1>o, <1>h, <1>f, <1>k, <1>d, <1>t, <1>y DEF IsTranslated, IsOff,
       ClonesAreFound, Apps, Autocreate, CommandsHold, ClonesAreFirst, KindsHold, DownSoFar,
       Restored, ClusterTypes, CommandTypes
  <2>9. UpSoFar'
    <3>1. (up.main.there => app'["main"].dev /\ app'["main"].replicas = 0)
          /\ (~up.main.there => ~app'["main"].there)
      BY <2>a, <1>h, <1>k DEF IsTranslated, CommandsHold, KindsHold
    <3>2. Switched("main")'
      BY <3>1 DEF Switched
    <3> QED
      BY <2>a, <3>2, <1>u, <1>y DEF UpSoFar, CommandTypes, UpType, UpPlaces
  <2> QED
    BY <2>1, <2>2, <2>3, <2>4, <2>5, <2>6, <2>7, <2>8, <2>9 DEF DevIInv
<1>8. CASE DeployClone("svc", "svcClone", "svcApp")
  <2>a. /\ up.pc = "svcClone" /\ up' \in UpType /\ up'.later = up.later
        /\ up'.pc = "svcApp" /\ up'.main = up.main /\ up'.svc = up.svc
        /\ (~overlap' => ~overlap /\ down.pc = "idle") /\ overlap' \in BOOLEAN
        /\ UNCHANGED <<kind, wanted, down, count>>
        /\ clone' \in [Apps -> [there : BOOLEAN, replicas : 0..3]]
        /\ clone'["svc"].there /\ clone'["main"] = clone["main"]
        /\ UNCHANGED <<app, secret, service, volume>>
    <3>0. UpStep("svcClone", "svcApp")
      BY <1>8 DEF DeployClone
    <3>1. up.pc = "svcClone" /\ up' \in UpType /\ up'.later = up.later
      BY <1>t, <1>y, <3>0, UpStepIs DEF UpPlaces
    <3>2. up'.pc = "svcApp" /\ up'.main = up.main /\ up'.svc = up.svc
      BY <1>t, <1>y, <3>0, UpStepIs DEF UpPlaces
    <3>3. (~overlap' => ~overlap /\ down.pc = "idle") /\ overlap' \in BOOLEAN
      BY <1>t, <1>y, <3>0, UpStepIs DEF UpPlaces
    <3>4. UNCHANGED <<kind, wanted, down, count>>
      BY <1>8, <3>0 DEF DeployClone, UpStep
    <3>5. clone' \in [Apps -> [there : BOOLEAN, replicas : 0..3]]
      BY <1>t, <1>y, <1>a, <1>h, CloneIs, <1>8, <3>0 DEF DeployClone, ClusterTypes,
         CommandTypes, CommandsHold, AppsAreSane, UpType, Apps, UpStep
    <3>6. clone'["svc"].there /\ clone'["main"] = clone["main"]
      BY <1>t, <1>y, <1>a, <1>h, CloneIs, <1>8, <3>0 DEF DeployClone, ClusterTypes,
         CommandTypes, CommandsHold, AppsAreSane, UpType, Apps, UpStep
    <3>7. UNCHANGED <<app, secret, service, volume>>
      BY <1>8, <3>0 DEF DeployClone, UpStep
    <3> QED
      BY <3>1, <3>2, <3>3, <3>4, <3>5, <3>6, <3>7
  <2>1. ClusterTypes'
    BY <2>a, <1>t, <1>y DEF ClusterTypes, CommandTypes
  <2>2. CommandTypes'
    BY <2>a, <1>y DEF CommandTypes
  <2>3. AppsAreSane'
    BY <2>a, <1>a, <1>t, <1>y, <1>h, <2>1 DEF IsSane, IsOff, IsTranslated, AppsAreSane,
       Apps, ClusterTypes, CommandTypes, CommandsHold
  <2>4. CommandsHold'
    BY <2>a, <1>h, <1>y DEF IsTranslated, CommandsHold, CommandTypes
  <2>5. KindsHold'
    BY <2>a, <1>k, <1>h, <1>y DEF IsTranslated, IsOff, KindsHold, CommandsHold, CommandTypes
  <2>6. DownSoFar'
    BY <2>a, <1>d, <1>h, <1>k, <1>t, <1>y DEF IsOff, DownSoFar, Restored, Apps,
       CommandsHold, KindsHold, ClusterTypes, CommandTypes
  <2>7. ClonesAreFirst'
    BY <2>a, <1>f, <1>h, <1>d, <1>t, <1>y DEF IsTranslated, IsOff, Restored, ClonesAreFirst,
       Apps, CommandsHold, DownSoFar, ClusterTypes, CommandTypes
  <2>8. ClonesAreFound'
    BY <2>a, <1>o, <1>h, <1>f, <1>k, <1>d, <1>t, <1>y DEF IsTranslated, IsOff,
       ClonesAreFound, Apps, Autocreate, CommandsHold, ClonesAreFirst, KindsHold, DownSoFar,
       Restored, ClusterTypes, CommandTypes
  <2>9. UpSoFar'
    BY <2>a, <1>u, <1>h, <1>t, <1>y, <1>f DEF IsTranslated, UpSoFar, Switched, Apps,
       CommandsHold, ClusterTypes, CommandTypes, ClonesAreFirst
  <2> QED
    BY <2>1, <2>2, <2>3, <2>4, <2>5, <2>6, <2>7, <2>8, <2>9 DEF DevIInv
<1>9. CASE DeployApp("svc", "svcApp", "service")
  <2>a. /\ up.pc = "svcApp" /\ up' \in UpType /\ up'.later = up.later
        /\ up'.pc = "service" /\ up'.main = up.main /\ up'.svc = up.svc
        /\ (~overlap' => ~overlap /\ down.pc = "idle") /\ overlap' \in BOOLEAN
        /\ UNCHANGED <<kind, wanted, down, count>>
        /\ app' \in [Apps -> AppType] /\ app'["main"] = app["main"]
        /\ IsTranslated(app'["svc"], wanted["svc"])
        /\ UNCHANGED <<clone, secret, service, volume>>
    <3>0. UpStep("svcApp", "service")
      BY <1>9 DEF DeployApp
    <3>1. up.pc = "svcApp" /\ up' \in UpType /\ up'.later = up.later
      BY <1>t, <1>y, <3>0, UpStepIs DEF UpPlaces
    <3>2. up'.pc = "service" /\ up'.main = up.main /\ up'.svc = up.svc
      BY <1>t, <1>y, <3>0, UpStepIs DEF UpPlaces
    <3>3. (~overlap' => ~overlap /\ down.pc = "idle") /\ overlap' \in BOOLEAN
      BY <1>t, <1>y, <3>0, UpStepIs DEF UpPlaces
    <3>4. UNCHANGED <<kind, wanted, down, count>>
      BY <1>9, <3>0 DEF DeployApp, UpStep
    <3>5. app' \in [Apps -> AppType] /\ app'["main"] = app["main"]
      BY <1>t, <1>y, <1>a, <1>h, TranslationIs, <1>9, <3>0 DEF DeployApp, Deploy,
         ClusterTypes, CommandTypes, CommandsHold, AppsAreSane, UpType, Apps, UpStep
    <3>6. IsTranslated(app'["svc"], wanted["svc"])
      BY <1>t, <1>y, <1>a, <1>h, TranslationIs, <1>9, <3>0 DEF DeployApp, Deploy,
         ClusterTypes, CommandTypes, CommandsHold, AppsAreSane, UpType, Apps, UpStep
    <3>7. UNCHANGED <<clone, secret, service, volume>>
      BY <1>9, <3>0 DEF DeployApp, UpStep
    <3> QED
      BY <3>1, <3>2, <3>3, <3>4, <3>5, <3>6, <3>7
  <2>1. ClusterTypes'
    BY <2>a, <1>t, <1>y DEF ClusterTypes, CommandTypes
  <2>2. CommandTypes'
    BY <2>a, <1>y DEF CommandTypes
  <2>3. AppsAreSane'
    <3>0. /\ wanted' = wanted /\ wanted["main"] \in {2, 3} /\ wanted["svc"] \in {2, 3}
          /\ app' \in [Apps -> AppType] /\ Apps = {"main", "svc"}
      BY <2>a, <1>t DEF ClusterTypes, Apps
    <3>1. IsSane(app'["svc"], wanted["svc"])
      BY <3>0, <2>a, StaySane
    <3>2. IsSane(app'["main"], wanted["main"])
      BY <3>0, <2>a, <1>a DEF AppsAreSane
    <3>3. IsSane(up'.main, wanted["main"]) /\ IsSane(up'.svc, wanted["svc"])
      BY <2>a, <1>a DEF AppsAreSane, IsSane
    <3>4. IsSane(down.main, wanted["main"]) /\ IsSane(down.svc, wanted["svc"])
      BY <1>a DEF AppsAreSane
    <3> QED
      BY <3>0, <3>1, <3>2, <3>3, <3>4, <2>a DEF AppsAreSane
  <2>4. CommandsHold'
    BY <2>a, <1>h, <1>y DEF IsTranslated, CommandsHold, CommandTypes
  <2>5. KindsHold'
    BY <2>a, <1>k, <1>h, <1>y DEF IsTranslated, IsOff, KindsHold, CommandsHold, CommandTypes
  <2>6. DownSoFar'
    BY <2>a, <1>d, <1>h, <1>k, <1>t, <1>y DEF IsOff, DownSoFar, Restored, Apps,
       CommandsHold, KindsHold, ClusterTypes, CommandTypes
  <2>7. ClonesAreFirst'
    BY <2>a, <1>f, <1>h, <1>d, <1>t, <1>y DEF IsTranslated, IsOff, Restored, ClonesAreFirst,
       Apps, CommandsHold, DownSoFar, ClusterTypes, CommandTypes
  <2>8. ClonesAreFound'
    BY <2>a, <1>o, <1>h, <1>f, <1>k, <1>d, <1>t, <1>y DEF IsTranslated, IsOff,
       ClonesAreFound, Apps, Autocreate, CommandsHold, ClonesAreFirst, KindsHold, DownSoFar,
       Restored, ClusterTypes, CommandTypes
  <2>9. UpSoFar'
    BY <2>a, <1>u, <1>h, <1>t, <1>y, <1>f DEF IsTranslated, UpSoFar, Switched, Apps,
       CommandsHold, ClusterTypes, CommandTypes, ClonesAreFirst
  <2> QED
    BY <2>1, <2>2, <2>3, <2>4, <2>5, <2>6, <2>7, <2>8, <2>9 DEF DevIInv
<1>10. CASE CreateService
  <2>a. /\ up.pc = "service" /\ up' \in UpType /\ up'.later = up.later
        /\ up'.pc = "pod" /\ up'.main = up.main /\ up'.svc = up.svc
        /\ (~overlap' => ~overlap /\ down.pc = "idle") /\ overlap' \in BOOLEAN
        /\ UNCHANGED <<kind, wanted, down, count>>
        /\ service' \in BOOLEAN /\ (service' => service \/ up.main.auto)
        /\ UNCHANGED <<app, clone, secret, volume>>
    <3>0. UpStep("service", "pod")
      BY <1>10 DEF CreateService
    <3>1. up.pc = "service" /\ up' \in UpType /\ up'.later = up.later
      BY <1>t, <1>y, <3>0, UpStepIs DEF UpPlaces
    <3>2. up'.pc = "pod" /\ up'.main = up.main /\ up'.svc = up.svc
      BY <1>t, <1>y, <3>0, UpStepIs DEF UpPlaces
    <3>3. (~overlap' => ~overlap /\ down.pc = "idle") /\ overlap' \in BOOLEAN
      BY <1>t, <1>y, <3>0, UpStepIs DEF UpPlaces
    <3>4. UNCHANGED <<kind, wanted, down, count>>
      BY <1>10, <3>0 DEF CreateService, UpStep
    <3>5. service' \in BOOLEAN /\ (service' => service \/ up.main.auto)
      BY <1>t, <1>y, <1>10, <3>0 DEF CreateService, ClusterTypes, CommandTypes, UpType,
         AppType, UpStep
    <3>6. UNCHANGED <<app, clone, secret, volume>>
      BY <1>10, <3>0 DEF CreateService, UpStep
    <3> QED
      BY <3>1, <3>2, <3>3, <3>4, <3>5, <3>6
  <2>1. ClusterTypes'
    BY <2>a, <1>t, <1>y DEF ClusterTypes, CommandTypes
  <2>2. CommandTypes'
    BY <2>a, <1>y DEF CommandTypes
  <2>3. AppsAreSane'
    BY <2>a, <1>a, <1>t, <1>y, <1>h, <2>1 DEF IsSane, IsOff, IsTranslated, AppsAreSane,
       Apps, ClusterTypes, CommandTypes, CommandsHold
  <2>4. CommandsHold'
    BY <2>a, <1>h, <1>y DEF IsTranslated, CommandsHold, CommandTypes
  <2>5. KindsHold'
    BY <2>a, <1>k, <1>h, <1>y DEF IsTranslated, IsOff, KindsHold, CommandsHold, CommandTypes
  <2>6. DownSoFar'
    BY <2>a, <1>d, <1>h, <1>k, <1>t, <1>y DEF IsOff, DownSoFar, Restored, Apps,
       CommandsHold, KindsHold, ClusterTypes, CommandTypes
  <2>7. ClonesAreFirst'
    BY <2>a, <1>f, <1>h, <1>d, <1>t, <1>y DEF IsTranslated, IsOff, Restored, ClonesAreFirst,
       Apps, CommandsHold, DownSoFar, ClusterTypes, CommandTypes
  <2>8. ClonesAreFound'
    BY <2>a, <1>o, <1>h, <1>f, <1>k, <1>d, <1>t, <1>y DEF IsTranslated, IsOff,
       ClonesAreFound, Apps, Autocreate, CommandsHold, ClonesAreFirst, KindsHold, DownSoFar,
       Restored, ClusterTypes, CommandTypes
  <2>9. UpSoFar'
    BY <2>a, <1>u, <1>h, <1>t, <1>y, <1>f DEF IsTranslated, UpSoFar, Switched, Apps,
       CommandsHold, ClusterTypes, CommandTypes, ClonesAreFirst
  <2> QED
    BY <2>1, <2>2, <2>3, <2>4, <2>5, <2>6, <2>7, <2>8, <2>9 DEF DevIInv
<1>11. CASE GetRunningPod
  <2>a. /\ up.pc = "pod" /\ up' \in UpType /\ up'.later = up.later
        /\ up'.pc = (IF up.later THEN "laterClone" ELSE "running") /\ (IF up'.pc = "running" THEN ~up'.main.there /\ ~up'.main.auto /\ ~up'.svc.there ELSE up'.main = up.main /\ up'.svc = up.svc)
        /\ (~overlap' => ~overlap /\ down.pc = "idle") /\ overlap' \in BOOLEAN
        /\ UNCHANGED <<kind, wanted, down, count>>
        /\ clone["main"].there /\ volume = "there"
        /\ UNCHANGED <<app, clone, secret, service, volume>>
    <3>0. UpStep("pod", IF up.later THEN "laterClone" ELSE "running")
      BY <1>11 DEF GetRunningPod
    <3>1. up.pc = "pod" /\ up' \in UpType /\ up'.later = up.later
      BY <1>t, <1>y, <3>0, UpStepIs DEF UpPlaces
    <3>2. up'.pc = (IF up.later THEN "laterClone" ELSE "running") /\ (IF up'.pc = "running" THEN ~up'.main.there /\ ~up'.main.auto /\ ~up'.svc.there ELSE up'.main = up.main /\ up'.svc = up.svc)
      BY <1>t, <1>y, <3>0, UpStepIs DEF UpPlaces
    <3>3. (~overlap' => ~overlap /\ down.pc = "idle") /\ overlap' \in BOOLEAN
      BY <1>t, <1>y, <3>0, UpStepIs DEF UpPlaces
    <3>4. UNCHANGED <<kind, wanted, down, count>>
      BY <1>11, <3>0 DEF GetRunningPod, cluster, UpStep
    <3>5. clone["main"].there /\ volume = "there"
      BY <1>t, <1>y, <1>11, <3>0 DEF GetRunningPod, cluster, UpStep
    <3>6. UNCHANGED <<app, clone, secret, service, volume>>
      BY <1>11, <3>0 DEF GetRunningPod, cluster, UpStep
    <3> QED
      BY <3>1, <3>2, <3>3, <3>4, <3>5, <3>6
  <2>1. ClusterTypes'
    BY <2>a, <1>t, <1>y DEF ClusterTypes, CommandTypes
  <2>2. CommandTypes'
    BY <2>a, <1>y DEF CommandTypes
  <2>3. AppsAreSane'
    BY <2>a, <1>a, <1>t, <1>y, <1>h, <2>1 DEF IsSane, IsOff, IsTranslated, AppsAreSane,
       Apps, ClusterTypes, CommandTypes, CommandsHold
  <2>4. CommandsHold'
    BY <2>a, <1>h, <1>y DEF IsTranslated, CommandsHold, CommandTypes
  <2>5. KindsHold'
    BY <2>a, <1>k, <1>h, <1>y DEF IsTranslated, IsOff, KindsHold, CommandsHold, CommandTypes
  <2>6. DownSoFar'
    BY <2>a, <1>d, <1>h, <1>k, <1>t, <1>y DEF IsOff, DownSoFar, Restored, Apps,
       CommandsHold, KindsHold, ClusterTypes, CommandTypes
  <2>7. ClonesAreFirst'
    BY <2>a, <1>f, <1>h, <1>d, <1>t, <1>y DEF IsTranslated, IsOff, Restored, ClonesAreFirst,
       Apps, CommandsHold, DownSoFar, ClusterTypes, CommandTypes
  <2>8. ClonesAreFound'
    BY <2>a, <1>o, <1>h, <1>f, <1>k, <1>d, <1>t, <1>y DEF IsTranslated, IsOff,
       ClonesAreFound, Apps, Autocreate, CommandsHold, ClonesAreFirst, KindsHold, DownSoFar,
       Restored, ClusterTypes, CommandTypes
  <2>9. UpSoFar'
    BY <2>a, <1>u, <1>h, <1>t, <1>y, <1>f DEF IsTranslated, UpSoFar, Switched, Apps,
       CommandsHold, ClusterTypes, CommandTypes, ClonesAreFirst
  <2> QED
    BY <2>1, <2>2, <2>3, <2>4, <2>5, <2>6, <2>7, <2>8, <2>9 DEF DevIInv
<1>12. CASE DeployClone("svc", "laterClone", "laterApp")
  <2>a. /\ up.pc = "laterClone" /\ up' \in UpType /\ up'.later = up.later
        /\ up'.pc = "laterApp" /\ up'.main = up.main /\ up'.svc = up.svc
        /\ (~overlap' => ~overlap /\ down.pc = "idle") /\ overlap' \in BOOLEAN
        /\ UNCHANGED <<kind, wanted, down, count>>
        /\ clone' \in [Apps -> [there : BOOLEAN, replicas : 0..3]]
        /\ clone'["svc"].there /\ clone'["main"] = clone["main"]
        /\ UNCHANGED <<app, secret, service, volume>>
    <3>0. UpStep("laterClone", "laterApp")
      BY <1>12 DEF DeployClone
    <3>1. up.pc = "laterClone" /\ up' \in UpType /\ up'.later = up.later
      BY <1>t, <1>y, <3>0, UpStepIs DEF UpPlaces
    <3>2. up'.pc = "laterApp" /\ up'.main = up.main /\ up'.svc = up.svc
      BY <1>t, <1>y, <3>0, UpStepIs DEF UpPlaces
    <3>3. (~overlap' => ~overlap /\ down.pc = "idle") /\ overlap' \in BOOLEAN
      BY <1>t, <1>y, <3>0, UpStepIs DEF UpPlaces
    <3>4. UNCHANGED <<kind, wanted, down, count>>
      BY <1>12, <3>0 DEF DeployClone, UpStep
    <3>5. clone' \in [Apps -> [there : BOOLEAN, replicas : 0..3]]
      BY <1>t, <1>y, <1>a, <1>h, CloneIs, <1>12, <3>0 DEF DeployClone, ClusterTypes,
         CommandTypes, CommandsHold, AppsAreSane, UpType, Apps, UpStep
    <3>6. clone'["svc"].there /\ clone'["main"] = clone["main"]
      BY <1>t, <1>y, <1>a, <1>h, CloneIs, <1>12, <3>0 DEF DeployClone, ClusterTypes,
         CommandTypes, CommandsHold, AppsAreSane, UpType, Apps, UpStep
    <3>7. UNCHANGED <<app, secret, service, volume>>
      BY <1>12, <3>0 DEF DeployClone, UpStep
    <3> QED
      BY <3>1, <3>2, <3>3, <3>4, <3>5, <3>6, <3>7
  <2>1. ClusterTypes'
    BY <2>a, <1>t, <1>y DEF ClusterTypes, CommandTypes
  <2>2. CommandTypes'
    BY <2>a, <1>y DEF CommandTypes
  <2>3. AppsAreSane'
    BY <2>a, <1>a, <1>t, <1>y, <1>h, <2>1 DEF IsSane, IsOff, IsTranslated, AppsAreSane,
       Apps, ClusterTypes, CommandTypes, CommandsHold
  <2>4. CommandsHold'
    BY <2>a, <1>h, <1>y DEF IsTranslated, CommandsHold, CommandTypes
  <2>5. KindsHold'
    BY <2>a, <1>k, <1>h, <1>y DEF IsTranslated, IsOff, KindsHold, CommandsHold, CommandTypes
  <2>6. DownSoFar'
    BY <2>a, <1>d, <1>h, <1>k, <1>t, <1>y DEF IsOff, DownSoFar, Restored, Apps,
       CommandsHold, KindsHold, ClusterTypes, CommandTypes
  <2>7. ClonesAreFirst'
    BY <2>a, <1>f, <1>h, <1>d, <1>t, <1>y DEF IsTranslated, IsOff, Restored, ClonesAreFirst,
       Apps, CommandsHold, DownSoFar, ClusterTypes, CommandTypes
  <2>8. ClonesAreFound'
    BY <2>a, <1>o, <1>h, <1>f, <1>k, <1>d, <1>t, <1>y DEF IsTranslated, IsOff,
       ClonesAreFound, Apps, Autocreate, CommandsHold, ClonesAreFirst, KindsHold, DownSoFar,
       Restored, ClusterTypes, CommandTypes
  <2>9. UpSoFar'
    BY <2>a, <1>u, <1>h, <1>t, <1>y, <1>f DEF IsTranslated, UpSoFar, Switched, Apps,
       CommandsHold, ClusterTypes, CommandTypes, ClonesAreFirst
  <2> QED
    BY <2>1, <2>2, <2>3, <2>4, <2>5, <2>6, <2>7, <2>8, <2>9 DEF DevIInv
<1>13. CASE DeployApp("svc", "laterApp", "running")
  <2>a. /\ up.pc = "laterApp" /\ up' \in UpType /\ up'.later = up.later
        /\ up'.pc = "running" /\ ~up'.main.there /\ ~up'.main.auto /\ ~up'.svc.there
        /\ (~overlap' => ~overlap /\ down.pc = "idle") /\ overlap' \in BOOLEAN
        /\ UNCHANGED <<kind, wanted, down, count>>
        /\ app' \in [Apps -> AppType] /\ app'["main"] = app["main"]
        /\ IsTranslated(app'["svc"], wanted["svc"])
        /\ UNCHANGED <<clone, secret, service, volume>>
    <3>0. UpStep("laterApp", "running")
      BY <1>13 DEF DeployApp
    <3>1. up.pc = "laterApp" /\ up' \in UpType /\ up'.later = up.later
      BY <1>t, <1>y, <3>0, UpStepIs DEF UpPlaces
    <3>2. up'.pc = "running" /\ ~up'.main.there /\ ~up'.main.auto /\ ~up'.svc.there
      BY <1>t, <1>y, <3>0, UpStepIs DEF UpPlaces
    <3>3. (~overlap' => ~overlap /\ down.pc = "idle") /\ overlap' \in BOOLEAN
      BY <1>t, <1>y, <3>0, UpStepIs DEF UpPlaces
    <3>4. UNCHANGED <<kind, wanted, down, count>>
      BY <1>13, <3>0 DEF DeployApp, UpStep
    <3>5. app' \in [Apps -> AppType] /\ app'["main"] = app["main"]
      BY <1>t, <1>y, <1>a, <1>h, TranslationIs, <1>13, <3>0 DEF DeployApp, Deploy,
         ClusterTypes, CommandTypes, CommandsHold, AppsAreSane, UpType, Apps, UpStep
    <3>6. IsTranslated(app'["svc"], wanted["svc"])
      BY <1>t, <1>y, <1>a, <1>h, TranslationIs, <1>13, <3>0 DEF DeployApp, Deploy,
         ClusterTypes, CommandTypes, CommandsHold, AppsAreSane, UpType, Apps, UpStep
    <3>7. UNCHANGED <<clone, secret, service, volume>>
      BY <1>13, <3>0 DEF DeployApp, UpStep
    <3> QED
      BY <3>1, <3>2, <3>3, <3>4, <3>5, <3>6, <3>7
  <2>1. ClusterTypes'
    BY <2>a, <1>t, <1>y DEF ClusterTypes, CommandTypes
  <2>2. CommandTypes'
    BY <2>a, <1>y DEF CommandTypes
  <2>3. AppsAreSane'
    <3>0. /\ wanted' = wanted /\ wanted["main"] \in {2, 3} /\ wanted["svc"] \in {2, 3}
          /\ app' \in [Apps -> AppType] /\ Apps = {"main", "svc"}
      BY <2>a, <1>t DEF ClusterTypes, Apps
    <3>1. IsSane(app'["svc"], wanted["svc"])
      BY <3>0, <2>a, StaySane
    <3>2. IsSane(app'["main"], wanted["main"])
      BY <3>0, <2>a, <1>a DEF AppsAreSane
    <3>3. IsSane(up'.main, wanted["main"]) /\ IsSane(up'.svc, wanted["svc"])
      BY <2>a, <1>a DEF AppsAreSane, IsSane
    <3>4. IsSane(down.main, wanted["main"]) /\ IsSane(down.svc, wanted["svc"])
      BY <1>a DEF AppsAreSane
    <3> QED
      BY <3>0, <3>1, <3>2, <3>3, <3>4, <2>a DEF AppsAreSane
  <2>4. CommandsHold'
    BY <2>a, <1>h, <1>y DEF IsTranslated, CommandsHold, CommandTypes
  <2>5. KindsHold'
    BY <2>a, <1>k, <1>h, <1>y DEF IsTranslated, IsOff, KindsHold, CommandsHold, CommandTypes
  <2>6. DownSoFar'
    BY <2>a, <1>d, <1>h, <1>k, <1>t, <1>y DEF IsOff, DownSoFar, Restored, Apps,
       CommandsHold, KindsHold, ClusterTypes, CommandTypes
  <2>7. ClonesAreFirst'
    BY <2>a, <1>f, <1>h, <1>d, <1>t, <1>y DEF IsTranslated, IsOff, Restored, ClonesAreFirst,
       Apps, CommandsHold, DownSoFar, ClusterTypes, CommandTypes
  <2>8. ClonesAreFound'
    BY <2>a, <1>o, <1>h, <1>f, <1>k, <1>d, <1>t, <1>y DEF IsTranslated, IsOff,
       ClonesAreFound, Apps, Autocreate, CommandsHold, ClonesAreFirst, KindsHold, DownSoFar,
       Restored, ClusterTypes, CommandTypes
  <2>9. UpSoFar'
    BY <2>a, <1>u, <1>h, <1>t, <1>y, <1>f DEF IsTranslated, UpSoFar, Switched, Apps,
       CommandsHold, ClusterTypes, CommandTypes, ClonesAreFirst
  <2> QED
    BY <2>1, <2>2, <2>3, <2>4, <2>5, <2>6, <2>7, <2>8, <2>9 DEF DevIInv
<1>14. CASE Reconnect
  <2>a. /\ up.pc = "running" /\ up' \in UpType /\ up'.pc = "app" /\ ~up'.main.there /\ ~up'.main.auto /\ ~up'.svc.there
        /\ count' \in CountType /\ count'.cuts = count.cuts /\ count'.changes = count.changes
        /\ UNCHANGED <<kind, app, clone, secret, service, volume, wanted, down, overlap>>
    <3>1. up.pc = "running" /\ up' \in UpType /\ up'.pc = "app" /\ ~up'.main.there /\ ~up'.main.auto /\ ~up'.svc.there
      BY <1>t, <1>y, Places, <1>14 DEF Reconnect, CommandTypes, cluster, UpType, CountType,
         UpPlaces
    <3>2. count' \in CountType /\ count'.cuts = count.cuts /\ count'.changes = count.changes
      BY <1>y, <1>14 DEF Reconnect, CommandTypes, CountType
    <3>3. UNCHANGED <<kind, app, clone, secret, service, volume, wanted, down, overlap>>
      BY <1>14 DEF Reconnect, cluster
    <3> QED
      BY <3>1, <3>2, <3>3
  <2>1. ClusterTypes'
    BY <2>a, <1>t, <1>y DEF ClusterTypes, CommandTypes
  <2>2. CommandTypes'
    BY <2>a, <1>y DEF CommandTypes
  <2>3. AppsAreSane'
    BY <2>a, <1>a, <1>t, <1>y, <1>h, <2>1 DEF IsSane, IsOff, IsTranslated, AppsAreSane,
       Apps, ClusterTypes, CommandTypes, CommandsHold
  <2>4. CommandsHold'
    BY <2>a, <1>h, <1>y DEF IsTranslated, CommandsHold, CommandTypes
  <2>5. KindsHold'
    BY <2>a, <1>k, <1>h, <1>y DEF IsTranslated, IsOff, KindsHold, CommandsHold, CommandTypes
  <2>6. DownSoFar'
    BY <2>a, <1>d, <1>h, <1>k, <1>t, <1>y DEF IsOff, DownSoFar, Restored, Apps,
       CommandsHold, KindsHold, ClusterTypes, CommandTypes
  <2>7. ClonesAreFirst'
    BY <2>a, <1>f, <1>h, <1>d, <1>t, <1>y DEF IsTranslated, IsOff, Restored, ClonesAreFirst,
       Apps, CommandsHold, DownSoFar, ClusterTypes, CommandTypes
  <2>8. ClonesAreFound'
    BY <2>a, <1>o, <1>h, <1>f, <1>k, <1>d, <1>t, <1>y DEF IsTranslated, IsOff,
       ClonesAreFound, Apps, Autocreate, CommandsHold, ClonesAreFirst, KindsHold, DownSoFar,
       Restored, ClusterTypes, CommandTypes
  <2>9. UpSoFar'
    BY <2>a, <1>u, <1>h, <1>t, <1>y, <1>f DEF IsTranslated, UpSoFar, Switched, Apps,
       CommandsHold, ClusterTypes, CommandTypes, ClonesAreFirst
  <2> QED
    BY <2>1, <2>2, <2>3, <2>4, <2>5, <2>6, <2>7, <2>8, <2>9 DEF DevIInv
<1>15. CASE UpEnds
  <2>a. /\ up.pc \in {"app", "running"} /\ up' \in UpType /\ up'.pc = "idle" /\ ~up'.main.there /\ ~up'.main.auto /\ ~up'.svc.there
        /\ down.pc = "idle" /\ down' \in DownType /\ (down' = down \/ (down'.pc = "read" /\ ~down'.checked /\ ~down'.main.there /\ ~down'.main.auto /\ ~down'.svc.there))
        /\ count' \in CountType /\ count'.cuts = count.cuts /\ count'.changes = count.changes
        /\ UNCHANGED <<kind, app, clone, secret, service, volume, wanted, overlap>>
    <3>1. up.pc \in {"app", "running"} /\ up' \in UpType /\ up'.pc = "idle" /\ ~up'.main.there /\ ~up'.main.auto /\ ~up'.svc.there
      BY <1>t, <1>y, Places, <1>15 DEF UpEnds, CommandTypes, cluster, DownType, CountType
    <3>2. down.pc = "idle" /\ down' \in DownType /\ (down' = down \/ (down'.pc = "read" /\ ~down'.checked /\ ~down'.main.there /\ ~down'.main.auto /\ ~down'.svc.there))
      BY <1>t, <1>y, Places, <1>15 DEF UpEnds, CommandTypes, cluster, DownType, CountType
    <3>3. count' \in CountType /\ count'.cuts = count.cuts /\ count'.changes = count.changes
      BY <1>y, <1>15 DEF UpEnds, CommandTypes, CountType
    <3>4. UNCHANGED <<kind, app, clone, secret, service, volume, wanted, overlap>>
      BY <1>15 DEF UpEnds, cluster
    <3> QED
      BY <3>1, <3>2, <3>3, <3>4
  <2>1. ClusterTypes'
    BY <2>a, <1>t, <1>y DEF ClusterTypes, CommandTypes
  <2>2. CommandTypes'
    BY <2>a, <1>y DEF CommandTypes
  <2>3. AppsAreSane'
    BY <2>a, <1>a, <1>t, <1>y, <1>h, <2>1 DEF IsSane, IsOff, IsTranslated, AppsAreSane,
       Apps, ClusterTypes, CommandTypes, CommandsHold
  <2>4. CommandsHold'
    BY <2>a, <1>h, <1>y DEF IsTranslated, CommandsHold, CommandTypes
  <2>5. KindsHold'
    BY <2>a, <1>k, <1>h, <1>y DEF IsTranslated, IsOff, KindsHold, CommandsHold, CommandTypes
  <2>6. DownSoFar'
    BY <2>a, <1>d, <1>h, <1>k, <1>t, <1>y DEF IsOff, DownSoFar, Restored, Apps,
       CommandsHold, KindsHold, ClusterTypes, CommandTypes
  <2>7. ClonesAreFirst'
    BY <2>a, <1>f, <1>h, <1>d, <1>t, <1>y DEF IsTranslated, IsOff, Restored, ClonesAreFirst,
       Apps, CommandsHold, DownSoFar, ClusterTypes, CommandTypes
  <2>8. ClonesAreFound'
    BY <2>a, <1>o, <1>h, <1>f, <1>k, <1>d, <1>t, <1>y DEF IsTranslated, IsOff,
       ClonesAreFound, Apps, Autocreate, CommandsHold, ClonesAreFirst, KindsHold, DownSoFar,
       Restored, ClusterTypes, CommandTypes
  <2>9. UpSoFar'
    BY <2>a, <1>u, <1>h, <1>t, <1>y, <1>f DEF IsTranslated, UpSoFar, Switched, Apps,
       CommandsHold, ClusterTypes, CommandTypes, ClonesAreFirst
  <2> QED
    BY <2>1, <2>2, <2>3, <2>4, <2>5, <2>6, <2>7, <2>8, <2>9 DEF DevIInv
<1>16. CASE UpCut
  <2>a. /\ up.pc # "idle" /\ up' \in UpType /\ up'.pc = "idle" /\ ~up'.main.there /\ ~up'.main.auto /\ ~up'.svc.there
        /\ count' \in CountType /\ count'.cuts # 0 /\ count'.changes = count.changes
        /\ UNCHANGED <<kind, app, clone, secret, service, volume, wanted, down, overlap>>
    <3>1. up.pc # "idle" /\ up' \in UpType /\ up'.pc = "idle" /\ ~up'.main.there /\ ~up'.main.auto /\ ~up'.svc.there
      BY <1>t, <1>y, Places, <1>16 DEF UpCut, CommandTypes, cluster, CountType
    <3>2. count' \in CountType /\ count'.cuts # 0 /\ count'.changes = count.changes
      BY <1>y, <1>16 DEF UpCut, CommandTypes, CountType
    <3>3. UNCHANGED <<kind, app, clone, secret, service, volume, wanted, down, overlap>>
      BY <1>16 DEF UpCut, cluster
    <3> QED
      BY <3>1, <3>2, <3>3
  <2>1. ClusterTypes'
    BY <2>a, <1>t, <1>y DEF ClusterTypes, CommandTypes
  <2>2. CommandTypes'
    BY <2>a, <1>y DEF CommandTypes
  <2>3. AppsAreSane'
    BY <2>a, <1>a, <1>t, <1>y, <1>h, <2>1 DEF IsSane, IsOff, IsTranslated, AppsAreSane,
       Apps, ClusterTypes, CommandTypes, CommandsHold
  <2>4. CommandsHold'
    BY <2>a, <1>h, <1>y DEF IsTranslated, CommandsHold, CommandTypes
  <2>5. KindsHold'
    BY <2>a, <1>k, <1>h, <1>y DEF IsTranslated, IsOff, KindsHold, CommandsHold, CommandTypes
  <2>6. DownSoFar'
    BY <2>a, <1>d, <1>h, <1>k, <1>t, <1>y DEF IsOff, DownSoFar, Restored, Apps,
       CommandsHold, KindsHold, ClusterTypes, CommandTypes
  <2>7. ClonesAreFirst'
    BY <2>a, <1>f, <1>h, <1>d, <1>t, <1>y DEF IsTranslated, IsOff, Restored, ClonesAreFirst,
       Apps, CommandsHold, DownSoFar, ClusterTypes, CommandTypes
  <2>8. ClonesAreFound'
    BY <2>a, <1>o, <1>h, <1>f, <1>k, <1>d, <1>t, <1>y DEF IsTranslated, IsOff,
       ClonesAreFound, Apps, Autocreate, CommandsHold, ClonesAreFirst, KindsHold, DownSoFar,
       Restored, ClusterTypes, CommandTypes
  <2>9. UpSoFar'
    BY <2>a, <1>u, <1>h, <1>t, <1>y, <1>f DEF IsTranslated, UpSoFar, Switched, Apps,
       CommandsHold, ClusterTypes, CommandTypes, ClonesAreFirst
  <2> QED
    BY <2>1, <2>2, <2>3, <2>4, <2>5, <2>6, <2>7, <2>8, <2>9 DEF DevIInv
<1>17. CASE DownStart
  <2>a. /\ down.pc = "idle" /\ down' \in DownType
        /\ \/ down' = down
           \/ /\ down'.pc = "read" /\ ~down'.main.there /\ ~down'.main.auto /\ ~down'.svc.there
              /\ kind # "app" => ~app["main"].there
        /\ count' \in CountType /\ count'.cuts = count.cuts /\ count'.changes = count.changes
        /\ (~overlap' => ~overlap /\ up.pc = "idle") /\ overlap' \in BOOLEAN
        /\ UNCHANGED <<kind, app, clone, secret, service, volume, wanted, up>>
    <3>1. down.pc = "idle" /\ down' \in DownType
      <4>1. PICK rm \in BOOLEAN :
              \/ down' = down \/ down' = [IdleDown EXCEPT !.pc = "read", !.checked = TRUE, !.rm = rm]
        BY <1>17 DEF DownStart
      <4>2. down.pc = "idle"
        BY <1>17 DEF DownStart
      <4> QED
        BY <4>1, <4>2, <1>y, Places DEF DownType, CommandTypes
    <3>2. /\ \/ down' = down
             \/ /\ down'.pc = "read" /\ ~down'.main.there /\ ~down'.main.auto /\ ~down'.svc.there
                /\ kind # "app" => ~app["main"].there
      BY <1>t, <1>y, <1>k, Places, <1>17 DEF DownStart, ClusterTypes, CommandTypes,
         KindsHold, GetApp, AppFound, Autocreate, IsDevModeOn, cluster, DownType, CountType,
         Apps
    <3>3. count' \in CountType /\ count'.cuts = count.cuts /\ count'.changes = count.changes
      BY <1>y, <1>17 DEF DownStart, CommandTypes, CountType
    <3>4. (~overlap' => ~overlap /\ up.pc = "idle") /\ overlap' \in BOOLEAN
      BY <1>t, <1>17 DEF DownStart, ClusterTypes
    <3>5. UNCHANGED <<kind, app, clone, secret, service, volume, wanted, up>>
      BY <1>17 DEF DownStart, cluster
    <3> QED
      BY <3>1, <3>2, <3>3, <3>4, <3>5
  <2>1. ClusterTypes'
    BY <2>a, <1>t, <1>y DEF ClusterTypes, CommandTypes
  <2>2. CommandTypes'
    BY <2>a, <1>y DEF CommandTypes
  <2>3. AppsAreSane'
    BY <2>a, <1>a, <1>t, <1>y, <1>h, <2>1 DEF IsSane, IsOff, IsTranslated, AppsAreSane,
       Apps, ClusterTypes, CommandTypes, CommandsHold
  <2>4. CommandsHold'
    BY <2>a, <1>h, <1>y DEF IsTranslated, CommandsHold, CommandTypes
  <2>5. KindsHold'
    BY <2>a, <1>k, <1>h, <1>y DEF IsTranslated, IsOff, KindsHold, CommandsHold, CommandTypes
  <2>6. DownSoFar'
    BY <2>a, <1>d, <1>h, <1>k, <1>t, <1>y DEF IsOff, DownSoFar, Restored, Apps,
       CommandsHold, KindsHold, ClusterTypes, CommandTypes
  <2>7. ClonesAreFirst'
    BY <2>a, <1>f, <1>h, <1>d, <1>t, <1>y DEF IsTranslated, IsOff, Restored, ClonesAreFirst,
       Apps, CommandsHold, DownSoFar, ClusterTypes, CommandTypes
  <2>8. ClonesAreFound'
    BY <2>a, <1>o, <1>h, <1>f, <1>k, <1>d, <1>t, <1>y DEF IsTranslated, IsOff,
       ClonesAreFound, Apps, Autocreate, CommandsHold, ClonesAreFirst, KindsHold, DownSoFar,
       Restored, ClusterTypes, CommandTypes
  <2>9. UpSoFar'
    BY <2>a, <1>u, <1>h, <1>t, <1>y, <1>f DEF IsTranslated, UpSoFar, Switched, Apps,
       CommandsHold, ClusterTypes, CommandTypes, ClonesAreFirst
  <2> QED
    BY <2>1, <2>2, <2>3, <2>4, <2>5, <2>6, <2>7, <2>8, <2>9 DEF DevIInv
<1>18. CASE DownRead
  <2>a. /\ down.pc = "read" /\ down' \in DownType /\ down'.pc = "run" /\ down'.todo = Apps /\ down'.checked = down.checked
        /\ down'.svc = app["svc"] /\ app["svc"].there
        /\ \/ kind = "app" /\ down'.main = app["main"] /\ app["main"].there
           \/ kind # "app" /\ ~down'.main.there /\ down'.main.auto
        /\ (~overlap' => ~overlap /\ up.pc = "idle") /\ overlap' \in BOOLEAN
        /\ UNCHANGED <<kind, app, clone, secret, service, volume, wanted, up, count>>
    <3>1. down.pc = "read" /\ down' \in DownType /\ down'.pc = "run" /\ down'.todo = Apps /\ down'.checked = down.checked
      BY <1>t, <1>y, <1>k, Places, <1>18 DEF DownRead, DownStep, ClusterTypes, CommandTypes,
         KindsHold, GetApp, Autocreate, cluster, DownType, Apps
    <3>2. down'.svc = app["svc"] /\ app["svc"].there
      BY <1>t, <1>y, <1>k, Places, <1>18 DEF DownRead, DownStep, ClusterTypes, CommandTypes,
         KindsHold, GetApp, Autocreate, cluster, DownType, Apps
    <3>3. /\ \/ kind = "app" /\ down'.main = app["main"] /\ app["main"].there
             \/ kind # "app" /\ ~down'.main.there /\ down'.main.auto
      BY <1>t, <1>y, <1>k, Places, <1>18 DEF DownRead, DownStep, ClusterTypes, CommandTypes,
         KindsHold, GetApp, Autocreate, cluster, DownType, Apps
    <3>4. (~overlap' => ~overlap /\ up.pc = "idle") /\ overlap' \in BOOLEAN
      BY <1>t, <1>18 DEF DownRead, ClusterTypes, DownStep
    <3>5. UNCHANGED <<kind, app, clone, secret, service, volume, wanted, up, count>>
      BY <1>18 DEF DownRead, DownStep, cluster
    <3> QED
      BY <3>1, <3>2, <3>3, <3>4, <3>5
  <2>1. ClusterTypes'
    BY <2>a, <1>t, <1>y DEF ClusterTypes, CommandTypes
  <2>2. CommandTypes'
    BY <2>a, <1>y DEF CommandTypes
  <2>3. AppsAreSane'
    BY <2>a, <1>a, <1>t, <1>y, <1>h, <2>1 DEF IsSane, IsOff, IsTranslated, AppsAreSane,
       Apps, ClusterTypes, CommandTypes, CommandsHold
  <2>4. CommandsHold'
    BY <2>a, <1>h, <1>y DEF IsTranslated, CommandsHold, CommandTypes
  <2>5. KindsHold'
    BY <2>a, <1>k, <1>h, <1>y, <1>a DEF IsTranslated, IsOff, KindsHold, CommandsHold,
       CommandTypes, AppsAreSane, IsSane, Apps
  <2>6. DownSoFar'
    BY <2>a, <1>d, <1>h, <1>k, <1>t, <1>y DEF IsOff, DownSoFar, Restored, Apps,
       CommandsHold, KindsHold, ClusterTypes, CommandTypes
  <2>7. ClonesAreFirst'
    BY <2>a, <1>f, <1>h, <1>d, <1>t, <1>y DEF IsTranslated, IsOff, Restored, ClonesAreFirst,
       Apps, CommandsHold, DownSoFar, ClusterTypes, CommandTypes
  <2>8. ClonesAreFound'
    BY <2>a, <1>o, <1>h, <1>f, <1>k, <1>d, <1>t, <1>y DEF IsTranslated, IsOff,
       ClonesAreFound, Apps, Autocreate, CommandsHold, ClonesAreFirst, KindsHold, DownSoFar,
       Restored, ClusterTypes, CommandTypes
  <2>9. UpSoFar'
    BY <2>a, <1>u, <1>h, <1>t, <1>y, <1>f DEF IsTranslated, UpSoFar, Switched, Apps,
       CommandsHold, ClusterTypes, CommandTypes, ClonesAreFirst
  <2> QED
    BY <2>1, <2>2, <2>3, <2>4, <2>5, <2>6, <2>7, <2>8, <2>9 DEF DevIInv
<1>19. ASSUME NEW x \in Apps, DownApp(x) PROVE DevIInv'
  <2>a. /\ down.pc = "run" /\ x \in down.todo /\ down' \in DownType /\ down'.pc = x /\ down'.todo = down.todo
        /\ down'.main = down.main /\ down'.svc = down.svc /\ down'.checked = down.checked
        /\ app' \in [Apps -> AppType] /\ app'["svc"].there /\ service' \in BOOLEAN
        /\ \/ /\ kind # "app" /\ ~app'["main"].there /\ ~app'["main"].dev /\ ~service'
              /\ IF x = "svc" THEN IsOff(app'["svc"], wanted["svc"]) ELSE app'["svc"] = app["svc"]
           \/ /\ kind = "app" /\ app'["main"].there /\ service' = service
              /\ \A y \in Apps : IF y = x THEN IsOff(app'[y], wanted[y]) ELSE app'[y] = app[y]
        /\ (~overlap' => ~overlap /\ up.pc = "idle") /\ overlap' \in BOOLEAN
        /\ UNCHANGED <<kind, clone, secret, volume, wanted, up, count>>
    <3>1. /\ down.pc = "run" /\ x \in down.todo /\ down' = [down EXCEPT !.pc = x]
          /\ UNCHANGED <<kind, clone, secret, volume, wanted, up, count>>
      BY <1>19 DEF DownApp, DownStep
    <3>2. (~overlap' => ~overlap /\ up.pc = "idle") /\ overlap' \in BOOLEAN
      BY <1>19, <1>t DEF DownApp, DownStep, ClusterTypes
    <3>3. /\ down' \in DownType /\ down'.pc = x /\ down'.todo = down.todo
          /\ down'.main = down.main /\ down'.svc = down.svc /\ down'.checked = down.checked
      BY <3>1, <1>y DEF CommandTypes, DownType, Apps
    <3>4. /\ Apps = {"main", "svc"} /\ wanted["main"] \in {2, 3} /\ wanted["svc"] \in {2, 3}
          /\ app \in [Apps -> AppType] /\ service \in BOOLEAN
      BY <1>t DEF ClusterTypes, Apps
    <3>5. /\ down.svc \in AppType /\ down.svc.there /\ IsSane(down.svc, wanted["svc"])
          /\ down.main \in AppType /\ IsSane(down.main, wanted["main"]) /\ app["svc"].there
      BY <3>1, <1>y, <1>h, <1>a DEF CommandTypes, DownType, CommandsHold, AppsAreSane
    <3>6. DevModeOff(down.svc) \in AppType /\ IsOff(DevModeOff(down.svc), wanted["svc"])
      BY <3>4, <3>5, OffIs
    <3>7. CASE down.main.auto
      <4>1. /\ app' = [y \in Apps |-> CASE y = "main" -> Absent
                 [] y = "svc" -> IF x = "svc" THEN DevModeOff(down.svc) ELSE app["svc"]]
            /\ service' = FALSE
        BY <3>7, <1>19 DEF DownApp
      <4>2. /\ app'["main"] = Absent
            /\ app'["svc"] = IF x = "svc" THEN DevModeOff(down.svc) ELSE app["svc"]
        BY <4>1, <3>4
      <4>3. app' \in [Apps -> AppType]
        BY <4>1, <3>4, <3>6, Places
      <4>4. kind # "app"
        BY <3>7, <1>k DEF KindsHold
      <4>5. app'["svc"].there
        BY <4>2, <3>5, <3>6 DEF IsOff
      <4> QED
        BY <4>1, <4>2, <4>3, <4>4, <4>5, <3>1, <3>2, <3>3, <3>6, Places
    <3>8. CASE ~down.main.auto
      <4>1. Deploy(x, DevModeOff(down[x])) /\ service' = service
        BY <3>8, <1>19 DEF DownApp
      <4>2. kind = "app" /\ down.main.there /\ app["main"].there
        BY <3>8, <3>1, <1>h, <1>k, <1>t DEF CommandsHold, KindsHold, ClusterTypes
      <4>3. DevModeOff(down.main) \in AppType /\ IsOff(DevModeOff(down.main), wanted["main"])
        BY <3>4, <3>5, <4>2, OffIs
      <4>4. PICK a \in AppType : a = DevModeOff(down[x]) /\ IsOff(a, wanted[x])
        BY <3>4, <3>6, <4>3
      <4>5. app' = [app EXCEPT ![x] = [a EXCEPT !.there = TRUE]] /\ a.there
        BY <4>1, <4>4 DEF Deploy, IsOff
      <4>6. [a EXCEPT !.there = TRUE] = a
        BY <4>5 DEF AppType
      <4>7. app' \in [Apps -> AppType] /\ \A y \in Apps : app'[y] = IF y = x THEN a ELSE app[y]
        BY <4>5, <4>6, <3>4
      <4>8. \A y \in Apps : IF y = x THEN IsOff(app'[y], wanted[y]) ELSE app'[y] = app[y]
        BY <4>7, <4>4
      <4>9. app'["svc"].there /\ app'["main"].there
        BY <4>7, <4>5, <4>2, <3>5, <3>4
      <4> QED
        BY <4>1, <4>2, <4>7, <4>8, <4>9, <3>1, <3>2, <3>3, <3>4
    <3> QED
      BY <3>7, <3>8
  <2>1. ClusterTypes'
    BY <2>a, <1>t, <1>y DEF ClusterTypes, CommandTypes
  <2>2. CommandTypes'
    BY <2>a, <1>y DEF CommandTypes
  <2>3. AppsAreSane'
    <3>1. /\ wanted' = wanted /\ wanted \in [Apps -> {2, 3}] /\ app' \in [Apps -> AppType]
          /\ Apps = {"main", "svc"}
      BY <2>a, <1>t DEF ClusterTypes, Apps
    <3>2. ASSUME NEW y \in Apps PROVE IsSane(app'[y], wanted[y])
      <4>1. ~app'[y].there \/ app'[y] = app[y] \/ IsOff(app'[y], wanted[y])
        BY <2>a, <3>1
      <4> QED
        BY <4>1, <3>1, <1>a, StaySane DEF AppsAreSane, IsSane
    <3> QED
      BY <3>1, <3>2, <2>a, <1>a DEF AppsAreSane
  <2>4. CommandsHold'
    <3>1. down.svc.there /\ (down.main.there \/ down.main.auto) /\ x \in {"main", "svc"}
      BY <2>a, <1>h DEF CommandsHold, Apps
    <3>2. down'.pc # "idle" /\ app'["svc"].there /\ up' = up
      BY <2>a, <3>1
    <3> QED
      BY <3>1, <3>2, <2>a, <1>h DEF CommandsHold
  <2>5. KindsHold'
    BY <2>a, <1>k, <1>h, <1>y DEF IsTranslated, IsOff, KindsHold, CommandsHold, CommandTypes
  <2>6. DownSoFar'
    BY <2>a, <1>d, <1>h, <1>k, <1>t, <1>y DEF IsOff, DownSoFar, Restored, Apps,
       CommandsHold, KindsHold, ClusterTypes, CommandTypes
  <2>7. ClonesAreFirst'
    BY <2>a, <1>f, <1>h, <1>d, <1>t, <1>y DEF IsTranslated, IsOff, Restored, ClonesAreFirst,
       Apps, CommandsHold, DownSoFar, ClusterTypes, CommandTypes
  <2>8. ClonesAreFound'
    BY <2>a, <1>o, <1>h, <1>f, <1>k, <1>d, <1>t, <1>y DEF IsTranslated, IsOff,
       ClonesAreFound, Apps, Autocreate, CommandsHold, ClonesAreFirst, KindsHold, DownSoFar,
       Restored, ClusterTypes, CommandTypes
  <2>9. UpSoFar'
    BY <2>a, <1>u, <1>h, <1>t, <1>y, <1>f DEF IsTranslated, UpSoFar, Switched, Apps,
       CommandsHold, ClusterTypes, CommandTypes, ClonesAreFirst
  <2> QED
    BY <2>1, <2>2, <2>3, <2>4, <2>5, <2>6, <2>7, <2>8, <2>9 DEF DevIInv
<1>20. ASSUME NEW x \in Apps, DownClone(x) PROVE DevIInv'
  <2>a. /\ down.pc = x /\ down' \in DownType /\ down'.pc = "run" /\ down'.todo = down.todo \ {x}
        /\ down'.main = down.main /\ down'.svc = down.svc /\ down'.checked = down.checked
        /\ clone' \in [Apps -> [there : BOOLEAN, replicas : 0..3]]
        /\ ~clone'[x].there /\ \A y \in Apps \ {x} : clone'[y] = clone[y]
        /\ (~overlap' => ~overlap /\ up.pc = "idle") /\ overlap' \in BOOLEAN
        /\ UNCHANGED <<kind, app, secret, service, volume, wanted, up, count>>
    <3>1. down.pc = x /\ down' \in DownType /\ down'.pc = "run" /\ down'.todo = down.todo \ {x}
      BY <1>t, <1>y, <1>20 DEF DownClone, DownStep, ClusterTypes, CommandTypes, DownType,
         NoClone
    <3>2. down'.main = down.main /\ down'.svc = down.svc /\ down'.checked = down.checked
      BY <1>t, <1>y, <1>20 DEF DownClone, DownStep, ClusterTypes, CommandTypes, DownType,
         NoClone
    <3>3. clone' \in [Apps -> [there : BOOLEAN, replicas : 0..3]]
      BY <1>t, <1>y, <1>20 DEF DownClone, DownStep, ClusterTypes, CommandTypes, DownType,
         NoClone
    <3>4. ~clone'[x].there /\ \A y \in Apps \ {x} : clone'[y] = clone[y]
      BY <1>t, <1>y, <1>20 DEF DownClone, DownStep, ClusterTypes, CommandTypes, DownType,
         NoClone
    <3>5. (~overlap' => ~overlap /\ up.pc = "idle") /\ overlap' \in BOOLEAN
      BY <1>t, <1>20 DEF DownClone, ClusterTypes, DownStep
    <3>6. UNCHANGED <<kind, app, secret, service, volume, wanted, up, count>>
      BY <1>20 DEF DownClone, DownStep
    <3> QED
      BY <3>1, <3>2, <3>3, <3>4, <3>5, <3>6
  <2>1. ClusterTypes'
    BY <2>a, <1>t, <1>y DEF ClusterTypes, CommandTypes
  <2>2. CommandTypes'
    BY <2>a, <1>y DEF CommandTypes
  <2>3. AppsAreSane'
    BY <2>a, <1>a, <1>t, <1>y, <1>h, <2>1 DEF IsSane, IsOff, IsTranslated, AppsAreSane,
       Apps, ClusterTypes, CommandTypes, CommandsHold
  <2>4. CommandsHold'
    BY <2>a, <1>h, <1>y DEF IsTranslated, CommandsHold, CommandTypes, Apps
  <2>5. KindsHold'
    BY <2>a, <1>k, <1>h, <1>y DEF IsTranslated, IsOff, KindsHold, CommandsHold,
       CommandTypes, Apps
  <2>6. DownSoFar'
    BY <2>a, <1>d, <1>h, <1>k, <1>t, <1>y DEF IsOff, DownSoFar, Restored, Apps,
       CommandsHold, KindsHold, ClusterTypes, CommandTypes
  <2>7. ClonesAreFirst'
    BY <2>a, <1>f, <1>h, <1>d, <1>t, <1>y DEF IsTranslated, IsOff, Restored, ClonesAreFirst,
       Apps, CommandsHold, DownSoFar, ClusterTypes, CommandTypes
  <2>8. ClonesAreFound'
    BY <2>a, <1>o, <1>h, <1>f, <1>k, <1>d, <1>t, <1>y DEF IsTranslated, IsOff,
       ClonesAreFound, Apps, Autocreate, CommandsHold, ClonesAreFirst, KindsHold, DownSoFar,
       Restored, ClusterTypes, CommandTypes
  <2>9. UpSoFar'
    BY <2>a, <1>u, <1>h, <1>t, <1>y, <1>f DEF IsTranslated, UpSoFar, Switched, Apps,
       CommandsHold, ClusterTypes, CommandTypes, ClonesAreFirst
  <2> QED
    BY <2>1, <2>2, <2>3, <2>4, <2>5, <2>6, <2>7, <2>8, <2>9 DEF DevIInv
<1>21. CASE DownSecret
  <2>a. /\ down.pc = "run" /\ down.todo = {} /\ down' \in DownType /\ down'.pc \in {"volume", "done"}
        /\ down'.todo = {} /\ ~down'.checked /\ ~down'.main.there /\ ~down'.main.auto /\ ~down'.svc.there /\ (down'.rm => down'.pc = "volume")
        /\ ~secret' /\ secret' \in BOOLEAN
        /\ (~overlap' => ~overlap /\ up.pc = "idle") /\ overlap' \in BOOLEAN
        /\ UNCHANGED <<kind, app, clone, service, volume, wanted, up, count>>
    <3>1. down.pc = "run" /\ down.todo = {} /\ down' \in DownType /\ down'.pc \in {"volume", "done"}
      BY <1>t, <1>y, Places, <1>21 DEF DownSecret, DownStep, ClusterTypes, CommandTypes,
         DownType, Apps
    <3>2. down'.todo = {} /\ ~down'.checked /\ ~down'.main.there /\ ~down'.main.auto /\ ~down'.svc.there /\ (down'.rm => down'.pc = "volume")
      BY <1>t, <1>y, Places, <1>21 DEF DownSecret, DownStep, ClusterTypes, CommandTypes,
         DownType, Apps
    <3>3. ~secret' /\ secret' \in BOOLEAN
      BY <1>t, <1>y, Places, <1>21 DEF DownSecret, DownStep, ClusterTypes, CommandTypes,
         DownType, Apps
    <3>4. (~overlap' => ~overlap /\ up.pc = "idle") /\ overlap' \in BOOLEAN
      BY <1>t, <1>21 DEF DownSecret, ClusterTypes, DownStep
    <3>5. UNCHANGED <<kind, app, clone, service, volume, wanted, up, count>>
      BY <1>21 DEF DownSecret, DownStep
    <3> QED
      BY <3>1, <3>2, <3>3, <3>4, <3>5
  <2>1. ClusterTypes'
    BY <2>a, <1>t, <1>y DEF ClusterTypes, CommandTypes
  <2>2. CommandTypes'
    BY <2>a, <1>y DEF CommandTypes
  <2>3. AppsAreSane'
    BY <2>a, <1>a, <1>t, <1>y, <1>h, <2>1 DEF IsSane, IsOff, IsTranslated, AppsAreSane,
       Apps, ClusterTypes, CommandTypes, CommandsHold
  <2>4. CommandsHold'
    BY <2>a, <1>h, <1>y DEF IsTranslated, CommandsHold, CommandTypes
  <2>5. KindsHold'
    BY <2>a, <1>k, <1>h, <1>y DEF IsTranslated, IsOff, KindsHold, CommandsHold, CommandTypes
  <2>6. DownSoFar'
    BY <2>a, <1>d, <1>h, <1>k, <1>t, <1>y DEF IsOff, DownSoFar, Restored, Apps,
       CommandsHold, KindsHold, ClusterTypes, CommandTypes
  <2>7. ClonesAreFirst'
    BY <2>a, <1>f, <1>h, <1>d, <1>t, <1>y DEF IsTranslated, IsOff, Restored, ClonesAreFirst,
       Apps, CommandsHold, DownSoFar, ClusterTypes, CommandTypes
  <2>8. ClonesAreFound'
    BY <2>a, <1>o, <1>h, <1>f, <1>k, <1>d, <1>t, <1>y DEF IsTranslated, IsOff,
       ClonesAreFound, Apps, Autocreate, CommandsHold, ClonesAreFirst, KindsHold, DownSoFar,
       Restored, ClusterTypes, CommandTypes
  <2>9. UpSoFar'
    BY <2>a, <1>u, <1>h, <1>t, <1>y, <1>f DEF IsTranslated, UpSoFar, Switched, Apps,
       CommandsHold, ClusterTypes, CommandTypes, ClonesAreFirst
  <2> QED
    BY <2>1, <2>2, <2>3, <2>4, <2>5, <2>6, <2>7, <2>8, <2>9 DEF DevIInv
<1>22. CASE DownVolume
  <2>a. /\ down.pc = "volume" /\ down' \in DownType /\ down'.pc \in {"volume", "done"} /\ down'.todo = down.todo
        /\ down'.main = down.main /\ down'.svc = down.svc /\ down'.checked = down.checked
        /\ (down'.pc = "done" => volume' = "absent") /\ volume' \in {"absent", "terminating"}
        /\ (~overlap' => ~overlap /\ up.pc = "idle") /\ overlap' \in BOOLEAN
        /\ UNCHANGED <<kind, app, clone, secret, service, wanted, up, count>>
    <3>1. down.pc = "volume" /\ down' \in DownType /\ down'.pc \in {"volume", "done"} /\ down'.todo = down.todo
      BY <1>t, <1>y, <1>22 DEF DownVolume, DownStep, ClusterTypes, CommandTypes, DownType
    <3>2. down'.main = down.main /\ down'.svc = down.svc /\ down'.checked = down.checked
      BY <1>t, <1>y, <1>22 DEF DownVolume, DownStep, ClusterTypes, CommandTypes, DownType
    <3>3. (down'.pc = "done" => volume' = "absent") /\ volume' \in {"absent", "terminating"}
      BY <1>t, <1>y, <1>22 DEF DownVolume, DownStep, ClusterTypes, CommandTypes, DownType
    <3>4. (~overlap' => ~overlap /\ up.pc = "idle") /\ overlap' \in BOOLEAN
      BY <1>t, <1>22 DEF DownVolume, ClusterTypes, DownStep
    <3>5. UNCHANGED <<kind, app, clone, secret, service, wanted, up, count>>
      BY <1>22 DEF DownVolume, DownStep
    <3> QED
      BY <3>1, <3>2, <3>3, <3>4, <3>5
  <2>1. ClusterTypes'
    BY <2>a, <1>t, <1>y DEF ClusterTypes, CommandTypes
  <2>2. CommandTypes'
    BY <2>a, <1>y DEF CommandTypes
  <2>3. AppsAreSane'
    BY <2>a, <1>a, <1>t, <1>y, <1>h, <2>1 DEF IsSane, IsOff, IsTranslated, AppsAreSane,
       Apps, ClusterTypes, CommandTypes, CommandsHold
  <2>4. CommandsHold'
    BY <2>a, <1>h, <1>y DEF IsTranslated, CommandsHold, CommandTypes
  <2>5. KindsHold'
    BY <2>a, <1>k, <1>h, <1>y DEF IsTranslated, IsOff, KindsHold, CommandsHold, CommandTypes
  <2>6. DownSoFar'
    BY <2>a, <1>d, <1>h, <1>k, <1>t, <1>y DEF IsOff, DownSoFar, Restored, Apps,
       CommandsHold, KindsHold, ClusterTypes, CommandTypes
  <2>7. ClonesAreFirst'
    BY <2>a, <1>f, <1>h, <1>d, <1>t, <1>y DEF IsTranslated, IsOff, Restored, ClonesAreFirst,
       Apps, CommandsHold, DownSoFar, ClusterTypes, CommandTypes
  <2>8. ClonesAreFound'
    BY <2>a, <1>o, <1>h, <1>f, <1>k, <1>d, <1>t, <1>y DEF IsTranslated, IsOff,
       ClonesAreFound, Apps, Autocreate, CommandsHold, ClonesAreFirst, KindsHold, DownSoFar,
       Restored, ClusterTypes, CommandTypes
  <2>9. UpSoFar'
    BY <2>a, <1>u, <1>h, <1>t, <1>y, <1>f DEF IsTranslated, UpSoFar, Switched, Apps,
       CommandsHold, ClusterTypes, CommandTypes, ClonesAreFirst
  <2> QED
    BY <2>1, <2>2, <2>3, <2>4, <2>5, <2>6, <2>7, <2>8, <2>9 DEF DevIInv
<1>23. CASE DownEnds
  <2>a. /\ down.pc = "done" /\ down' \in DownType /\ down'.pc = "idle" /\ ~down'.checked /\ ~down'.main.there /\ ~down'.main.auto /\ ~down'.svc.there
        /\ (~overlap' => ~overlap /\ up.pc = "idle") /\ overlap' \in BOOLEAN
        /\ UNCHANGED <<kind, app, clone, secret, service, volume, wanted, up, count>>
    <3>1. down.pc = "done" /\ down' \in DownType /\ down'.pc = "idle" /\ ~down'.checked /\ ~down'.main.there /\ ~down'.main.auto /\ ~down'.svc.there
      BY <1>t, <1>y, Places, <1>23 DEF DownEnds, DownStep, cluster, ClusterTypes,
         CommandTypes
    <3>2. (~overlap' => ~overlap /\ up.pc = "idle") /\ overlap' \in BOOLEAN
      BY <1>t, <1>23 DEF DownEnds, ClusterTypes, DownStep
    <3>3. UNCHANGED <<kind, app, clone, secret, service, volume, wanted, up, count>>
      BY <1>23 DEF DownEnds, DownStep, cluster
    <3> QED
      BY <3>1, <3>2, <3>3
  <2>1. ClusterTypes'
    BY <2>a, <1>t, <1>y DEF ClusterTypes, CommandTypes
  <2>2. CommandTypes'
    BY <2>a, <1>y DEF CommandTypes
  <2>3. AppsAreSane'
    BY <2>a, <1>a, <1>t, <1>y, <1>h, <2>1 DEF IsSane, IsOff, IsTranslated, AppsAreSane,
       Apps, ClusterTypes, CommandTypes, CommandsHold
  <2>4. CommandsHold'
    BY <2>a, <1>h, <1>y DEF IsTranslated, CommandsHold, CommandTypes
  <2>5. KindsHold'
    BY <2>a, <1>k, <1>h, <1>y DEF IsTranslated, IsOff, KindsHold, CommandsHold, CommandTypes
  <2>6. DownSoFar'
    BY <2>a, <1>d, <1>h, <1>k, <1>t, <1>y DEF IsOff, DownSoFar, Restored, Apps,
       CommandsHold, KindsHold, ClusterTypes, CommandTypes
  <2>7. ClonesAreFirst'
    BY <2>a, <1>f, <1>h, <1>d, <1>t, <1>y DEF IsTranslated, IsOff, Restored, ClonesAreFirst,
       Apps, CommandsHold, DownSoFar, ClusterTypes, CommandTypes
  <2>8. ClonesAreFound'
    BY <2>a, <1>o, <1>h, <1>f, <1>k, <1>d, <1>t, <1>y DEF IsTranslated, IsOff,
       ClonesAreFound, Apps, Autocreate, CommandsHold, ClonesAreFirst, KindsHold, DownSoFar,
       Restored, ClusterTypes, CommandTypes
  <2>9. UpSoFar'
    BY <2>a, <1>u, <1>h, <1>t, <1>y, <1>f DEF IsTranslated, UpSoFar, Switched, Apps,
       CommandsHold, ClusterTypes, CommandTypes, ClonesAreFirst
  <2> QED
    BY <2>1, <2>2, <2>3, <2>4, <2>5, <2>6, <2>7, <2>8, <2>9 DEF DevIInv
<1>24. CASE DownCut
  <2>a. /\ down.pc # "idle" /\ down' \in DownType /\ down'.pc = "idle" /\ ~down'.checked /\ ~down'.main.there /\ ~down'.main.auto /\ ~down'.svc.there
        /\ count' \in CountType /\ count'.cuts # 0 /\ count'.changes = count.changes
        /\ UNCHANGED <<kind, app, clone, secret, service, volume, wanted, up, overlap>>
    <3>1. down.pc # "idle" /\ down' \in DownType /\ down'.pc = "idle" /\ ~down'.checked /\ ~down'.main.there /\ ~down'.main.auto /\ ~down'.svc.there
      BY <1>t, <1>y, Places, <1>24 DEF DownCut, cluster, CommandTypes, CountType
    <3>2. count' \in CountType /\ count'.cuts # 0 /\ count'.changes = count.changes
      BY <1>y, <1>24 DEF DownCut, CommandTypes, CountType
    <3>3. UNCHANGED <<kind, app, clone, secret, service, volume, wanted, up, overlap>>
      BY <1>24 DEF DownCut, cluster
    <3> QED
      BY <3>1, <3>2, <3>3
  <2>1. ClusterTypes'
    BY <2>a, <1>t, <1>y DEF ClusterTypes, CommandTypes
  <2>2. CommandTypes'
    BY <2>a, <1>y DEF CommandTypes
  <2>3. AppsAreSane'
    BY <2>a, <1>a, <1>t, <1>y, <1>h, <2>1 DEF IsSane, IsOff, IsTranslated, AppsAreSane,
       Apps, ClusterTypes, CommandTypes, CommandsHold
  <2>4. CommandsHold'
    BY <2>a, <1>h, <1>y DEF IsTranslated, CommandsHold, CommandTypes
  <2>5. KindsHold'
    BY <2>a, <1>k, <1>h, <1>y DEF IsTranslated, IsOff, KindsHold, CommandsHold, CommandTypes
  <2>6. DownSoFar'
    BY <2>a, <1>d, <1>h, <1>k, <1>t, <1>y DEF IsOff, DownSoFar, Restored, Apps,
       CommandsHold, KindsHold, ClusterTypes, CommandTypes
  <2>7. ClonesAreFirst'
    BY <2>a, <1>f, <1>h, <1>d, <1>t, <1>y DEF IsTranslated, IsOff, Restored, ClonesAreFirst,
       Apps, CommandsHold, DownSoFar, ClusterTypes, CommandTypes
  <2>8. ClonesAreFound'
    BY <2>a, <1>o, <1>h, <1>f, <1>k, <1>d, <1>t, <1>y DEF IsTranslated, IsOff,
       ClonesAreFound, Apps, Autocreate, CommandsHold, ClonesAreFirst, KindsHold, DownSoFar,
       Restored, ClusterTypes, CommandTypes
  <2>9. UpSoFar'
    BY <2>a, <1>u, <1>h, <1>t, <1>y, <1>f DEF IsTranslated, UpSoFar, Switched, Apps,
       CommandsHold, ClusterTypes, CommandTypes, ClonesAreFirst
  <2> QED
    BY <2>1, <2>2, <2>3, <2>4, <2>5, <2>6, <2>7, <2>8, <2>9 DEF DevIInv
<1>25. CASE VolumeGoes
  <2>a. /\ volume = "terminating" /\ volume' = "absent"
        /\ UNCHANGED <<kind, app, clone, secret, service, wanted, up, down, overlap, count>>
    <3>1. volume = "terminating" /\ volume' = "absent"
      BY <1>25 DEF VolumeGoes
    <3>2. UNCHANGED <<kind, app, clone, secret, service, wanted, up, down, overlap, count>>
      BY <1>25 DEF VolumeGoes
    <3> QED
      BY <3>1, <3>2
  <2>1. ClusterTypes'
    BY <2>a, <1>t, <1>y DEF ClusterTypes, CommandTypes
  <2>2. CommandTypes'
    BY <2>a, <1>y DEF CommandTypes
  <2>3. AppsAreSane'
    BY <2>a, <1>a, <1>t, <1>y, <1>h, <2>1 DEF IsSane, IsOff, IsTranslated, AppsAreSane,
       Apps, ClusterTypes, CommandTypes, CommandsHold
  <2>4. CommandsHold'
    BY <2>a, <1>h, <1>y DEF IsTranslated, CommandsHold, CommandTypes
  <2>5. KindsHold'
    BY <2>a, <1>k, <1>h, <1>y DEF IsTranslated, IsOff, KindsHold, CommandsHold, CommandTypes
  <2>6. DownSoFar'
    BY <2>a, <1>d, <1>h, <1>k, <1>t, <1>y DEF IsOff, DownSoFar, Restored, Apps,
       CommandsHold, KindsHold, ClusterTypes, CommandTypes
  <2>7. ClonesAreFirst'
    BY <2>a, <1>f, <1>h, <1>d, <1>t, <1>y DEF IsTranslated, IsOff, Restored, ClonesAreFirst,
       Apps, CommandsHold, DownSoFar, ClusterTypes, CommandTypes
  <2>8. ClonesAreFound'
    BY <2>a, <1>o, <1>h, <1>f, <1>k, <1>d, <1>t, <1>y DEF IsTranslated, IsOff,
       ClonesAreFound, Apps, Autocreate, CommandsHold, ClonesAreFirst, KindsHold, DownSoFar,
       Restored, ClusterTypes, CommandTypes
  <2>9. UpSoFar'
    BY <2>a, <1>u, <1>h, <1>t, <1>y, <1>f DEF IsTranslated, UpSoFar, Switched, Apps,
       CommandsHold, ClusterTypes, CommandTypes, ClonesAreFirst
  <2> QED
    BY <2>1, <2>2, <2>3, <2>4, <2>5, <2>6, <2>7, <2>8, <2>9 DEF DevIInv
<1>26. ASSUME NEW x \in Apps, Scale(x) PROVE DevIInv'
  <2>a. /\ up.pc = "idle" /\ down.pc = "idle" /\ app[x].there /\ ~app[x].dev /\ app[x].slept = None
        /\ app' \in [Apps -> AppType] /\ wanted' \in [Apps -> {2, 3}]
        /\ \A y \in Apps \ {x} : app'[y] = app[y] /\ wanted'[y] = wanted[y]
        /\ app'[x].replicas = wanted'[x] /\ app'[x].slept = None
        /\ app'[x].there = app[x].there /\ app'[x].auto = app[x].auto /\ app'[x].dev = app[x].dev /\ app'[x].marked = app[x].marked /\ app'[x].kept = app[x].kept
        /\ count' \in CountType /\ count'.cuts = count.cuts /\ count'.changes # 0
        /\ UNCHANGED <<kind, clone, secret, service, volume, up, down, overlap>>
    <3>1. up.pc = "idle" /\ down.pc = "idle" /\ app[x].there /\ ~app[x].dev /\ app[x].slept = None
      BY <1>t, <1>y, <1>26 DEF Scale, Quiet, ClusterTypes, CommandTypes, CountType, AppType
    <3>2. app' \in [Apps -> AppType] /\ wanted' \in [Apps -> {2, 3}]
      BY SMTT(60), <1>t, <1>y, <1>26 DEF Scale, Quiet, ClusterTypes, CommandTypes, CountType, AppType
    <3>3. \A y \in Apps \ {x} : app'[y] = app[y] /\ wanted'[y] = wanted[y]
      BY <1>t, <1>y, <1>26 DEF Scale, Quiet, ClusterTypes, CommandTypes, CountType, AppType
    <3>4. app'[x].replicas = wanted'[x] /\ app'[x].slept = None
      BY <1>t, <1>y, <1>26 DEF Scale, Quiet, ClusterTypes, CommandTypes, CountType, AppType
    <3>5. app'[x].there = app[x].there /\ app'[x].auto = app[x].auto /\ app'[x].dev = app[x].dev /\ app'[x].marked = app[x].marked /\ app'[x].kept = app[x].kept
      BY <1>t, <1>y, <1>26 DEF Scale, Quiet, ClusterTypes, CommandTypes, CountType, AppType
    <3>6. count' \in CountType /\ count'.cuts = count.cuts /\ count'.changes # 0
      BY <1>y, <1>26 DEF Scale, CommandTypes, CountType
    <3>7. UNCHANGED <<kind, clone, secret, service, volume, up, down, overlap>>
      BY <1>26 DEF Scale
    <3> QED
      BY <3>1, <3>2, <3>3, <3>4, <3>5, <3>6, <3>7
  <2>1. ClusterTypes'
    BY <2>a, <1>t, <1>y DEF ClusterTypes, CommandTypes
  <2>2. CommandTypes'
    BY <2>a, <1>y DEF CommandTypes
  <2>3. AppsAreSane'
    BY <2>a, <1>a, <1>t, <1>y, <1>h, <2>1 DEF IsSane, IsOff, IsTranslated, AppsAreSane,
       Apps, ClusterTypes, CommandTypes, CommandsHold
  <2>4. CommandsHold'
    <3>1. Apps = {"main", "svc"} /\ app'["svc"].there
      BY <2>a, <1>h DEF CommandsHold, Apps
    <3> QED
      BY <3>1, <2>a, <1>h DEF CommandsHold
  <2>5. KindsHold'
    <3>1. app'["main"].there = app["main"].there /\ app'["main"].dev = app["main"].dev
      BY <2>a DEF Apps
    <3> QED
      BY <3>1, <2>a, <1>k DEF KindsHold
  <2>6. DownSoFar'
    BY <2>a, <1>d, <1>h, <1>k, <1>t, <1>y DEF IsOff, DownSoFar, Restored, Apps,
       CommandsHold, KindsHold, ClusterTypes, CommandTypes
  <2>7. ClonesAreFirst'
    BY <2>a, <1>f, <1>h, <1>d, <1>t, <1>y DEF IsTranslated, IsOff, Restored, ClonesAreFirst,
       Apps, CommandsHold, DownSoFar, ClusterTypes, CommandTypes
  <2>8. ClonesAreFound'
    BY <2>a, <1>o, <1>h, <1>f, <1>k, <1>d, <1>t, <1>y DEF IsTranslated, IsOff,
       ClonesAreFound, Apps, Autocreate, CommandsHold, ClonesAreFirst, KindsHold, DownSoFar,
       Restored, ClusterTypes, CommandTypes
  <2>9. UpSoFar'
    BY <2>a, <1>u, <1>h, <1>t, <1>y, <1>f DEF IsTranslated, UpSoFar, Switched, Apps,
       CommandsHold, ClusterTypes, CommandTypes, ClonesAreFirst
  <2> QED
    BY <2>1, <2>2, <2>3, <2>4, <2>5, <2>6, <2>7, <2>8, <2>9 DEF DevIInv
<1>27. ASSUME NEW x \in Apps, Redeploy(x) PROVE DevIInv'
  <2>a. /\ app[x].there /\ app[x].dev
        /\ app' \in [Apps -> AppType]
        /\ \A y \in Apps \ {x} : app'[y] = app[y]
        /\ app'[x].slept = app[x].slept
        /\ app'[x].there = app[x].there /\ app'[x].auto = app[x].auto /\ app'[x].dev = app[x].dev /\ app'[x].marked = app[x].marked /\ app'[x].kept = app[x].kept
        /\ count' \in CountType /\ count'.cuts = count.cuts /\ count'.changes # 0
        /\ UNCHANGED <<kind, clone, secret, service, volume, wanted, up, down, overlap>>
    <3>1. app[x].there /\ app[x].dev
      BY <1>t, <1>y, <1>27 DEF Redeploy, ClusterTypes, CommandTypes, CountType, AppType
    <3>2. app' \in [Apps -> AppType]
      BY SMTT(60), <1>t, <1>y, <1>27 DEF Redeploy, ClusterTypes, CommandTypes, CountType, AppType
    <3>3. \A y \in Apps \ {x} : app'[y] = app[y]
      BY <1>t, <1>y, <1>27 DEF Redeploy, ClusterTypes, CommandTypes, CountType, AppType
    <3>4. app'[x].slept = app[x].slept
      BY <1>t, <1>y, <1>27 DEF Redeploy, ClusterTypes, CommandTypes, CountType, AppType
    <3>5. app'[x].there = app[x].there /\ app'[x].auto = app[x].auto /\ app'[x].dev = app[x].dev /\ app'[x].marked = app[x].marked /\ app'[x].kept = app[x].kept
      BY <1>t, <1>y, <1>27 DEF Redeploy, ClusterTypes, CommandTypes, CountType, AppType
    <3>6. count' \in CountType /\ count'.cuts = count.cuts /\ count'.changes # 0
      BY <1>y, <1>27 DEF Redeploy, CommandTypes, CountType
    <3>7. UNCHANGED <<kind, clone, secret, service, volume, wanted, up, down, overlap>>
      BY <1>27 DEF Redeploy
    <3> QED
      BY <3>1, <3>2, <3>3, <3>4, <3>5, <3>6, <3>7
  <2>1. ClusterTypes'
    BY <2>a, <1>t, <1>y DEF ClusterTypes, CommandTypes
  <2>2. CommandTypes'
    BY <2>a, <1>y DEF CommandTypes
  <2>3. AppsAreSane'
    <3>1. /\ wanted \in [Apps -> {2, 3}] /\ wanted' = wanted /\ app[x] \in AppType /\ app'[x] \in AppType
      BY <2>a, <1>t DEF ClusterTypes
    <3>2. IsSane(app[x], wanted[x])
      BY <1>a DEF AppsAreSane
    <3>3. IsSane(app'[x], wanted[x])
      <4>1. /\ app[x].there /\ app[x].dev /\ app[x].marked = app[x].dev
            /\ ~app[x].auto /\ app[x].slept = None
        BY <2>a, <3>2 DEF IsSane
      <4>2. IF app[x].dev THEN app[x].kept = wanted[x] ELSE app[x].kept = None /\ app[x].replicas = wanted[x]
        BY <2>a, <3>2, <4>1 DEF IsSane
      <4>3. wanted[x] # None
        BY <3>1, Numbers
      <4> QED
        BY <2>a, <4>1, <4>2, <4>3, <3>1 DEF IsSane
    <3>4. \A y \in Apps : IsSane(app'[y], wanted[y])
      BY <3>3, <2>a, <1>a DEF AppsAreSane
    <3> QED
      BY <3>1, <3>4, <2>a, <1>a DEF AppsAreSane
  <2>4. CommandsHold'
    <3>1. Apps = {"main", "svc"} /\ app'["svc"].there
      BY <2>a, <1>h DEF CommandsHold, Apps
    <3> QED
      BY <3>1, <2>a, <1>h DEF CommandsHold
  <2>5. KindsHold'
    <3>1. app'["main"].there = app["main"].there /\ app'["main"].dev = app["main"].dev
      BY <2>a DEF Apps
    <3> QED
      BY <3>1, <2>a, <1>k DEF KindsHold
  <2>6. DownSoFar'
    BY <2>a, <1>d, <1>h, <1>k, <1>t, <1>y DEF IsOff, DownSoFar, Restored, Apps,
       CommandsHold, KindsHold, ClusterTypes, CommandTypes
  <2>7. ClonesAreFirst'
    BY <2>a, <1>f, <1>h, <1>d, <1>t, <1>y DEF IsTranslated, IsOff, Restored, ClonesAreFirst,
       Apps, CommandsHold, DownSoFar, ClusterTypes, CommandTypes
  <2>8. ClonesAreFound'
    BY <2>a, <1>o, <1>h, <1>f, <1>k, <1>d, <1>t, <1>y DEF IsTranslated, IsOff,
       ClonesAreFound, Apps, Autocreate, CommandsHold, ClonesAreFirst, KindsHold, DownSoFar,
       Restored, ClusterTypes, CommandTypes
  <2>9. UpSoFar'
    BY <2>a, <1>u, <1>h, <1>t, <1>y, <1>f DEF IsTranslated, UpSoFar, Switched, Apps,
       CommandsHold, ClusterTypes, CommandTypes, ClonesAreFirst
  <2> QED
    BY <2>1, <2>2, <2>3, <2>4, <2>5, <2>6, <2>7, <2>8, <2>9 DEF DevIInv
<1>28. ASSUME NEW x \in Apps, Sleep(x) PROVE DevIInv'
  <2>a. /\ up.pc = "idle" /\ down.pc = "idle" /\ app[x].there /\ ~app[x].dev /\ app[x].slept = None
        /\ app' \in [Apps -> AppType]
        /\ \A y \in Apps \ {x} : app'[y] = app[y]
        /\ app'[x].slept = app[x].replicas
        /\ app'[x].there = app[x].there /\ app'[x].auto = app[x].auto /\ app'[x].dev = app[x].dev /\ app'[x].marked = app[x].marked /\ app'[x].kept = app[x].kept
        /\ count' \in CountType /\ count'.cuts = count.cuts /\ count'.changes # 0
        /\ UNCHANGED <<kind, clone, secret, service, volume, wanted, up, down, overlap>>
    <3>1. up.pc = "idle" /\ down.pc = "idle" /\ app[x].there /\ ~app[x].dev /\ app[x].slept = None
      BY <1>t, <1>y, <1>28 DEF Sleep, Quiet, ClusterTypes, CommandTypes, CountType, AppType
    <3>2. app' \in [Apps -> AppType]
      <4>1. PICK n \in 0..3 : n = app[x].replicas
        BY <1>t DEF ClusterTypes, AppType
      <4>2. app' = [app EXCEPT ![x] = [app[x] EXCEPT !.slept = n, !.replicas = 0]]
        BY <1>28, <4>1, <1>t DEF Sleep, ClusterTypes
      <4>3. n \in None..3 /\ 0 \in 0..3
        BY Numbers
      <4>4. [app[x] EXCEPT !.slept = n, !.replicas = 0] \in AppType
        <5>1. PICK a \in AppType : a = app[x]
          BY <1>t DEF ClusterTypes
        <5>2. [a EXCEPT !.slept = n, !.replicas = 0] \in AppType
          BY <4>3 DEF AppType
        <5> QED
          BY <5>1, <5>2
      <4> QED
        BY <4>2, <4>4, <1>t DEF ClusterTypes
    <3>3. \A y \in Apps \ {x} : app'[y] = app[y]
      BY <1>t, <1>y, <1>28 DEF Sleep, Quiet, ClusterTypes, CommandTypes, CountType, AppType
    <3>4. app'[x].slept = app[x].replicas
      BY <1>t, <1>y, <1>28 DEF Sleep, Quiet, ClusterTypes, CommandTypes, CountType, AppType
    <3>5. app'[x].there = app[x].there /\ app'[x].auto = app[x].auto /\ app'[x].dev = app[x].dev /\ app'[x].marked = app[x].marked /\ app'[x].kept = app[x].kept
      BY ZenonT(60), <1>t, <1>y, <1>28 DEF Sleep, Quiet, ClusterTypes, CommandTypes, CountType, AppType
    <3>6. count' \in CountType /\ count'.cuts = count.cuts /\ count'.changes # 0
      BY <1>y, <1>28 DEF Sleep, CommandTypes, CountType
    <3>7. UNCHANGED <<kind, clone, secret, service, volume, wanted, up, down, overlap>>
      BY <1>28 DEF Sleep
    <3> QED
      BY <3>1, <3>2, <3>3, <3>4, <3>5, <3>6, <3>7
  <2>1. ClusterTypes'
    BY <2>a, <1>t, <1>y DEF ClusterTypes, CommandTypes
  <2>2. CommandTypes'
    BY <2>a, <1>y DEF CommandTypes
  <2>3. AppsAreSane'
    <3>1. /\ wanted \in [Apps -> {2, 3}] /\ wanted' = wanted /\ app[x] \in AppType /\ app'[x] \in AppType
      BY <2>a, <1>t DEF ClusterTypes
    <3>2. IsSane(app[x], wanted[x])
      BY <1>a DEF AppsAreSane
    <3>3. IsSane(app'[x], wanted[x])
      <4>1. /\ app[x].there /\ ~app[x].dev /\ app[x].marked = app[x].dev
            /\ ~app[x].auto /\ app[x].slept = None
        BY <2>a, <3>2 DEF IsSane
      <4>2. IF app[x].dev THEN app[x].kept = wanted[x] ELSE app[x].kept = None /\ app[x].replicas = wanted[x]
        BY <2>a, <3>2, <4>1 DEF IsSane
      <4>3. wanted[x] # None
        BY <3>1, Numbers
      <4> QED
        BY <2>a, <4>1, <4>2, <4>3, <3>1 DEF IsSane
    <3>4. \A y \in Apps : IsSane(app'[y], wanted[y])
      BY <3>3, <2>a, <1>a DEF AppsAreSane
    <3> QED
      BY <3>1, <3>4, <2>a, <1>a DEF AppsAreSane
  <2>4. CommandsHold'
    <3>1. Apps = {"main", "svc"} /\ app'["svc"].there
      BY <2>a, <1>h DEF CommandsHold, Apps
    <3> QED
      BY <3>1, <2>a, <1>h DEF CommandsHold
  <2>5. KindsHold'
    <3>1. app'["main"].there = app["main"].there /\ app'["main"].dev = app["main"].dev
      BY <2>a DEF Apps
    <3> QED
      BY <3>1, <2>a, <1>k DEF KindsHold
  <2>6. DownSoFar'
    BY <2>a, <1>d, <1>h, <1>k, <1>t, <1>y DEF IsOff, DownSoFar, Restored, Apps,
       CommandsHold, KindsHold, ClusterTypes, CommandTypes
  <2>7. ClonesAreFirst'
    BY <2>a, <1>f, <1>h, <1>d, <1>t, <1>y DEF IsTranslated, IsOff, Restored, ClonesAreFirst,
       Apps, CommandsHold, DownSoFar, ClusterTypes, CommandTypes
  <2>8. ClonesAreFound'
    BY <2>a, <1>o, <1>h, <1>f, <1>k, <1>d, <1>t, <1>y DEF IsTranslated, IsOff,
       ClonesAreFound, Apps, Autocreate, CommandsHold, ClonesAreFirst, KindsHold, DownSoFar,
       Restored, ClusterTypes, CommandTypes
  <2>9. UpSoFar'
    BY <2>a, <1>u, <1>h, <1>t, <1>y, <1>f DEF IsTranslated, UpSoFar, Switched, Apps,
       CommandsHold, ClusterTypes, CommandTypes, ClonesAreFirst
  <2> QED
    BY <2>1, <2>2, <2>3, <2>4, <2>5, <2>6, <2>7, <2>8, <2>9 DEF DevIInv
<1>29. CASE UNCHANGED vars
  <2>a. UNCHANGED <<kind, app, clone, secret, service, volume, wanted, up, down, overlap, count>>
    BY <1>29 DEF vars
  <2>1. ClusterTypes'
    BY <2>a, <1>t DEF ClusterTypes
  <2>2. CommandTypes'
    BY <2>a, <1>y DEF CommandTypes
  <2>3. AppsAreSane'
    BY <2>a, <1>a DEF AppsAreSane, Apps
  <2>4. CommandsHold'
    BY <2>a, <1>h DEF CommandsHold
  <2>5. KindsHold'
    BY <2>a, <1>k DEF KindsHold
  <2>6. DownSoFar'
    BY <2>a, <1>d DEF DownSoFar, Restored, Apps
  <2>7. ClonesAreFirst'
    BY <2>a, <1>f DEF ClonesAreFirst, Apps
  <2>8. ClonesAreFound'
    BY <2>a, <1>o DEF ClonesAreFound, Apps, Autocreate
  <2>9. UpSoFar'
    BY <2>a, <1>u DEF UpSoFar, Switched, Apps
  <2> QED
    BY <2>1, <2>2, <2>3, <2>4, <2>5, <2>6, <2>7, <2>8, <2>9 DEF DevIInv
<1> QED
  BY <1>1, <1>2, <1>3, <1>4, <1>5, <1>6, <1>7, <1>8, <1>9, <1>10, <1>11, <1>12, <1>13,
     <1>14, <1>15, <1>16, <1>17, <1>18, <1>19, <1>20, <1>21, <1>22, <1>23, <1>24, <1>25,
     <1>26, <1>27, <1>28, <1>29 DEF Next, Up, Down

\* The invariant holds before the first command.
LEMMA DevStart == Init => DevIInv
<1> SUFFICES ASSUME Init PROVE DevIInv
  OBVIOUS
<1>1. /\ kind \in {"app", "autocreate", "taken"} /\ wanted = [x \in Apps |-> 2]
      /\ app = [x \in Apps |-> IF x = "main" /\ kind = "autocreate" THEN Absent ELSE NewApp(wanted[x])]
      /\ clone = [x \in Apps |-> NoClone] /\ secret = FALSE /\ service = FALSE /\ volume = "absent"
      /\ up = Idle /\ down = IdleDown /\ overlap = FALSE
      /\ count = [ups |-> 0, downs |-> 0, cuts |-> 0, changes |-> 0]
  BY DEF Init
<1>2. /\ NewApp(2) \in AppType /\ NewApp(2).there /\ ~NewApp(2).auto /\ ~NewApp(2).dev /\ ~NewApp(2).marked
      /\ NewApp(2).kept = None /\ NewApp(2).slept = None /\ NewApp(2).replicas = 2
  BY Numbers DEF NewApp, Application, AppType
<1>3. /\ Apps = {"main", "svc"} /\ \A x \in Apps : wanted[x] = 2
      /\ app["svc"] = NewApp(2) /\ app["main"] = IF kind = "autocreate" THEN Absent ELSE NewApp(2)
  BY <1>1 DEF Apps
<1>4. app \in [Apps -> AppType]
  BY <1>1, <1>2, Places
<1>5. ClusterTypes
  <2>1. NoClone \in [there : BOOLEAN, replicas : 0..3]
    BY DEF NoClone
  <2>2. clone \in [Apps -> [there : BOOLEAN, replicas : 0..3]]
    BY <1>1, <2>1
  <2> QED
    BY <1>1, <1>4, <2>2 DEF ClusterTypes
<1>6. CommandTypes
  BY <1>1, Places DEF CommandTypes, CountType
<1>7. AppsAreSane
  <2>1. IsSane(NewApp(2), 2) /\ \A n : IsSane(Absent, n)
    <3>1. NewApp(2).marked = NewApp(2).dev
      BY DEF NewApp, Application
    <3> QED
      BY <1>2, <3>1, Places DEF IsSane
  <2> QED
    BY <1>1, <1>3, <2>1, Places DEF AppsAreSane
<1>8. CommandsHold
  BY <1>1, <1>2, <1>3, Places DEF CommandsHold
<1>9. KindsHold
  BY <1>1, <1>2, <1>3, Places DEF KindsHold
<1>10. DownSoFar
  BY <1>1, Places DEF DownSoFar
<1>11. ClonesAreFirst /\ ClonesAreFound
  <2>1. \A x \in Apps : ~app[x].dev /\ ~clone[x].there
    BY <1>1, <1>2, <1>3, Places DEF NoClone
  <2> QED
    BY <1>1, <2>1, Places DEF ClonesAreFirst, ClonesAreFound
<1>12. UpSoFar
  BY <1>1, Places DEF UpSoFar
<1> QED
  BY <1>5, <1>6, <1>7, <1>8, <1>9, <1>10, <1>11, <1>12 DEF DevIInv

\* The invariant of development mode holds in every behaviour.
THEOREM DevModeInvariance == Spec => []DevIInv
  BY DevStart, DevStep, PTL DEF Spec

\* Operation.Run, devDeployer.deploy: whatever is cut off, repeated or run at the same
\* time, okteto down finds and undoes what okteto up did.
THEOREM DevModeIsAlwaysUndone == Spec => []DevModeIsUndone
<1>1. DevIInv => DevModeIsUndone
  <2> SUFFICES ASSUME DevIInv PROVE DevModeIsUndone
    OBVIOUS
  <2>1. /\ ClusterTypes /\ CommandTypes /\ AppsAreSane /\ CommandsHold /\ KindsHold
        /\ DownSoFar /\ ClonesAreFirst /\ ClonesAreFound /\ UpSoFar
    BY DEF DevIInv
  <2>2. TypeOK
    BY <2>1 DEF TypeOK, ClusterTypes, CommandTypes, UpType, DownType
  <2>3. ReplicasAreRemembered
    BY <2>1 DEF ReplicasAreRemembered, AppsAreSane, IsSane
  <2>4. DownRestores
    BY <2>1 DEF DownRestores, DownSoFar, Restored
  <2>5. ClonesAreSeen
    BY <2>1 DEF ClonesAreSeen, ClonesAreFound, Quiet, Apps
  <2>6. DevModeHasItsClone
    BY <2>1 DEF DevModeHasItsClone, ClonesAreFirst
  <2>7. OneOfTheTwoRuns
    BY <2>1 DEF OneOfTheTwoRuns, UpSoFar, ClonesAreFirst, Switched, Apps
  <2> QED
    BY <2>2, <2>3, <2>4, <2>5, <2>6, <2>7 DEF DevModeIsUndone
<1> QED
  BY <1>1, DevModeInvariance, PTL

\* activate, autoDownRunner.run: no command deletes an application of the user, except
\* an automatic down before the activation found that the name is taken.
THEOREM UserAppsAlwaysStay == Spec => UserAppsStay
<1>1. ASSUME DevIInv, DevIInv', [Next]_vars,
             NEW x \in Apps, app[x].there, ~app'[x].there
      PROVE  x = "main" /\ kind = "taken" /\ ~down.checked
  <2>1. kind' = kind
    BY <1>1 DEF Next, Up, Down, UpStart, UpGetApp, CreateVolume, GetTranslations, CreateSecret,
       DeployClone, DeployApp, CreateService, GetRunningPod, Reconnect, UpEnds, UpCut, UpStep,
       DownStart, DownRead, DownApp, DownClone, DownSecret, DownVolume, DownEnds, DownCut,
       DownStep, VolumeGoes, Scale, Redeploy, Sleep, vars
  <2>2. ClusterTypes /\ KindsHold /\ KindsHold' /\ CommandsHold'
    BY <1>1 DEF DevIInv
  <2>3. x = "main"
    BY <1>1, <2>2 DEF CommandsHold, Apps
  <2>4. kind = "taken"
    BY <1>1, <2>1, <2>2, <2>3 DEF ClusterTypes, KindsHold
  <2> QED
    BY <1>1, <2>2, <2>3, <2>4 DEF KindsHold
<1>2. ASSUME DevIInv, DevIInv', [Next]_vars
      PROVE  [\A x \in Apps : app[x].there /\ ~app'[x].there =>
                x = "main" /\ kind = "taken" /\ ~down.checked]_vars
  <2>1. \A x \in Apps : app[x].there /\ ~app'[x].there => x = "main" /\ kind = "taken" /\ ~down.checked
    BY <1>1, <1>2
  <2> QED
    BY <2>1
<1> QED
  BY <1>2, DevModeInvariance, PTL DEF Spec, UserAppsStay

-----------------------------------------------------------------------------
(* Diverts: the shared virtual service and the nginx objects                 *)

\* The types and the places of the commands, for every step.
LEMMA DivertTypesStep == DivertTypes /\ [DivertNext]_divertVars => DivertTypes'
<1> SUFFICES ASSUME DivertTypes, [DivertNext]_divertVars PROVE DivertTypes'
  OBVIOUS
<1> USE DEF DivertTypes, DivertTypeOK
<1>1. ASSUME NEW e \in Environments, DivertBegin(e) PROVE DivertTypes'
  <2>1. PICK o \in {"deploy", "destroy"} :
          /\ op' = [op EXCEPT ![e] = o]
          /\ \/ UNCHANGED result /\ driver = "istio" /\ at' = [at EXCEPT ![e] = "vsGet"]
             \/ UNCHANGED result /\ driver = "nginx" /\ o = "deploy" /\ at' = [at EXCEPT ![e] = "listIngresses"]
             \/ at' = [at EXCEPT ![e] = "idle"] /\ \E r \in {"ok", "err"} : result' = [result EXCEPT ![e] = r]
    BY <1>1 DEF DivertBegin, Moves, Ends
  <2>2. PlaceTypes'
    <3>1. op' \in [Environments -> {"deploy", "destroy"}]
      BY <2>1 DEF PlaceTypes
    <3>2. at' \in [Environments -> DivertPlaces]
      BY <2>1 DEF PlaceTypes, DivertPlaces
    <3>3. result' \in [Environments -> {"none", "ok", "err", "panic"}]
      BY <2>1 DEF PlaceTypes
    <3> QED BY <3>1, <3>2, <3>3 DEF PlaceTypes
  <2>3. ReadTypes'
    BY <1>1 DEF DivertBegin, ReadTypes, ObjectTypes, VirtualServices
  <2>4. ObjectTypes' /\ ListTypes' /\ CacheTypes'
    BY <1>1 DEF DivertBegin, ObjectTypes, ListTypes, CacheTypes, nginxVars
  <2>5. PlacesFit'
    BY <1>1, <2>1 DEF DivertBegin, PlaceTypes, PlacesFit, IstioPlaces, HostPlaces, NginxPlaces, ListedPlaces
  <2> QED BY <2>2, <2>3, <2>4, <2>5
<1>2. ASSUME NEW e \in Environments, DivertFails(e) PROVE DivertTypes'
  <2>1. PlaceTypes'
    BY <1>2 DEF DivertFails, Ends, PlaceTypes, DivertPlaces
  <2>2. ObjectTypes' /\ ReadTypes' /\ ListTypes' /\ CacheTypes'
    BY <1>2 DEF DivertFails, ObjectTypes, ReadTypes, ListTypes, CacheTypes, nginxVars, istioVars
  <2>3. PlacesFit'
    BY <1>2 DEF DivertFails, Ends, PlaceTypes, PlacesFit, IstioPlaces, HostPlaces, NginxPlaces, ListedPlaces
  <2> QED BY <2>1, <2>2, <2>3
<1>3. ASSUME NEW e \in Environments, IstioStep(e) PROVE DivertTypes'
  <2>0. UNCHANGED <<driver, crds, nginxVars, op, runs, changes, since, ownHost>>
    BY <1>3 DEF IstioStep
  <2>a. ListTypes' /\ CacheTypes'
    BY <2>0 DEF ListTypes, CacheTypes, nginxVars
  <2> DEFINE Moved == \/ /\ UNCHANGED result /\ at[e] \in IstioPlaces
                         /\ \E p \in IstioPlaces : at' = [at EXCEPT ![e] = p] /\ (p \in HostPlaces => op[e] = "deploy")
                      \/ at' = [at EXCEPT ![e] = "idle"] /\ \E r \in {"ok", "err"} : result' = [result EXCEPT ![e] = r]
  <2>b. ASSUME Moved PROVE PlaceTypes' /\ PlacesFit'
    <3>1. PlaceTypes'
      BY <2>0, <2>b DEF PlaceTypes, DivertPlaces, IstioPlaces, HostPlaces
    <3>2. PlacesFit'
      BY <2>0, <2>b DEF PlaceTypes, PlacesFit, IstioPlaces, HostPlaces, NginxPlaces, ListedPlaces
    <3> QED BY <3>1, <3>2
  <2>1. CASE VsGet(e)
    <3>1. Moved
      BY <2>1 DEF VsGet, Moves, IstioPlaces, HostPlaces
    <3>2. ReadTypes'
      BY <2>0, <2>1 DEF VsGet, ReadTypes, ObjectTypes
    <3>3. ObjectTypes'
      BY <2>0, <2>1 DEF VsGet, ObjectTypes, nginxVars
    <3> QED BY <3>1, <3>2, <3>3, <2>a, <2>b
  <2>2. CASE VsPut(e)
    <3>1. Moved
      BY <2>2 DEF VsPut, VsWritten, AfterVirtualServices, Moves, Ends, IstioPlaces, HostPlaces
    <3>2. vs' \in VirtualServices
      BY <2>2 DEF VsPut, VsWritten, translateDivertVirtualService, restoreDivertVirtualService, ObjectTypes,
                  ReadTypes, VirtualServices
    <3>3. tries' \in [Environments -> Nat] /\ last' \in [Environments -> {"none", "deploy", "destroy"}]
      BY <2>2 DEF VsPut, VsWritten, ReadTypes, PlaceTypes
    <3>4. UNCHANGED <<host, readVs, readHost>>
      BY <2>2 DEF VsPut, VsWritten
    <3>5. ReadTypes'
      BY <2>0, <3>3, <3>4 DEF ReadTypes
    <3>6. ObjectTypes'
      BY <2>0, <3>2, <3>4 DEF ObjectTypes, nginxVars
    <3> QED BY <3>1, <3>5, <3>6, <2>a, <2>b
  <2>3. CASE HostGet(e)
    <3>1. Moved
      BY <2>3 DEF HostGet, Moves, IstioPlaces, HostPlaces, PlacesFit
    <3>2. ReadTypes' /\ ObjectTypes'
      BY <2>0, <2>3 DEF HostGet, ReadTypes, ObjectTypes, istioVars, nginxVars
    <3> QED BY <3>1, <3>2, <2>a, <2>b
  <2>4. CASE HostGetDev(e)
    <3>1. Moved
      BY <2>4 DEF HostGetDev, Moves, Ends, IstioPlaces, HostPlaces, PlacesFit
    <3>2. host.rev \in Nat
      BY DEF ObjectTypes, Hosts
    <3>3. ReadTypes'
      BY <2>0, <2>4, <3>2 DEF HostGetDev, ReadTypes
    <3>4. ObjectTypes'
      BY <2>0, <2>4 DEF HostGetDev, ObjectTypes, nginxVars
    <3> QED BY <3>1, <3>3, <3>4, <2>a, <2>b
  <2>5. CASE HostCreate(e) \/ HostPut(e)
    <3>1. Moved
      BY <2>5 DEF HostCreate, HostPut, Moves, Ends, IstioPlaces, HostPlaces, PlacesFit
    <3>2. host' \in Hosts
      <4>1. host.rev + 1 \in Nat
        BY DEF ObjectTypes, Hosts
      <4>2. translateDivertHost(e) \in Hosts
        BY <4>1 DEF translateDivertHost, Hosts
      <4>3. host' = host \/ host' = translateDivertHost(e)
        BY <2>5 DEF HostCreate, HostPut, istioVars
      <4> QED BY <4>2, <4>3 DEF ObjectTypes
    <3>3. tries' \in [Environments -> Nat]
      <4>1. tries[e] + 1 \in Nat
        BY DEF ReadTypes
      <4>2. tries' = tries \/ tries' = [tries EXCEPT ![e] = tries[e] + 1]
        BY <2>5 DEF HostCreate, HostPut, istioVars
      <4> QED BY <4>1, <4>2 DEF ReadTypes
    <3>4. UNCHANGED <<vs, readVs, readHost, last>>
      BY <2>5 DEF HostCreate, HostPut, istioVars
    <3>5. ReadTypes'
      BY <2>0, <3>3, <3>4 DEF ReadTypes
    <3>6. ObjectTypes'
      BY <2>0, <3>2, <3>4 DEF ObjectTypes, nginxVars
    <3> QED BY <3>1, <3>5, <3>6, <2>a, <2>b
  <2> QED BY <1>3, <2>1, <2>2, <2>3, <2>4, <2>5 DEF IstioStep
<1>4. ASSUME NEW e \in Environments, NginxStep(e) PROVE DivertTypes'
  <2>0. UNCHANGED <<driver, crds, istioVars, op, runs, changes, since, ownHost>>
    BY <1>4 DEF NginxStep
  <2>a. ReadTypes'
    BY <2>0 DEF ReadTypes, istioVars
  <2> DEFINE Moved == /\ at[e] \in NginxPlaces
                      /\ \/ UNCHANGED result /\ \E p \in NginxPlaces : at' = [at EXCEPT ![e] = p]
                         \/ at' = [at EXCEPT ![e] = "idle"] /\ \E r \in {"ok", "panic"} : result' = [result EXCEPT ![e] = r]
  <2>b. ASSUME Moved PROVE PlaceTypes' /\ PlacesFit'
    <3>1. at' \in [Environments -> DivertPlaces]
      BY <2>b DEF PlaceTypes, DivertPlaces, NginxPlaces, ListedPlaces
    <3>2. result' \in [Environments -> {"none", "ok", "err", "panic"}]
      <4>1. CASE UNCHANGED result
        BY <4>1 DEF PlaceTypes
      <4>2. CASE \E r \in {"ok", "panic"} : result' = [result EXCEPT ![e] = r]
        <5>1. PICK r \in {"ok", "panic"} : result' = [result EXCEPT ![e] = r]
          BY <4>2
        <5> QED BY <5>1 DEF PlaceTypes
      <4> QED BY <2>b, <4>1, <4>2
    <3>3. PlacesFit'
      BY <2>0, <2>b DEF PlaceTypes, PlacesFit, IstioPlaces, HostPlaces, NginxPlaces, ListedPlaces
    <3> QED BY <2>0, <3>1, <3>2, <3>3 DEF PlaceTypes
  <2>c. ASSUME services' \in [Services -> Kinds], diverts' \subseteq Environments \X Services PROVE ObjectTypes'
    BY <2>0, <2>c DEF ObjectTypes, istioVars

  <2>1. CASE ListIngresses(e)
    <3>1. Moved
      BY <2>1 DEF ListIngresses, Moves, Ends, NginxPlaces, ListedPlaces
    <3>2. services' \in [Services -> Kinds] /\ diverts' \subseteq Environments \X Services
      BY <2>1 DEF ListIngresses, ObjectTypes, ListTypes, nginxVars
    <3>3. ListTypes'
      BY <2>1 DEF ListIngresses, ListTypes, ObjectTypes, nginxVars
    <3>4. CacheTypes'
      BY <2>1 DEF ListIngresses, CacheTypes, nginxVars
    <3> QED BY <3>1, <3>2, <3>3, <3>4, <2>a, <2>b, <2>c
  <2>2. CASE ListServices(e)
    <3>1. Moved
      BY <2>2 DEF ListServices, Moves, Ends, NginxPlaces, ListedPlaces
    <3>2. services' \in [Services -> Kinds] /\ diverts' \subseteq Environments \X Services
      BY <2>2 DEF ListServices, ObjectTypes, ListTypes, nginxVars
    <3>3. ListTypes'
      BY <2>2 DEF ListServices, ListTypes, ObjectTypes, nginxVars
    <3>4. CacheTypes'
      <4>1. services \in [Services -> Kinds]
        BY DEF ObjectTypes
      <4> QED BY <2>2, <4>1 DEF ListServices, CacheTypes
    <3> QED BY <3>1, <3>2, <3>3, <3>4, <2>a, <2>b, <2>c
  <2>3. CASE ListDiverts(e)
    <3>1. Moved
      BY <2>3 DEF ListDiverts, Moves, Ends, NginxPlaces, ListedPlaces
    <3>2. services' \in [Services -> Kinds] /\ diverts' \subseteq Environments \X Services
      BY <2>3 DEF ListDiverts, ObjectTypes, ListTypes, nginxVars
    <3>3. ListTypes'
      BY <2>3 DEF ListDiverts, ListTypes, ObjectTypes, nginxVars
    <3>4. CacheTypes'
      BY <2>3 DEF ListDiverts, CacheTypes, nginxVars
    <3> QED BY <3>1, <3>2, <3>3, <3>4, <2>a, <2>b, <2>c
  <2>4. ASSUME NEW s \in Services, DeployDivert(e, s) PROVE DivertTypes'
    <3>1. Moved
      BY <2>4 DEF DeployDivert, Moves, Ends, NginxPlaces, ListedPlaces
    <3>2. services' \in [Services -> Kinds] /\ diverts' \subseteq Environments \X Services
      BY <2>4 DEF DeployDivert, ObjectTypes, ListTypes, nginxVars
    <3>3. ListTypes'
      BY <2>4 DEF DeployDivert, ListTypes, ObjectTypes, nginxVars
    <3>4. CacheTypes'
      BY <2>4 DEF DeployDivert, CacheTypes, nginxVars
    <3> QED BY <3>1, <3>2, <3>3, <3>4, <2>a, <2>b, <2>c
  <2>5. ASSUME NEW s \in Services, DivertService(e, s) PROVE DivertTypes'
    <3>1. Moved
      BY <2>5 DEF DivertService, Moves, Ends, NginxPlaces, ListedPlaces
    <3>2. services' \in [Services -> Kinds] /\ diverts' \subseteq Environments \X Services
      BY <2>5 DEF DivertService, ObjectTypes, Kinds
    <3>3. ListTypes'
      <4>1. unseen' \in [Environments -> SUBSET Services]
        BY <2>5 DEF DivertService, ListTypes
      <4>2. todo' \in [Environments -> SUBSET Services]
        BY <2>5 DEF DivertService, ListTypes
      <4> QED BY <2>5, <4>1, <4>2 DEF DivertService, ListTypes
    <3>4. CacheTypes'
      BY <2>5 DEF DivertService, CacheTypes, nginxVars
    <3> QED BY <3>1, <3>2, <3>3, <3>4, <2>a, <2>b, <2>c
  <2>6. ASSUME NEW d \in orphans[e], DeleteOrphan(e, d) PROVE DivertTypes'
    <3>1. Moved
      BY <2>6 DEF DeleteOrphan, Moves, Ends, NginxPlaces, ListedPlaces
    <3>2. services' \in [Services -> Kinds] /\ diverts' \subseteq Environments \X Services
      BY <2>6 DEF DeleteOrphan, ObjectTypes, ListTypes, nginxVars
    <3>3. ListTypes'
      BY <2>6 DEF DeleteOrphan, ListTypes, ObjectTypes, nginxVars
    <3>4. CacheTypes'
      BY <2>6 DEF DeleteOrphan, CacheTypes, nginxVars
    <3> QED BY <3>1, <3>2, <3>3, <3>4, <2>a, <2>b, <2>c
  <2>7. CASE DeployedDiverts(e)
    <3>1. Moved
      BY <2>7 DEF DeployedDiverts, Moves, Ends, NginxPlaces, ListedPlaces
    <3>2. services' \in [Services -> Kinds] /\ diverts' \subseteq Environments \X Services
      BY <2>7 DEF DeployedDiverts, ObjectTypes, ListTypes, nginxVars
    <3>3. ListTypes'
      BY <2>7 DEF DeployedDiverts, ListTypes, ObjectTypes, nginxVars
    <3>4. CacheTypes'
      BY <2>7 DEF DeployedDiverts, CacheTypes, nginxVars
    <3> QED BY <3>1, <3>2, <3>3, <3>4, <2>a, <2>b, <2>c
  <2>8. CASE DivertedIngress(e)
    <3>1. Moved
      BY <2>8 DEF DivertedIngress, Moves, Ends, NginxPlaces, ListedPlaces
    <3>2. services' \in [Services -> Kinds] /\ diverts' \subseteq Environments \X Services
      BY <2>8 DEF DivertedIngress, ObjectTypes, ListTypes, nginxVars
    <3>3. ListTypes'
      BY <2>8 DEF DivertedIngress, ListTypes, ObjectTypes, nginxVars
    <3>4. CacheTypes'
      BY <2>8 DEF DivertedIngress, CacheTypes, nginxVars
    <3> QED BY <3>1, <3>2, <3>3, <3>4, <2>a, <2>b, <2>c
  <2>9. CASE DeletedOrphans(e)
    <3>1. Moved
      BY <2>9 DEF DeletedOrphans, Moves, Ends, NginxPlaces, ListedPlaces
    <3>2. services' \in [Services -> Kinds] /\ diverts' \subseteq Environments \X Services
      BY <2>9 DEF DeletedOrphans, ObjectTypes, ListTypes, nginxVars
    <3>3. ListTypes'
      BY <2>9 DEF DeletedOrphans, ListTypes, ObjectTypes, nginxVars
    <3>4. CacheTypes'
      BY <2>9 DEF DeletedOrphans, CacheTypes, nginxVars
    <3> QED BY <3>1, <3>2, <3>3, <3>4, <2>a, <2>b, <2>c
  <2>10. CASE CreateIngress(e)
    <3>1. Moved
      BY <2>10 DEF CreateIngress, Moves, Ends, NginxPlaces, ListedPlaces
    <3>2. services' \in [Services -> Kinds] /\ diverts' \subseteq Environments \X Services
      BY <2>10 DEF CreateIngress, ObjectTypes, ListTypes, nginxVars
    <3>3. ListTypes'
      BY <2>10 DEF CreateIngress, ListTypes, ObjectTypes, nginxVars
    <3>4. CacheTypes'
      <4>1. translateIngress(e, ingress.rev + 1) \in Ingresses
        BY DEF translateIngress, CacheTypes, Ingresses
      <4> QED BY <2>10, <4>1 DEF CreateIngress, CacheTypes
    <3> QED BY <3>1, <3>2, <3>3, <3>4, <2>a, <2>b, <2>c
  <2>11. CASE UpdateIngress(e)
    <3>1. Moved
      BY <2>11 DEF UpdateIngress, Moves, Ends, NginxPlaces, ListedPlaces
    <3>2. services' \in [Services -> Kinds] /\ diverts' \subseteq Environments \X Services
      BY <2>11 DEF UpdateIngress, ObjectTypes, ListTypes, nginxVars
    <3>3. ListTypes'
      BY <2>11 DEF UpdateIngress, ListTypes, ObjectTypes, nginxVars
    <3>4. CacheTypes'
      <4>0. cache[e].ingress \in Ingresses /\ ingress \in Ingresses
        BY DEF CacheTypes
      <4>1. UpdatedIngress(e, cache[e].ingress) \in Ingresses
        BY <4>0 DEF UpdatedIngress, translateIngress, Ingresses
      <4>2. ingress.rev + 1 \in Nat
        BY <4>0 DEF Ingresses
      <4>3. [UpdatedIngress(e, cache[e].ingress) EXCEPT !.rev = ingress.rev + 1] \in Ingresses
        BY <4>1, <4>2 DEF Ingresses
      <4> QED BY <2>11, <4>0, <4>3 DEF UpdateIngress, CacheTypes
    <3> QED BY <3>1, <3>2, <3>3, <3>4, <2>a, <2>b, <2>c
  <2> QED BY <1>4, <2>1, <2>2, <2>3, <2>4, <2>5, <2>6, <2>7, <2>8, <2>9, <2>10, <2>11 DEF NginxStep
<1>5. ASSUME DivertChange PROVE DivertTypes'
  <2>0. UNCHANGED <<driver, crds, at, op, result, runs, since>>
    BY <1>5 DEF DivertChange
  <2>a. PlaceTypes' /\ PlacesFit'
    BY <2>0 DEF PlaceTypes, PlacesFit
  <2>1. CASE OtherWrites
    <3>1. vs.rev + 1 \in Nat
      BY DEF ObjectTypes, VirtualServices
    <3>2. vs' \in VirtualServices
      BY <2>1, <3>1 DEF OtherWrites, ObjectTypes, VirtualServices
    <3> QED BY <3>2, <2>0, <2>1, <2>a DEF OtherWrites, ObjectTypes, ReadTypes, ListTypes, CacheTypes, nginxVars
  <2>2. CASE UserHost
    <3>1. PICK own \in BOOLEAN :
            ownHost' = own /\ host' = [there |-> own, auto |-> FALSE, by |-> "user", rev |-> host.rev + 1]
      BY <2>2 DEF UserHost
    <3>2. host.rev + 1 \in Nat
      BY DEF ObjectTypes, Hosts
    <3>3. host' \in Hosts /\ ownHost' \in BOOLEAN
      BY <3>1, <3>2 DEF Hosts
    <3> QED BY <3>3, <2>0, <2>2, <2>a DEF UserHost, ObjectTypes, ReadTypes, ListTypes, CacheTypes, nginxVars
  <2>3. CASE UserPutsIngress
    <3>0. ingress.rev \in Nat /\ ingress.rev + 1 \in Nat
      BY DEF CacheTypes, Ingresses
    <3>1. \A a \in BOOLEAN : UserIngress(FALSE, a) \in Ingresses
      BY <3>0 DEF UserIngress, Ingresses
    <3>2. [NoIngress EXCEPT !.rev = ingress.rev] \in Ingresses
      BY <3>0 DEF NoIngress, Ingresses
    <3>3. ingress' \in Ingresses /\ touched' \in [Environments -> BOOLEAN]
      BY <2>3, <3>1, <3>2 DEF UserPutsIngress
    <3> QED BY <3>3, <2>0, <2>3, <2>a DEF UserPutsIngress, ObjectTypes, ReadTypes, ListTypes, CacheTypes, istioVars
  <2>4. ASSUME NEW s \in Services, UserService(s) PROVE DivertTypes'
    <3>1. services' \in [Services -> Kinds]
      BY <2>4 DEF UserService, ObjectTypes, Kinds
    <3>2. unseen' \in [Environments -> SUBSET Services] /\ gone' \in [Environments -> SUBSET Services]
      BY <2>4 DEF UserService, ListTypes
    <3> QED BY <3>1, <3>2, <2>0, <2>4, <2>a DEF UserService, ObjectTypes, ReadTypes, ListTypes, CacheTypes, istioVars
  <2> QED BY <1>5, <2>1, <2>2, <2>3, <2>4 DEF DivertChange
<1>6. CASE UNCHANGED divertVars
  BY <1>6 DEF divertVars, istioVars, nginxVars, ObjectTypes, PlaceTypes, ReadTypes, ListTypes, CacheTypes, PlacesFit
<1> QED
  BY <1>1, <1>2, <1>3, <1>4, <1>5, <1>6 DEF DivertNext

\* Whatever reads and writes of the shared virtual service and of the host are
\* interleaved, the invariant of the istio driver is preserved.
LEMMA IstioInvStep == DivertTypes /\ IstioIInv /\ [DivertNext]_divertVars => IstioIInv'
<1> SUFFICES ASSUME DivertTypes, IstioIInv, [DivertNext]_divertVars PROVE IstioIInv'
  OBVIOUS
<1>v. vs \in VirtualServices /\ vs.rev \in Nat /\ host \in Hosts /\ host.rev \in Nat /\ UpdateConflictRetries \in Nat
  BY DivertAssumption DEF DivertTypes, DivertTypeOK, ObjectTypes, VirtualServices, Hosts
<1>p. at \in [Environments -> DivertPlaces] /\ op \in [Environments -> {"deploy", "destroy"}]
      /\ result \in [Environments -> {"none", "ok", "err", "panic"}]
  BY DEF DivertTypes, DivertTypeOK, PlaceTypes
<1>r. ReadTypes
  BY DEF DivertTypes, DivertTypeOK
<1>n. \A e \in Environments : since[e] \in Nat /\ tries[e] \in Nat /\ readHost[e] \in Nat /\ readVs[e].rev \in Nat
  BY <1>r DEF ReadTypes, VirtualServices
<1>f. PlacesFit
  BY DEF DivertTypes
<1>o. ownHost \in BOOLEAN
  BY DEF DivertTypes, DivertTypeOK, ObjectTypes
<1> USE DEF IstioIInv
<1>1. ASSUME NEW e \in Environments, DivertBegin(e) PROVE IstioIInv'
  <2>1. UNCHANGED <<driver, vs, host, readVs, readHost, last, ownHost>>
    BY <1>1 DEF DivertBegin
  <2>2. \/ at' = [at EXCEPT ![e] = "vsGet"] /\ UNCHANGED result
        \/ at' = [at EXCEPT ![e] = "listIngresses"] /\ UNCHANGED result
        \/ driver = "nginx" /\ at' = [at EXCEPT ![e] = "idle"]
        \/ at' = [at EXCEPT ![e] = "idle"] /\ result' = [result EXCEPT ![e] = "err"]
    BY <1>1 DEF DivertBegin, Moves, Ends
  <2>3. tries' = [tries EXCEPT ![e] = 0] /\ since' = [since EXCEPT ![e] = vs.rev]
        /\ \A f \in Environments \ {e} : op'[f] = op[f] /\ (driver # "nginx" => result'[f] = result[f]) /\ at'[f] = at[f]
    BY <1>1, <1>p DEF DivertBegin, Moves, Ends
  <2>4. NoDivertIsLost' /\ UserHostsStay'
    BY <2>1 DEF NoDivertIsLost, UserHostsStay
  <2>5. DivertedIsTrue'
    BY <1>p, <1>r, <2>1, <2>2, <2>3 DEF DivertedIsTrue, DivertEnded, ReadTypes
  <2>6. ASSUME NEW f \in Environments PROVE VsReads(f)' /\ HostReads(f)' /\ VsTries(f)'
    <3>1. CASE f = e
      <4>1. at'[e] \in {"vsGet", "listIngresses", "idle"}
        BY <2>2, <1>p
      <4>2. tries'[e] = 0 /\ vs'.rev - since'[e] = 0
        BY <1>r, <1>v, <2>1, <2>3 DEF ReadTypes
      <4> QED BY <3>1, <4>1, <4>2 DEF VsReads, HostReads, VsTries, HostPlaces
    <3>2. CASE f # e
      <4>1. at'[f] = at[f] /\ tries'[f] = tries[f] /\ since'[f] = since[f]
        BY <1>r, <2>3, <3>2 DEF ReadTypes
      <4> QED BY <4>1, <2>1 DEF VsReads, HostReads, VsTries, Overtaken
    <3> QED BY <3>1, <3>2
  <2> QED BY <2>4, <2>5, <2>6
<1>2. ASSUME NEW e \in Environments, DivertFails(e) PROVE IstioIInv'
  <2>1. UNCHANGED <<driver, vs, host, readVs, readHost, last, ownHost, op, since, tries>>
    BY <1>2 DEF DivertFails, istioVars
  <2>2. at' = [at EXCEPT ![e] = "idle"] /\ result' = [result EXCEPT ![e] = "err"]
    BY <1>2 DEF DivertFails, Ends
  <2>3. NoDivertIsLost' /\ UserHostsStay'
    BY <2>1 DEF NoDivertIsLost, UserHostsStay
  <2>4. DivertedIsTrue'
    BY <1>p, <2>1, <2>2 DEF DivertedIsTrue, DivertEnded
  <2>5. ASSUME NEW f \in Environments PROVE VsReads(f)' /\ HostReads(f)' /\ VsTries(f)'
    BY <1>p, <2>1, <2>2 DEF VsReads, HostReads, VsTries, Overtaken, HostPlaces
  <2> QED BY <2>3, <2>4, <2>5
<1>3. ASSUME NEW e \in Environments, IstioStep(e) PROVE IstioIInv'
  <2>0. UNCHANGED <<driver, op, since, ownHost>>
    BY <1>3 DEF IstioStep
  \* What the other environments know is still true when the version has not been
  \* lowered and the host was not replaced unnoticed.
  <2> DEFINE Others ==
        /\ \A f \in Environments \ {e} : /\ at'[f] = at[f] /\ readVs'[f] = readVs[f] /\ readHost'[f] = readHost[f]
                                        /\ tries'[f] = tries[f] /\ result'[f] = result[f]
        /\ vs' = vs \/ (vs'.rev = vs.rev + 1 /\ \A f \in Environments \ {e} : f \in vs'.diverted <=> f \in vs.diverted)
        /\ host' = host \/ host'.rev = host.rev + 1
  <2>a. ASSUME Others, NEW f \in Environments \ {e} PROVE VsReads(f)' /\ HostReads(f)' /\ VsTries(f)'
    <3>0. VsReads(f) /\ HostReads(f) /\ VsTries(f)
      OBVIOUS
    <3>1. at'[f] = at[f] /\ readVs'[f] = readVs[f] /\ readHost'[f] = readHost[f] /\ tries'[f] = tries[f] /\ since'[f] = since[f]
      BY <2>a, <2>0
    <3>2. vs' = vs \/ (vs'.rev = vs.rev + 1 /\ (f \in vs'.diverted <=> f \in vs.diverted))
      BY <2>a
    <3>3. host' = host \/ host'.rev = host.rev + 1
      BY <2>a
    <3>4. VsReads(f)'
      BY <3>0, <3>1, <3>2, <1>v, <1>n DEF VsReads
    <3>5. HostReads(f)'
      BY <3>0, <3>1, <3>3, <1>v, <1>n DEF HostReads
    <3>6. Overtaken(f) => Overtaken(f)'
      BY <3>1, <3>2, <1>v, <1>n DEF Overtaken
    <3>7. VsTries(f)'
      BY <3>0, <3>1, <3>2, <3>6, <1>v, <1>n DEF VsTries
    <3> QED BY <3>4, <3>5, <3>7
  <2>b. ASSUME Others, NEW f \in Environments \ {e}
        PROVE /\ DivertEnded(f, "deploy", "istio")' => f \in vs'.diverted \/ Overtaken(f)'
              /\ DivertEnded(f, "destroy", "istio")' => f \notin vs'.diverted \/ Overtaken(f)'
    <3>1. \A o \in {"deploy", "destroy"} : DivertEnded(f, o, "istio")' => DivertEnded(f, o, "istio")
      BY <2>b, <2>0 DEF DivertEnded
    <3>2. vs' = vs \/ (vs'.rev = vs.rev + 1 /\ (f \in vs'.diverted <=> f \in vs.diverted))
      BY <2>b
    <3>3. Overtaken(f) => Overtaken(f)'
      BY <3>2, <2>0, <1>v, <1>n DEF Overtaken
    <3> QED BY <3>1, <3>2, <3>3 DEF DivertedIsTrue, Overtaken
  <2>c. ASSUME Others,
               DivertEnded(e, "deploy", "istio")' => e \in vs'.diverted \/ Overtaken(e)',
               DivertEnded(e, "destroy", "istio")' => e \notin vs'.diverted \/ Overtaken(e)'
        PROVE DivertedIsTrue'
    BY <2>b, <2>c DEF DivertedIsTrue, Overtaken
  <2>d. ASSUME Others, last' = last, vs' = vs, host' = host PROVE NoDivertIsLost' /\ UserHostsStay'
    BY <2>d, <2>0 DEF NoDivertIsLost, UserHostsStay
  <2>1. CASE VsGet(e)
    <3>1. at[e] = "vsGet" /\ at' = [at EXCEPT ![e] = "vsPut"] /\ readVs' = [readVs EXCEPT ![e] = vs]
          /\ UNCHANGED <<vs, host, readHost, tries, last, result>>
      BY <2>1 DEF VsGet, Moves
    <3>2. Others
      BY <3>1, <1>p, <1>r DEF ReadTypes
    <3>3. at'[e] = "vsPut" /\ readVs'[e] = vs
      BY <3>1, <1>p, <1>r DEF ReadTypes
    <3>4. VsReads(e)' /\ HostReads(e)' /\ VsTries(e)'
      BY <3>1, <3>3, <2>0, <1>v, <1>n DEF VsReads, HostReads, VsTries, HostPlaces
    <3>5. ~DivertEnded(e, "deploy", "istio")' /\ ~DivertEnded(e, "destroy", "istio")'
      BY <3>3 DEF DivertEnded
    <3> QED BY <3>1, <3>2, <3>4, <3>5, <2>a, <2>c, <2>d
  <2>2. CASE VsPut(e) /\ VsWritten(e) /\ readVs[e].rev = vs.rev
    <3>1. at[e] = "vsPut" /\ readVs[e] = vs
      BY <2>2 DEF VsWritten, AfterVirtualServices, Moves, Ends, VsReads
    <3>2. vs' = IF op[e] = "deploy" THEN [rev |-> vs.rev + 1, diverted |-> vs.diverted \cup {e}]
                                    ELSE [rev |-> vs.rev + 1, diverted |-> vs.diverted \ {e}]
      BY <2>2, <3>1 DEF VsWritten, translateDivertVirtualService, restoreDivertVirtualService
    <3>3. last' = [last EXCEPT ![e] = op[e]] /\ tries' = [tries EXCEPT ![e] = 0] /\ UNCHANGED <<host, readVs, readHost>>
      BY <2>2 DEF VsWritten
    <3>4. \/ op[e] = "deploy" /\ at' = [at EXCEPT ![e] = "hostGet"] /\ UNCHANGED result
          \/ op[e] = "destroy" /\ at' = [at EXCEPT ![e] = "idle"] /\ result' = [result EXCEPT ![e] = "ok"]
      BY <2>2, <1>p DEF VsWritten, AfterVirtualServices, Moves, Ends
    <3>5. Others
      <4>1. \A f \in Environments \ {e} : at'[f] = at[f] /\ result'[f] = result[f] /\ tries'[f] = tries[f]
        BY <3>3, <3>4, <1>p, <1>r DEF ReadTypes
      <4>2. vs'.rev = vs.rev + 1 /\ \A f \in Environments \ {e} : f \in vs'.diverted <=> f \in vs.diverted
        BY <3>2
      <4> QED BY <4>1, <4>2, <3>3
    <3>6. e \in vs'.diverted <=> op[e] = "deploy"
      BY <3>2, <1>p
    <3>7. NoDivertIsLost'
      <4>1. SUFFICES ASSUME NEW f \in Environments PROVE f \in vs'.diverted <=> last'[f] = "deploy"
        BY DEF NoDivertIsLost
      <4>2. CASE f = e
        BY <4>2, <3>3, <3>6, <1>r DEF ReadTypes
      <4>3. CASE f # e
        <5>1. last'[f] = last[f]
          BY <4>3, <3>3, <1>r DEF ReadTypes
        <5>2. f \in vs'.diverted <=> f \in vs.diverted
          BY <4>3, <3>2
        <5> QED BY <5>1, <5>2 DEF NoDivertIsLost
      <4> QED BY <4>2, <4>3
    <3>8. UserHostsStay'
      BY <3>3, <2>0 DEF UserHostsStay
    <3>9. VsReads(e)' /\ HostReads(e)' /\ VsTries(e)'
      <4>1. (at'[e] = "hostGet" /\ op[e] = "deploy") \/ at'[e] = "idle"
        BY <3>4, <1>p
      <4> QED BY <4>1, <3>6 DEF VsReads, HostReads, VsTries, HostPlaces
    <3>10. DivertedIsTrue'
      <4>1. op'[e] = op[e]
        BY <2>0
      <4>2. op[e] = "deploy" => at'[e] = "hostGet"
        BY <3>4, <1>p
      <4> QED BY <4>1, <4>2, <3>5, <3>6, <2>c DEF DivertEnded
    <3> QED BY <3>5, <3>7, <3>8, <3>9, <3>10, <2>a
  <2>3. CASE VsPut(e) /\ ~(VsWritten(e) /\ readVs[e].rev = vs.rev)
    <3>1. at[e] = "vsPut" /\ readVs[e].rev # vs.rev /\ UNCHANGED <<vs, host, readVs, readHost, last>>
      BY <2>3 DEF VsPut, AfterVirtualServices, Moves, Ends
    <3>2. \/ tries' = [tries EXCEPT ![e] = tries[e] + 1] /\ at' = [at EXCEPT ![e] = "vsGet"] /\ UNCHANGED result
          \/ /\ ~(tries[e] + 1 < UpdateConflictRetries) /\ tries' = [tries EXCEPT ![e] = 0]
             /\ \/ at' = [at EXCEPT ![e] = "hostGet"] /\ UNCHANGED result
                \/ at' = [at EXCEPT ![e] = "idle"] /\ result' = [result EXCEPT ![e] = "ok"]
      BY <2>3 DEF VsPut, AfterVirtualServices, Moves, Ends
    <3>3. Others
      BY <3>1, <3>2, <1>p, <1>r DEF ReadTypes
    <3>4. vs.rev - since[e] >= tries[e] + 1
      <4>1. readVs[e].rev <= vs.rev /\ readVs[e].rev - since[e] >= tries[e]
        BY <3>1 DEF VsReads, VsTries
      <4> QED BY <4>1, <3>1, <1>v, <1>n
    <3>5. ~(tries[e] + 1 < UpdateConflictRetries) => Overtaken(e)
      BY <3>4, <1>v, <1>n DEF Overtaken
    <3>6. (at'[e] = "vsGet" /\ tries'[e] = tries[e] + 1) \/ (Overtaken(e) /\ at'[e] \in {"hostGet", "idle"})
      BY <3>2, <3>5, <1>p, <1>r DEF ReadTypes
    <3>7. Overtaken(e)' <=> Overtaken(e)
      BY <3>1, <2>0 DEF Overtaken
    <3>8. VsReads(e)' /\ HostReads(e)' /\ VsTries(e)'
      BY <3>1, <3>4, <3>6, <3>7, <2>0 DEF VsReads, HostReads, VsTries, HostPlaces
    <3>9. DivertedIsTrue'
      BY <3>3, <3>6, <3>7, <2>c DEF DivertEnded
    <3> QED BY <3>1, <3>3, <3>8, <3>9, <2>a, <2>d
  <2>4. CASE HostGet(e) \/ HostGetDev(e) \/ HostCreate(e) \/ HostPut(e)
    <3>0. at[e] \in HostPlaces
      BY <2>4 DEF HostGet, HostGetDev, HostCreate, HostPut, Moves, Ends, HostPlaces
    <3>1. op[e] = "deploy" /\ (e \in vs.diverted \/ Overtaken(e))
      BY <3>0, <1>f DEF PlacesFit, VsTries
    <3>2. UNCHANGED <<vs, readVs, last>>
      BY <2>4 DEF HostGet, HostGetDev, HostCreate, HostPut, istioVars
    <3>3. /\ at' = [at EXCEPT ![e] = at'[e]] /\ result' = [result EXCEPT ![e] = result'[e]]
          /\ at'[e] \in HostPlaces \cup {"idle"}
      BY <2>4, <1>p DEF HostGet, HostGetDev, HostCreate, HostPut, Moves, Ends, HostPlaces
    <3>4. \A f \in Environments \ {e} : readHost'[f] = readHost[f] /\ tries'[f] = tries[f]
      BY <2>4, <1>r DEF HostGet, HostGetDev, HostCreate, HostPut, istioVars, ReadTypes
    <3>5. host' = host \/ (host' = translateDivertHost(e) /\ ~ownHost)
      <4>1. CASE HostCreate(e)
        BY <4>1 DEF HostCreate, UserHostsStay
      <4>2. CASE HostPut(e)
        <5>1. at[e] = "hostPut"
          BY <4>2 DEF HostPut, Moves, Ends
        <5>2. readHost[e] = host.rev => host.auto
          BY <5>1 DEF HostReads
        <5> QED BY <4>2, <5>2 DEF HostPut, UserHostsStay, istioVars
      <4>3. CASE HostGet(e) \/ HostGetDev(e)
        BY <4>3 DEF HostGet, HostGetDev, istioVars
      <4> QED BY <2>4, <4>1, <4>2, <4>3
    <3>6. Others
      <4>1. host' = host \/ host'.rev = host.rev + 1
        BY <3>5 DEF translateDivertHost
      <4>2. \A f \in Environments \ {e} : at'[f] = at[f] /\ result'[f] = result[f]
        BY <3>3, <1>p
      <4> QED BY <4>1, <4>2, <3>2, <3>4
    <3>7. UserHostsStay' /\ NoDivertIsLost'
      BY <3>2, <3>5, <2>0 DEF UserHostsStay, NoDivertIsLost
    <3>8. HostReads(e)'
      <4>1. CASE HostGetDev(e)
        <5>1. readHost'[e] = host.rev /\ UNCHANGED host
          BY <4>1, <1>r DEF HostGetDev, ReadTypes
        <5>2. at'[e] = "hostPut" => host.auto
          BY <4>1, <1>p DEF HostGetDev, Moves, Ends
        <5> QED BY <5>1, <5>2, <1>v DEF HostReads
      <4>2. CASE HostGet(e) \/ HostCreate(e) \/ HostPut(e)
        <5>1. at'[e] # "hostPut"
          BY <4>2, <1>p DEF HostGet, HostCreate, HostPut, Moves, Ends
        <5> QED BY <5>1 DEF HostReads
      <4> QED BY <2>4, <4>1, <4>2
    <3>9. Overtaken(e)' <=> Overtaken(e)
      BY <3>2, <2>0 DEF Overtaken
    <3>10. VsReads(e)' /\ VsTries(e)'
      BY <3>1, <3>2, <3>3, <3>9 DEF VsReads, VsTries, HostPlaces
    <3>11. DivertedIsTrue'
      <4>1. op'[e] = "deploy"
        BY <2>0, <3>1
      <4> QED BY <4>1, <3>1, <3>2, <3>6, <3>9, <2>c DEF DivertEnded
    <3> QED BY <3>6, <3>7, <3>8, <3>10, <3>11, <2>a
  <2> QED BY <1>3, <2>1, <2>2, <2>3, <2>4 DEF IstioStep
<1>4. ASSUME NEW e \in Environments, NginxStep(e) PROVE IstioIInv'
  <2>0. UNCHANGED <<driver, vs, host, readVs, readHost, tries, last, op, since, ownHost>>
    BY <1>4 DEF NginxStep, istioVars
  <2>1. at[e] \in NginxPlaces /\ at'[e] \in NginxPlaces \cup {"idle"} /\ \A f \in Environments \ {e} : at'[f] = at[f]
    BY <1>4, <1>p DEF NginxStep, ListIngresses, ListServices, ListDiverts, DeployDivert, DivertService, DeleteOrphan,
       DeployedDiverts, DeletedOrphans, CreateIngress, UpdateIngress, DivertedIngress, Moves, Ends, NginxPlaces, ListedPlaces
  <2>2. driver = "nginx"
    BY <2>1, <1>f DEF PlacesFit
  <2>3. NoDivertIsLost' /\ UserHostsStay' /\ DivertedIsTrue'
    BY <2>0, <2>2 DEF NoDivertIsLost, UserHostsStay, DivertedIsTrue, DivertEnded
  <2>4. ASSUME NEW f \in Environments PROVE VsReads(f)' /\ HostReads(f)' /\ VsTries(f)'
    <3>1. at'[f] = at[f] \/ at'[f] \in NginxPlaces \cup {"idle"}
      BY <2>1
    <3> QED BY <3>1, <2>0 DEF VsReads, HostReads, VsTries, Overtaken, HostPlaces, NginxPlaces, ListedPlaces
  <2> QED BY <2>3, <2>4
<1>5. ASSUME DivertChange PROVE IstioIInv'
  <2>0. UNCHANGED <<driver, at, op, result, since>>
    BY <1>5 DEF DivertChange
  <2>1. UNCHANGED <<readVs, readHost, tries, last>>
    BY <1>5 DEF DivertChange, OtherWrites, UserHost, UserPutsIngress, UserService, istioVars
  <2>2. vs' = vs \/ vs' = [rev |-> vs.rev + 1, diverted |-> vs.diverted]
    BY <1>5, <1>v DEF DivertChange, OtherWrites, UserHost, UserPutsIngress, UserService, istioVars, VirtualServices
  <2>3. \/ UNCHANGED <<host, ownHost>>
        \/ host'.rev = host.rev + 1 /\ ~host'.auto /\ (ownHost' => host'.there /\ host'.by = "user")
    <3>1. CASE UserHost
      <4>1. PICK own \in BOOLEAN :
              ownHost' = own /\ host' = [there |-> own, auto |-> FALSE, by |-> "user", rev |-> host.rev + 1]
        BY <3>1 DEF UserHost
      <4>2. host'.there = own /\ host'.auto = FALSE /\ host'.by = "user" /\ host'.rev = host.rev + 1
        BY <4>1
      <4> QED BY <4>1, <4>2
    <3>2. CASE OtherWrites \/ UserPutsIngress \/ \E s \in Services : UserService(s)
      BY <3>2 DEF OtherWrites, UserPutsIngress, UserService, istioVars
    <3> QED BY <1>5, <3>1, <3>2 DEF DivertChange
  <2>4. UserHostsStay'
    BY <2>3 DEF UserHostsStay
  <2>5. NoDivertIsLost'
    BY <2>1, <2>2 DEF NoDivertIsLost
  <2>6. \A f \in Environments : Overtaken(f) => Overtaken(f)'
    BY <2>0, <2>2, <1>v, <1>n DEF Overtaken
  <2>7. DivertedIsTrue'
    BY <2>0, <2>2, <2>6 DEF DivertedIsTrue, DivertEnded, Overtaken
  <2>8. ASSUME NEW f \in Environments PROVE VsReads(f)' /\ HostReads(f)' /\ VsTries(f)'
    <3>0. VsReads(f) /\ HostReads(f) /\ VsTries(f)
      OBVIOUS
    <3>1. VsReads(f)'
      BY <3>0, <2>0, <2>1, <2>2, <1>v, <1>n DEF VsReads
    <3>2. HostReads(f)'
      BY <3>0, <2>0, <2>1, <2>3, <1>v, <1>n DEF HostReads
    <3>3. VsTries(f)'
      BY <3>0, <2>0, <2>1, <2>2, <2>6, <1>v, <1>n DEF VsTries
    <3> QED BY <3>1, <3>2, <3>3
  <2> QED BY <2>4, <2>5, <2>7, <2>8
<1>6. CASE UNCHANGED divertVars
  BY <1>6 DEF divertVars, istioVars, NoDivertIsLost, UserHostsStay, DivertedIsTrue, DivertEnded, VsReads, HostReads,
     VsTries, Overtaken
<1> QED
  BY <1>1, <1>2, <1>3, <1>4, <1>5, <1>6 DEF DivertNext

\* What the invariant of the nginx driver says of one command.
NginxHolds(e) ==
  /\ at[e] = "orphans" => \A d \in orphans[e] : services[d[2]] = "absent" \/ d[2] \in unseen[e]
  /\ DivertEnded(e, "deploy", "nginx") =>
       ((ingress.there /\ ingress.header) \/ touched[e]) /\ \A s \in Services : services[s] # "absent" \/ s \in gone[e]
  /\ CacheIsOld(e) /\ OrphansOfCache(e) /\ ServicesDone(e) /\ IngressIsOld(e)

LEMMA NginxByCommand == NginxIInv <=> (\A e \in Environments : NginxHolds(e)) /\ (\A s \in Services : DivertIsDue(s))
  BY DEF NginxIInv, OrphansHaveNoService, IngressIsDiverted, NginxHolds

\* A command keeps what it knows while another one, or the user, changes the
\* services and the ingress, since that is noted for it or leaves a diverted ingress.
LEMMA NginxFrame ==
  ASSUME DivertTypes, NEW e \in Environments, NginxHolds(e), driver' = driver,
         at'[e] = at[e], op'[e] = op[e], result'[e] = result[e],
         cache'[e] = cache[e], todo'[e] = todo[e], orphans'[e] = orphans[e],
         \A s \in Services : services[s] = "absent" \/ s \in unseen[e] => services'[s] = "absent" \/ s \in unseen'[e],
         \A s \in Services : services[s] # "absent" \/ s \in gone[e] => services'[s] # "absent" \/ s \in gone'[e],
         touched'[e] = TRUE \/ (touched'[e] = touched[e] /\ (ingress' = ingress \/ (ingress'.there /\ ingress'.header)))
  PROVE  NginxHolds(e)'
<1>0. orphans[e] \subseteq Environments \X Services
  BY DEF DivertTypes, DivertTypeOK, ListTypes
<1>1. (at[e] = "orphans" => \A d \in orphans[e] : services[d[2]] = "absent" \/ d[2] \in unseen[e])'
  BY <1>0 DEF NginxHolds
<1>2. DivertEnded(e, "deploy", "nginx")' => DivertEnded(e, "deploy", "nginx")
  BY DEF DivertEnded
<1>3. (DivertEnded(e, "deploy", "nginx") =>
        ((ingress.there /\ ingress.header) \/ touched[e]) /\ \A s \in Services : services[s] # "absent" \/ s \in gone[e])'
  BY <1>2 DEF NginxHolds
<1>4. CacheIsOld(e)' /\ OrphansOfCache(e)' /\ ServicesDone(e)'
  BY DEF NginxHolds, CacheIsOld, OrphansOfCache, ServicesDone
<1>5. IngressIsOld(e)'
  BY DEF NginxHolds, IngressIsOld
<1> QED
  BY <1>1, <1>3, <1>4, <1>5 DEF NginxHolds

\* A service that was diverted, or waits for a command, still is after a step that
\* deletes no divert resource and takes the service off no command's list.
LEMMA DueFrame ==
  ASSUME NEW s \in Services, DivertIsDue(s), crds' = crds, driver' = driver, services'[s] = "own" => services[s] = "own",
         diverts \subseteq diverts', \A f \in Environments : unseen[f] \subseteq unseen'[f],
         \A g \in Environments : Pending(g, s) => Pending(g, s)'
  PROVE  DivertIsDue(s)'
  BY DEF DivertIsDue

\* Whatever commands and changes of users are interleaved, the invariant of the
\* nginx driver is preserved.
LEMMA NginxInvStep == DivertTypes /\ NginxIInv /\ [DivertNext]_divertVars => NginxIInv'
<1> SUFFICES ASSUME DivertTypes, NginxIInv, [DivertNext]_divertVars PROVE NginxIInv'
  OBVIOUS
<1>p. at \in [Environments -> DivertPlaces] /\ op \in [Environments -> {"deploy", "destroy"}]
      /\ result \in [Environments -> {"none", "ok", "err", "panic"}]
  BY DEF DivertTypes, DivertTypeOK, PlaceTypes
<1>l. ListTypes
  BY DEF DivertTypes, DivertTypeOK
<1>c. CacheTypes
  BY DEF DivertTypes
<1>s. services \in [Services -> Kinds]
  BY DEF DivertTypes, DivertTypeOK, ObjectTypes
<1>d. diverts \subseteq Environments \X Services
  BY DEF DivertTypes, DivertTypeOK, ObjectTypes
<1>f. PlacesFit
  BY DEF DivertTypes
<1>h. \A e \in Environments : NginxHolds(e)
  BY NginxByCommand
<1>w. \A s \in Services : DivertIsDue(s)
  BY NginxByCommand
<1>q. ASSUME \A e \in Environments : NginxHolds(e)', \A s \in Services : DivertIsDue(s)' PROVE NginxIInv'
  BY <1>q DEF NginxIInv, OrphansHaveNoService, IngressIsDiverted, NginxHolds
<1>1. ASSUME NEW e \in Environments, DivertBegin(e) PROVE NginxIInv'
  <2>1. UNCHANGED <<driver, crds, ingress, services, diverts, cache, todo, orphans, unseen, gone, touched>>
    BY <1>1 DEF DivertBegin, nginxVars
  <2>2. \/ at' = [at EXCEPT ![e] = "vsGet"] /\ driver = "istio"
        \/ at' = [at EXCEPT ![e] = "listIngresses"]
        \/ at' = [at EXCEPT ![e] = "idle"] /\ op' = [op EXCEPT ![e] = "destroy"]
        \/ at' = [at EXCEPT ![e] = "idle"] /\ result' = [result EXCEPT ![e] = "err"]
    BY <1>1 DEF DivertBegin, Moves, Ends
  <2>3. \A f \in Environments \ {e} : at'[f] = at[f] /\ op'[f] = op[f] /\ result'[f] = result[f]
    BY <1>1, <1>p DEF DivertBegin, Moves, Ends
  <2>4. ~DivertEnded(e, "deploy", "nginx")' /\ at'[e] \in {"vsGet", "listIngresses", "idle"}
    BY <2>1, <2>2, <1>p DEF DivertEnded
  <2>5. NginxHolds(e)'
    BY <2>4 DEF NginxHolds, CacheIsOld, OrphansOfCache, ServicesDone, IngressIsOld, ListedPlaces, BeforeIngress
  <2>6. ASSUME NEW f \in Environments \ {e} PROVE NginxHolds(f)'
    BY <2>1, <2>3, <1>h, NginxFrame
  <2>7. ASSUME NEW s \in Services PROVE DivertIsDue(s)'
    <3>1. driver = "nginx" => Pending(e, s)'
      BY <2>1, <2>2, <2>4, <1>p DEF Pending
    <3> QED BY <3>1, <2>1 DEF DivertIsDue
  <2> QED BY <2>5, <2>6, <2>7, <1>q
<1>2. ASSUME NEW e \in Environments, DivertFails(e) PROVE NginxIInv'
  <2>1. UNCHANGED <<driver, crds, ingress, services, diverts, cache, todo, orphans, unseen, gone, touched, op>>
    BY <1>2 DEF DivertFails, nginxVars
  <2>2. at' = [at EXCEPT ![e] = "idle"] /\ result' = [result EXCEPT ![e] = "err"]
    BY <1>2 DEF DivertFails, Ends
  <2>3. NginxHolds(e)'
    <3>1. at'[e] = "idle" /\ result'[e] = "err"
      BY <2>2, <1>p
    <3> QED BY <3>1 DEF NginxHolds, DivertEnded, CacheIsOld, OrphansOfCache, ServicesDone, IngressIsOld, ListedPlaces, BeforeIngress
  <2>4. ASSUME NEW f \in Environments \ {e} PROVE NginxHolds(f)'
    BY <2>1, <2>2, <1>h, <1>p, NginxFrame
  <2>5. ASSUME NEW s \in Services PROVE DivertIsDue(s)'
    <3>1. Pending(e, s)'
      BY <2>2, <1>p DEF Pending, DivertEnded
    <3> QED BY <3>1 DEF DivertIsDue
  <2> QED BY <2>3, <2>4, <2>5, <1>q
<1>3. ASSUME NEW e \in Environments, IstioStep(e) PROVE NginxIInv'
  <2>1. UNCHANGED <<driver, crds, ingress, services, diverts, cache, todo, orphans, unseen, gone, touched, op>>
    BY <1>3 DEF IstioStep, nginxVars
  <2>2. at[e] \in IstioPlaces /\ at'[e] \in IstioPlaces \cup {"idle"}
        /\ \A f \in Environments \ {e} : at'[f] = at[f] /\ result'[f] = result[f]
    BY <1>3, <1>p DEF IstioStep, VsGet, VsPut, VsWritten, AfterVirtualServices, HostGet, HostGetDev, HostCreate, HostPut,
       Moves, Ends, IstioPlaces, HostPlaces
  <2>3. driver = "istio"
    BY <2>2, <1>f DEF PlacesFit
  <2>4. NginxHolds(e)'
    BY <2>1, <2>2, <2>3 DEF NginxHolds, DivertEnded, CacheIsOld, OrphansOfCache, ServicesDone, IngressIsOld, ListedPlaces,
       BeforeIngress, IstioPlaces, HostPlaces
  <2>5. ASSUME NEW f \in Environments \ {e} PROVE NginxHolds(f)'
    BY <2>1, <2>2, <1>h, NginxFrame
  <2>6. ASSUME NEW s \in Services PROVE DivertIsDue(s)'
    BY <2>1, <2>3 DEF DivertIsDue
  <2> QED BY <2>4, <2>5, <2>6, <1>q
<1>4. ASSUME NEW e \in Environments, NginxStep(e) PROVE NginxIInv'
  <2>0. UNCHANGED <<driver, crds, op>>
    BY <1>4 DEF NginxStep
  <2>g. driver = "nginx" /\ op[e] = "deploy"
    <3>1. at[e] \in NginxPlaces
      BY <1>4 DEF NginxStep, ListIngresses, ListServices, ListDiverts, DeployDivert, DivertService, DeleteOrphan,
         DeployedDiverts, DeletedOrphans, CreateIngress, UpdateIngress, DivertedIngress, Moves, Ends, NginxPlaces, ListedPlaces
    <3> QED BY <3>1, <1>f DEF PlacesFit
  <2>h. NginxHolds(e)
    BY <1>h
  <2>a. \A f \in Environments \ {e} :
          /\ at'[f] = at[f] /\ result'[f] = result[f] /\ cache'[f] = cache[f] /\ todo'[f] = todo[f]
          /\ orphans'[f] = orphans[f] /\ gone'[f] = gone[f] /\ touched'[f] = touched[f]
          /\ unseen[f] \subseteq unseen'[f]
    <3>1. \A f \in Environments \ {e} : at'[f] = at[f] /\ result'[f] = result[f]
      BY <1>4, <1>p DEF NginxStep, ListIngresses, ListServices, ListDiverts, DeployDivert, DivertService, DeleteOrphan,
         DeployedDiverts, DeletedOrphans, CreateIngress, UpdateIngress, DivertedIngress, Moves, Ends
    <3>2. \A f \in Environments \ {e} : cache'[f] = cache[f]
      BY <1>4, <1>c DEF CacheTypes, NginxStep, ListIngresses, ListServices, ListDiverts, DeployDivert, DivertService, DeleteOrphan,
         DeployedDiverts, DeletedOrphans, CreateIngress, UpdateIngress, DivertedIngress, nginxVars
    <3>3. \A f \in Environments \ {e} : todo'[f] = todo[f] /\ orphans'[f] = orphans[f]
      BY <1>4, <1>l DEF ListTypes, NginxStep, ListIngresses, ListServices, ListDiverts, DeployDivert, DivertService, DeleteOrphan,
         DeployedDiverts, DeletedOrphans, CreateIngress, UpdateIngress, DivertedIngress, nginxVars
    <3>4. \A f \in Environments \ {e} : gone'[f] = gone[f] /\ touched'[f] = touched[f]
      BY <1>4, <1>l DEF ListTypes, NginxStep, ListIngresses, ListServices, ListDiverts, DeployDivert, DivertService, DeleteOrphan,
         DeployedDiverts, DeletedOrphans, CreateIngress, UpdateIngress, DivertedIngress, nginxVars
    <3>5. \A f \in Environments \ {e} : unseen[f] \subseteq unseen'[f]
      BY <1>4, <1>l DEF ListTypes, NginxStep, ListIngresses, ListServices, ListDiverts, DeployDivert, DivertService, DeleteOrphan,
         DeployedDiverts, DeletedOrphans, CreateIngress, UpdateIngress, DivertedIngress, nginxVars
    <3> QED BY <3>1, <3>2, <3>3, <3>4, <3>5
  \* The other commands, and the services, when the step changes less than that.
  <2>b. ASSUME UNCHANGED services, ingress' = ingress \/ (ingress'.there /\ ingress'.header)
        PROVE \A f \in Environments \ {e} : NginxHolds(f)'
    <3> SUFFICES ASSUME NEW f \in Environments \ {e} PROVE NginxHolds(f)'
      OBVIOUS
    <3>1. NginxHolds(f)
      BY <1>h
    <3> QED BY <2>0, <2>a, <2>b, <3>1, NginxFrame
  <2>c. ASSUME NEW s \in Services, services'[s] = "own" => services[s] = "own", diverts \subseteq diverts',
               unseen[e] \subseteq unseen'[e], Pending(e, s) => Pending(e, s)'
        PROVE DivertIsDue(s)'
    <3>1. \A f \in Environments : unseen[f] \subseteq unseen'[f]
      BY <2>a, <2>c
    <3>2. \A g \in Environments : Pending(g, s) => Pending(g, s)'
      BY <2>0, <2>a, <2>c DEF Pending, DivertEnded
    <3> QED BY <2>0, <2>c, <3>1, <3>2, <1>w, DueFrame
  <2>1. CASE ListIngresses(e)
    <3>1. at'[e] = "listServices" /\ cache'[e].ingress = ingress /\ touched'[e] = FALSE
      BY <2>1, <1>p, <1>c, <1>l DEF ListIngresses, Moves, CacheTypes, ListTypes
    <3>2. UNCHANGED <<ingress, services, diverts, unseen>>
      BY <2>1 DEF ListIngresses
    <3>3. NginxHolds(e)'
      BY <3>1, <3>2 DEF NginxHolds, DivertEnded, CacheIsOld, OrphansOfCache, ServicesDone, IngressIsOld, ListedPlaces
    <3>4. \A s \in Services : Pending(e, s)'
      BY <3>1 DEF Pending
    <3> QED BY <3>2, <3>3, <3>4, <2>b, <2>c, <1>q
  <2>2. CASE ListServices(e)
    <3>1. at[e] = "listServices" /\ at'[e] = "listDiverts" /\ cache'[e].services = services
          /\ cache'[e].ingress = cache[e].ingress
      BY <2>2, <1>p, <1>c DEF ListServices, Moves, CacheTypes
    <3>2. UNCHANGED <<ingress, services, diverts, touched>>
      BY <2>2 DEF ListServices
    <3>3. NginxHolds(e)'
      BY <3>1, <3>2, <2>h DEF NginxHolds, DivertEnded, CacheIsOld, OrphansOfCache, ServicesDone, IngressIsOld, BeforeIngress
    <3>4. ASSUME NEW s \in Services PROVE DivertIsDue(s)'
      <4>1. services[s] = "own" => Pending(e, s)'
        BY <3>1 DEF Pending
      <4> QED BY <4>1, <3>2 DEF DivertIsDue
    <3> QED BY <3>2, <3>3, <3>4, <2>b, <1>q
  <2>3. CASE ListDiverts(e)
    <3>1. at[e] = "listDiverts" /\ at'[e] = "resources"
      BY <2>3, <1>p DEF ListDiverts, Moves
    <3>2. UNCHANGED <<ingress, services, diverts, cache, unseen, gone, touched>>
      BY <2>3 DEF ListDiverts
    <3>3. todo'[e] = {s \in Services : cache[e].services[s] = "own"}
      BY <2>3, <1>l DEF ListDiverts, ListTypes
    <3>4. orphans'[e] = {d \in diverts : cache[e].services[d[2]] = "absent"}
      BY <2>3, <1>l DEF ListDiverts, ListTypes
    <3>5. NginxHolds(e)'
      <4>1. CacheIsOld(e)' /\ ServicesDone(e)' /\ IngressIsOld(e)'
        BY <3>1, <3>2, <2>h DEF NginxHolds, CacheIsOld, ServicesDone, IngressIsOld, ListedPlaces, BeforeIngress
      <4>2. OrphansOfCache(e)'
        BY <3>2, <3>4 DEF OrphansOfCache
      <4> QED BY <3>1, <4>1, <4>2 DEF NginxHolds, DivertEnded
    <3>6. ASSUME NEW s \in Services PROVE DivertIsDue(s)'
      <4>1. Pending(e, s) => Pending(e, s)'
        BY <3>1, <3>3 DEF Pending
      <4> QED BY <4>1, <3>2, <2>c
    <3> QED BY <3>2, <3>5, <3>6, <2>b, <1>q
  <2>4. ASSUME NEW t \in Services, DeployDivert(e, t) PROVE NginxIInv'
    <3>1. at[e] = "resources" /\ at'[e] = "resources"
      BY <2>4, <1>p DEF DeployDivert, Moves
    <3>2. UNCHANGED <<ingress, services, cache, orphans, unseen, gone, touched>>
      BY <2>4 DEF DeployDivert
    <3>3. todo'[e] = todo[e] \ {t}
      BY <2>4, <1>l DEF DeployDivert, ListTypes
    <3>4. diverts \subseteq diverts' /\ (crds => <<e, t>> \in diverts')
      BY <2>4 DEF DeployDivert
    <3>5. NginxHolds(e)'
      BY <3>1, <3>2, <2>h DEF NginxHolds, DivertEnded, CacheIsOld, OrphansOfCache, ServicesDone, IngressIsOld, ListedPlaces, BeforeIngress
    <3>6. ASSUME NEW s \in Services PROVE DivertIsDue(s)'
      <4>1. CASE s = t
        <5>1. crds => \E d \in diverts' : d[2] = s
          BY <3>4, <4>1
        <5> QED BY <5>1, <2>0 DEF DivertIsDue
      <4>2. CASE s # t
        <5>1. Pending(e, s) => Pending(e, s)'
          BY <3>1, <3>3, <4>2 DEF Pending
        <5> QED BY <5>1, <3>2, <3>4, <2>c
      <4> QED BY <4>1, <4>2
    <3> QED BY <3>2, <3>5, <3>6, <2>b, <1>q
  <2>5. CASE DeployedDiverts(e)
    <3>1. at[e] = "resources" /\ at'[e] = "orphans" /\ todo[e] = {}
      BY <2>5, <1>p DEF DeployedDiverts, Moves
    <3>2. UNCHANGED <<ingress, services, diverts, cache, todo, orphans, unseen, gone, touched>>
      BY <2>5 DEF DeployedDiverts, nginxVars
    <3>3. NginxHolds(e)'
      <4>1. CacheIsOld(e)' /\ ServicesDone(e)' /\ IngressIsOld(e)' /\ OrphansOfCache(e)'
        BY <3>1, <3>2, <2>h DEF NginxHolds, CacheIsOld, ServicesDone, IngressIsOld, OrphansOfCache, ListedPlaces, BeforeIngress
      <4>2. \A d \in orphans[e] : services[d[2]] = "absent" \/ d[2] \in unseen[e]
        <5>1. \A d \in orphans[e] : d[2] \in Services /\ cache[e].services[d[2]] = "absent"
          BY <3>1, <2>h, <1>l DEF NginxHolds, OrphansOfCache, ListTypes
        <5> QED BY <5>1, <3>1, <2>h DEF NginxHolds, CacheIsOld, ListedPlaces
      <4> QED BY <3>1, <3>2, <4>1, <4>2 DEF NginxHolds, DivertEnded
    <3>4. \A s \in Services : ~Pending(e, s)
      BY <3>1 DEF Pending
    <3> QED BY <3>2, <3>3, <3>4, <2>b, <2>c, <1>q
  <2>6. ASSUME NEW d \in orphans[e], DeleteOrphan(e, d) PROVE NginxIInv'
    <3>1. at[e] = "orphans" /\ at'[e] = "orphans"
      BY <2>6, <1>p DEF DeleteOrphan, Moves
    <3>2. UNCHANGED <<ingress, services, cache, todo, unseen, gone, touched>> /\ diverts' = diverts \ {d}
      BY <2>6 DEF DeleteOrphan
    <3>3. orphans'[e] \subseteq orphans[e]
      BY <2>6, <1>l DEF DeleteOrphan, ListTypes
    <3>4. NginxHolds(e)'
      BY <3>1, <3>2, <3>3, <2>h DEF NginxHolds, DivertEnded, CacheIsOld, OrphansOfCache, ServicesDone, IngressIsOld, ListedPlaces, BeforeIngress
    <3>5. ASSUME NEW s \in Services PROVE DivertIsDue(s)'
      <4>1. CASE d[2] = s /\ services[s] = "own"
        <5>1. s \in unseen[e]
          BY <4>1, <3>1, <2>h DEF NginxHolds
        <5> QED BY <5>1, <3>2 DEF DivertIsDue
      <4>2. CASE services[s] # "own"
        BY <4>2, <3>2 DEF DivertIsDue
      <4>3. CASE d[2] # s
        <5>1. (\E c \in diverts : c[2] = s) => \E c \in diverts' : c[2] = s
          BY <4>3, <3>2
        <5>2. \A g \in Environments : Pending(g, s) => Pending(g, s)'
          BY <2>0, <2>a, <3>1, <3>2 DEF Pending, DivertEnded
        <5> QED BY <5>1, <5>2, <3>2, <2>0, <1>w DEF DivertIsDue
      <4> QED BY <4>1, <4>2, <4>3
    <3> QED BY <3>2, <3>4, <3>5, <2>b, <1>q
  <2>7. CASE DeletedOrphans(e)
    <3> DEFINE in == cache[e].ingress
    <3>0. in \in Ingresses
      BY <1>c DEF CacheTypes
    <3>1. at[e] = "orphans" /\ at'[e] \in {"createIngress", "idle", "services", "updateIngress"}
      BY <2>7, <1>p DEF DeletedOrphans, Moves, Ends
    <3>2. UNCHANGED <<ingress, services, diverts, cache, orphans, unseen, gone, touched>> /\ todo'[e] = Services
      BY <2>7, <1>l DEF DeletedOrphans, ListTypes
    <3>3. /\ at'[e] = "createIngress" => ~in.there
          /\ at'[e] = "updateIngress" => in.there
          /\ at'[e] = "services" => in.there /\ isEqualIngress(e, in)
          /\ at'[e] = "idle" => result'[e] = "panic"
      BY <2>7, <1>p DEF DeletedOrphans, Moves, Ends
    <3>4. isEqualIngress(e, in) => in.header
      <4>1. UpdatedIngress(e, in).header = TRUE
        BY <3>0 DEF UpdatedIngress, translateIngress, Ingresses
      <4> QED BY <4>1 DEF isEqualIngress
    <3>5. IngressIsOld(e)'
      <4>1. ~touched[e] => (ingress.there => ingress.header \/ ingress = in) /\ (in.there => ingress.there)
        BY <3>1, <2>h DEF NginxHolds, IngressIsOld, BeforeIngress
      <4> QED BY <3>1, <3>2, <3>3, <3>4, <4>1 DEF IngressIsOld
    <3>6. CacheIsOld(e)' /\ OrphansOfCache(e)' /\ ServicesDone(e)'
      BY <3>1, <3>2, <2>h DEF NginxHolds, CacheIsOld, OrphansOfCache, ServicesDone, ListedPlaces
    <3>7. NginxHolds(e)'
      BY <3>1, <3>3, <3>5, <3>6 DEF NginxHolds, DivertEnded
    <3>8. \A s \in Services : ~Pending(e, s)
      BY <3>1 DEF Pending
    <3> QED BY <3>2, <3>7, <3>8, <2>b, <2>c, <1>q
  <2>8. CASE CreateIngress(e)
    <3>1. at[e] = "createIngress" /\ at'[e] = "services"
      BY <2>8, <1>p DEF CreateIngress, Moves
    <3>2. UNCHANGED <<services, diverts, cache, todo, orphans, unseen, gone, touched>>
      BY <2>8 DEF CreateIngress
    <3>3. (ingress' = ingress /\ ingress.there) \/ ingress' = translateIngress(e, ingress.rev + 1)
      BY <2>8 DEF CreateIngress
    <3>4. ingress' = ingress \/ (ingress'.there /\ ingress'.header)
      BY <3>3 DEF translateIngress
    <3>5. (ingress'.there /\ ingress'.header) \/ touched'[e]
      <4>1. ~cache[e].ingress.there
        BY <3>1, <2>h DEF NginxHolds, IngressIsOld
      <4>2. ~touched[e] /\ ingress.there => ingress.header
        BY <4>1, <3>1, <2>h DEF NginxHolds, IngressIsOld, BeforeIngress
      <4> QED BY <3>2, <3>3, <4>2 DEF translateIngress
    <3>6. NginxHolds(e)'
      BY <3>1, <3>2, <3>5, <2>h DEF NginxHolds, DivertEnded, CacheIsOld, OrphansOfCache, ServicesDone, IngressIsOld, ListedPlaces, BeforeIngress
    <3>7. \A s \in Services : ~Pending(e, s)
      BY <3>1 DEF Pending
    <3> QED BY <3>2, <3>4, <3>6, <3>7, <2>b, <2>c, <1>q
  <2>9. CASE UpdateIngress(e)
    <3> DEFINE in == cache[e].ingress
    <3>0. in \in Ingresses
      BY <1>c DEF CacheTypes
    <3>1. at[e] = "updateIngress" /\ at'[e] = "services" /\ ingress.there
      BY <2>9, <1>p DEF UpdateIngress, Moves
    <3>2. UNCHANGED <<services, diverts, cache, todo, orphans, unseen, gone, touched>>
      BY <2>9 DEF UpdateIngress
    <3>3. \/ ingress' = [UpdatedIngress(e, in) EXCEPT !.rev = ingress.rev + 1]
          \/ ingress' = ingress /\ in.rev # ingress.rev
      BY <2>9 DEF UpdateIngress
    <3>4. in.there
      BY <3>1, <2>h DEF NginxHolds, IngressIsOld
    <3>5. LET new == [UpdatedIngress(e, in) EXCEPT !.rev = ingress.rev + 1] IN new.there /\ new.header
      BY <3>0, <3>4 DEF UpdatedIngress, translateIngress, Ingresses
    <3>6. (ingress'.there /\ ingress'.header) \/ touched'[e]
      <4>1. ~touched[e] => ingress.header \/ ingress = in
        BY <3>1, <2>h DEF NginxHolds, IngressIsOld, BeforeIngress
      <4> QED BY <3>1, <3>2, <3>3, <3>5, <4>1
    <3>7. NginxHolds(e)'
      BY <3>1, <3>2, <3>6, <2>h DEF NginxHolds, DivertEnded, CacheIsOld, OrphansOfCache, ServicesDone, IngressIsOld, ListedPlaces, BeforeIngress
    <3>8. \A s \in Services : ~Pending(e, s)
      BY <3>1 DEF Pending
    <3> QED BY <3>2, <3>3, <3>5, <3>7, <3>8, <2>b, <2>c, <1>q
  <2>10. ASSUME NEW t \in Services, DivertService(e, t) PROVE NginxIInv'
    <3>1. at[e] = "services" /\ at'[e] = "services"
      BY <2>10, <1>p DEF DivertService, Moves
    <3>2. UNCHANGED <<ingress, diverts, cache, orphans, gone, touched>> /\ todo'[e] = todo[e] \ {t}
      BY <2>10, <1>l DEF DivertService, ListTypes
    <3>3. \/ UNCHANGED <<services, unseen>> /\ (cache[e].services[t] # "absent" \/ services[t] # "absent")
          \/ services' = [services EXCEPT ![t] = "copy"] /\ \A f \in Environments \ {e} : t \in unseen'[f]
      BY <2>10 DEF DivertService
    <3>4. \A s \in Services : services'[s] = services[s] \/ (s = t /\ services'[s] = "copy" /\ \A f \in Environments \ {e} : s \in unseen'[f])
      BY <3>3, <1>s
    <3>5. unseen[e] \subseteq unseen'[e]
      BY <2>10, <1>l DEF DivertService, ListTypes
    <3>6. ASSUME NEW f \in Environments \ {e} PROVE NginxHolds(f)'
      <4>1. \A s \in Services : services[s] = "absent" \/ s \in unseen[f] => services'[s] = "absent" \/ s \in unseen'[f]
        BY <3>4, <2>a
      <4>2. \A s \in Services : services[s] # "absent" \/ s \in gone[f] => services'[s] # "absent" \/ s \in gone'[f]
        BY <3>4, <2>a
      <4>3. NginxHolds(f)
        BY <1>h
      <4> QED BY <4>1, <4>2, <4>3, <3>2, <2>0, <2>a, NginxFrame
    <3>7. NginxHolds(e)'
      <4>1. CacheIsOld(e)'
        BY <3>1, <3>2, <3>4, <2>h DEF NginxHolds, CacheIsOld, ListedPlaces
      <4>2. services'[t] # "absent" \/ t \in gone[e]
        <5>1. cache[e].services[t] # "absent" => services[t] # "absent" \/ t \in gone[e]
          BY <3>1, <2>h DEF NginxHolds, CacheIsOld, ListedPlaces
        <5> QED BY <5>1, <3>3, <1>s
      <4>3. \A s \in Services \ todo[e] : services[s] # "absent" \/ s \in gone[e]
        BY <3>1, <2>h DEF NginxHolds, ServicesDone
      <4>4. ServicesDone(e)'
        BY <4>2, <4>3, <3>2, <3>4 DEF ServicesDone
      <4>5. OrphansOfCache(e)' /\ IngressIsOld(e)'
        BY <3>1, <3>2, <2>h DEF NginxHolds, OrphansOfCache, IngressIsOld, BeforeIngress
      <4> QED BY <3>1, <4>1, <4>4, <4>5 DEF NginxHolds, DivertEnded
    <3>8. ASSUME NEW s \in Services PROVE DivertIsDue(s)'
      <4>1. services'[s] = "own" => services[s] = "own"
        BY <3>4
      <4>2. ~Pending(e, s)
        BY <3>1 DEF Pending
      <4> QED BY <4>1, <4>2, <3>2, <3>5, <2>c
    <3> QED BY <3>6, <3>7, <3>8, <1>q
  <2>11. CASE DivertedIngress(e)
    <3>1. at[e] = "services" /\ at'[e] = "idle" /\ todo[e] = {}
      BY <2>11, <1>p DEF DivertedIngress, Ends
    <3>2. UNCHANGED <<ingress, services, diverts, cache, todo, orphans, unseen, gone, touched>>
      BY <2>11 DEF DivertedIngress, nginxVars
    <3>3. NginxHolds(e)'
      <4>1. CacheIsOld(e)' /\ ServicesDone(e)' /\ IngressIsOld(e)' /\ OrphansOfCache(e)'
        BY <3>1 DEF CacheIsOld, ServicesDone, IngressIsOld, OrphansOfCache, ListedPlaces, BeforeIngress
      <4>2. ((ingress.there /\ ingress.header) \/ touched[e]) /\ \A s \in Services : services[s] # "absent" \/ s \in gone[e]
        BY <3>1, <2>h DEF NginxHolds, ServicesDone, IngressIsOld
      <4> QED BY <3>1, <3>2, <4>1, <4>2 DEF NginxHolds
    <3>4. \A s \in Services : ~Pending(e, s)
      BY <3>1 DEF Pending
    <3> QED BY <3>2, <3>3, <3>4, <2>b, <2>c, <1>q
  <2> QED BY <1>4, <2>1, <2>2, <2>3, <2>4, <2>5, <2>6, <2>7, <2>8, <2>9, <2>10, <2>11 DEF NginxStep
<1>5. ASSUME DivertChange PROVE NginxIInv'
  <2>0. UNCHANGED <<driver, crds, at, op, result>>
    BY <1>5 DEF DivertChange
  <2>1. CASE OtherWrites \/ UserHost
    <3>1. UNCHANGED <<ingress, services, diverts, cache, todo, orphans, unseen, gone, touched>>
      BY <2>1 DEF OtherWrites, UserHost, nginxVars
    <3>2. \A e \in Environments : NginxHolds(e)'
      BY <3>1, <2>0, <1>h, NginxFrame
    <3>3. \A s \in Services : DivertIsDue(s)'
      BY <3>1, <2>0, <1>w DEF DivertIsDue, Pending, DivertEnded
    <3> QED BY <3>2, <3>3, <1>q
  <2>2. CASE UserPutsIngress
    <3>1. UNCHANGED <<services, diverts, cache, todo, orphans, unseen, gone>> /\ \A f \in Environments : touched'[f] = TRUE
      BY <2>2 DEF UserPutsIngress
    <3>2. \A e \in Environments : NginxHolds(e)'
      BY <3>1, <2>0, <1>h, NginxFrame
    <3>3. \A s \in Services : DivertIsDue(s)'
      BY <3>1, <2>0, <1>w DEF DivertIsDue, Pending, DivertEnded
    <3> QED BY <3>2, <3>3, <1>q
  <2>3. ASSUME NEW t \in Services, UserService(t) PROVE NginxIInv'
    <3>1. UNCHANGED <<ingress, diverts, cache, todo, orphans, touched>>
      BY <2>3 DEF UserService
    <3>2. \/ /\ services' = [services EXCEPT ![t] = "own"] /\ UNCHANGED gone
             /\ unseen' = [f \in Environments |-> unseen[f] \cup {t}]
          \/ /\ services' = [services EXCEPT ![t] = "absent"] /\ UNCHANGED unseen
             /\ gone' = [f \in Environments |-> gone[f] \cup {t}]
      BY <2>3 DEF UserService
    <3>3. ASSUME NEW e \in Environments PROVE NginxHolds(e)'
      <4>1. \A s \in Services : services[s] = "absent" \/ s \in unseen[e] => services'[s] = "absent" \/ s \in unseen'[e]
        BY <3>2, <1>s
      <4>2. \A s \in Services : services[s] # "absent" \/ s \in gone[e] => services'[s] # "absent" \/ s \in gone'[e]
        BY <3>2, <1>s
      <4> QED BY <4>1, <4>2, <3>1, <2>0, <1>h, NginxFrame
    <3>4. ASSUME NEW s \in Services PROVE DivertIsDue(s)'
      <4>1. CASE s = t
        <5>1. services'[s] = "own" => \E e \in Environments : s \in unseen'[e]
          BY <4>1, <3>2, <1>s, DivertAssumption
        <5> QED BY <5>1 DEF DivertIsDue
      <4>2. CASE s # t
        <5>1. services'[s] = services[s]
          BY <4>2, <3>2, <1>s
        <5>2. \A f \in Environments : unseen[f] \subseteq unseen'[f]
          BY <3>2
        <5>3. \A g \in Environments : Pending(g, s) => Pending(g, s)'
          BY <3>1, <2>0 DEF Pending, DivertEnded
        <5> QED BY <5>1, <5>2, <5>3, <3>1, <2>0, <1>w, DueFrame
      <4> QED BY <4>1, <4>2
    <3> QED BY <3>3, <3>4, <1>q
  <2> QED BY <1>5, <2>1, <2>2, <2>3 DEF DivertChange
<1>6. CASE UNCHANGED divertVars
  <2>1. UNCHANGED <<driver, crds, at, op, result, ingress, services, diverts, cache, todo, orphans, unseen, gone, touched>>
    BY <1>6 DEF divertVars, nginxVars
  <2>2. \A e \in Environments : NginxHolds(e)'
    BY <2>1, <1>h, NginxFrame
  <2>3. \A s \in Services : DivertIsDue(s)'
    BY <2>1, <1>w DEF DivertIsDue, Pending, DivertEnded
  <2> QED BY <2>2, <2>3, <1>q
<1> QED
  BY <1>1, <1>2, <1>3, <1>4, <1>5, <1>6 DEF DivertNext

\* No command has started: nothing is diverted, and every service waits for one.
LEMMA DivertStart == DivertInit => DivertIInv
<1> SUFFICES ASSUME DivertInit PROVE DivertIInv
  OBVIOUS
<1>1. PICK e \in Environments : TRUE
  BY DivertAssumption
<1>2. services \in [Services -> Kinds] /\ ingress \in Ingresses
  BY DEF DivertInit, Kinds, NoIngress, Ingresses
<1>3. DivertTypeOK
  <2>1. ObjectTypes
    BY <1>2 DEF DivertInit, ObjectTypes, VirtualServices, Hosts
  <2>2. PlaceTypes
    BY DEF DivertInit, PlaceTypes, DivertPlaces
  <2>3. ReadTypes
    BY <2>1 DEF DivertInit, ReadTypes, ObjectTypes
  <2>4. ListTypes
    BY DEF DivertInit, ListTypes
  <2> QED BY <2>1, <2>2, <2>3, <2>4 DEF DivertTypeOK
<1>4. CacheTypes
  BY <1>2 DEF DivertInit, CacheTypes
<1>5. \A f \in Environments : at[f] = "idle" /\ result[f] = "none"
  BY DEF DivertInit
<1>6. PlacesFit
  BY <1>5 DEF PlacesFit, IstioPlaces, HostPlaces, NginxPlaces, ListedPlaces
<1>7. IstioIInv
  BY <1>5 DEF DivertInit, IstioIInv, NoDivertIsLost, DivertedIsTrue, DivertEnded, UserHostsStay, VsReads, HostReads, VsTries, HostPlaces
<1>8. NginxIInv
  <2>1. OrphansHaveNoService /\ IngressIsDiverted
    BY <1>5 DEF OrphansHaveNoService, IngressIsDiverted, DivertEnded
  <2>2. \A f \in Environments : CacheIsOld(f) /\ OrphansOfCache(f) /\ ServicesDone(f) /\ IngressIsOld(f)
    BY <1>5 DEF CacheIsOld, OrphansOfCache, ServicesDone, IngressIsOld, ListedPlaces, BeforeIngress
  <2>3. \A s \in Services : DivertIsDue(s)
    BY <1>1, <1>5 DEF DivertIsDue, Pending, DivertEnded
  <2> QED BY <2>1, <2>2, <2>3 DEF NginxIInv
<1> QED
  BY <1>3, <1>4, <1>6, <1>7, <1>8 DEF DivertIInv, DivertTypes

\* What commands and users do to the objects of a shared namespace keeps the
\* invariant (pkg/divert), for any number of environments, services, retries,
\* commands and changes.
THEOREM DivertInvariance == DivertSpec => []DivertIInv
<1>1. DivertIInv /\ [DivertNext]_divertVars => DivertIInv'
  BY DivertTypesStep, IstioInvStep, NginxInvStep DEF DivertIInv
<1> QED
  BY <1>1, DivertStart, PTL DEF DivertSpec

\* No annotation of another environment is lost, a command that says so has diverted,
\* the host of the user stays, and the services, the divert resources and the ingress
\* of the nginx driver fit (istio/divert.go, nginx/divert.go).
THEOREM DivertsAlwaysHold == DivertSpec => []DivertsHold
<1>1. DivertIInv => DivertsHold
  <2> SUFFICES ASSUME DivertIInv PROVE DivertsHold
    OBVIOUS
  <2>1. DivertTypeOK /\ NoDivertIsLost /\ DivertedIsTrue /\ UserHostsStay /\ OrphansHaveNoService /\ IngressIsDiverted
    BY DEF DivertIInv, DivertTypes, IstioIInv, NginxIInv
  <2>2. OwnServicesAreDiverted
    <3>1. SUFFICES ASSUME crds, \A e \in Environments : DivertEnded(e, "deploy", "nginx"), NEW s \in Services, services[s] = "own"
                   PROVE  s \in {d[2] : d \in diverts} \/ \E e \in Environments : s \in unseen[e]
      BY DEF OwnServicesAreDiverted
    <3>2. driver = "nginx"
      BY <3>1, DivertAssumption DEF DivertEnded
    <3>3. \A g \in Environments : ~Pending(g, s)
      BY <3>1 DEF Pending, DivertEnded
    <3> QED BY <3>1, <3>2, <3>3 DEF DivertIInv, NginxIInv, DivertIsDue
  <2> QED BY <2>1, <2>2 DEF DivertsHold
<1> QED
  BY <1>1, DivertInvariance, PTL

-----------------------------------------------------------------------------
(* The file of contexts                                                      *)

\* The names of the model are apart from the one that is not given.
LEMMA NamesAreGiven ==
  /\ NoName \notin Names /\ NoName \notin Clusters /\ Clusters \subseteq Names
  /\ NoToken \in Tokens /\ \A c \in Clusters : \A m \in {"old", "new", "given"} : Token(c, m) \in Tokens
  /\ \A t \in Tokens : t # NoToken => t.of \in Clusters
BY DEF NoName, Names, Clusters, Kubernetes, NoToken, Tokens, Token

\* The entries that commands make are entries.
LEMMA EntriesAreEntries ==
  /\ NewEntry \in Entries /\ NoEntry \in Entries /\ ~NoEntry.known /\ NewEntry.known
  /\ NewEntry.token = NoToken /\ NoEntry.token = NoToken /\ ~NewEntry.okteto
  /\ \A t \in Tokens, n \in Spaces \cup {NoName}, u \in {NoName, "u"} : OktetoEntry(t, n, u) \in Entries
BY NamesAreGiven DEF NewEntry, NoEntry, Entries, OktetoEntry

\* A store without contexts.
LEMMA EmptyStore ==
  /\ StoreOf(NoName, NoContexts) \in Stores /\ StoreIsWhole(StoreOf(NoName, NoContexts))
<1>1. NoContexts \in [Names -> Entries]
  BY EntriesAreEntries DEF NoContexts
<1>2. \A c \in Names : NoContexts[c].token = NoToken
  BY EntriesAreEntries DEF NoContexts
<1> QED
  BY <1>1, <1>2 DEF StoreOf, Stores, StoreIsWhole

\* A store of which one entry is replaced.
LEMMA EntryIsReplaced ==
  ASSUME NEW s \in Stores, StoreIsWhole(s), NEW c \in Names, NEW e \in Entries,
         e.token = NoToken \/ e.token.of = c, NEW current \in Names \cup {NoName},
         current = NoName \/ (IF current = c THEN e.known ELSE s.contexts[current].known)
  PROVE  LET t == Put(s, current, c, e)
         IN /\ t \in Stores /\ StoreIsWhole(t)
            /\ t.contexts[c] = e /\ t.current = current
            /\ \A d \in Names \ {c} : t.contexts[d] = s.contexts[d]
<1> DEFINE f == [s.contexts EXCEPT ![c] = e]
<1>1. s.contexts \in [Names -> Entries]
  BY DEF Stores
<1>2. f \in [Names -> Entries] /\ f[c] = e /\ \A d \in Names \ {c} : f[d] = s.contexts[d]
  BY <1>1
<1>3. StoreOf(current, f) \in Stores /\ StoreOf(current, f).contexts = f /\ StoreOf(current, f).current = current
  BY <1>2 DEF StoreOf, Stores
<1> HIDE DEF f
<1>4. StoreIsWhole(StoreOf(current, f))
  BY <1>2, <1>3 DEF StoreIsWhole
<1> QED
  BY <1>2, <1>3, <1>4 DEF f, Put

\* The initial file and memory are whole.
LEMMA InitialStoresAreWhole ==
  ASSUME NEW s \in InitialStores
  PROVE  s \in Stores \cup {Missing} /\ (s.is = "store" => StoreIsWhole(s))
<1>1. ASSUME NEW current \in Names \cup {NoName}, NEW known \in SUBSET Clusters, NEW user \in {NoName, "u"},
             current # NoName => current \in known
      PROVE  KnownStore(current, known, user) \in Stores /\ StoreIsWhole(KnownStore(current, known, user))
  <2> DEFINE f == [c \in Names |-> IF c \in known THEN OktetoEntry(Token(c, "old"), "n", user) ELSE NoEntry]
  <2>1. ASSUME NEW c \in known
        PROVE  /\ OktetoEntry(Token(c, "old"), "n", user) \in Entries
               /\ OktetoEntry(Token(c, "old"), "n", user).token.of = c
               /\ OktetoEntry(Token(c, "old"), "n", user).known
    <3>1. Token(c, "old") \in Tokens /\ Token(c, "old").of = c
      BY DEF Token, Tokens
    <3>2. "n" \in Spaces
      BY ContextsAssumption DEF ContextsAssumption
    <3> QED
      BY <3>1, <3>2, EntriesAreEntries DEF OktetoEntry
  <2>2. f \in [Names -> Entries] /\ \A c \in Names : /\ c \in known => f[c].known
                                                     /\ f[c].token = NoToken \/ f[c].token.of = c
    BY <2>1, EntriesAreEntries
  <2> HIDE DEF f
  <2>3. StoreOf(current, f) \in Stores /\ StoreIsWhole(StoreOf(current, f))
    BY <1>1, <2>2, NamesAreGiven DEF StoreOf, Stores, StoreIsWhole
  <2> QED
    BY <2>3 DEF f, KnownStore
<1>2. Missing.is # "store"
  BY DEF Missing
<1> QED
  BY <1>1, <1>2 DEF InitialStores, Names, Clusters

\* What a step of a command keeps, for the file that it may have written.
Follows(x, y) ==
  /\ y.request = x.request /\ y.context = x.context /\ y.loaded = x.loaded /\ (x.forbidden => y.forbidden)
  /\ y.pc # "start"
  /\ y.pc \in {"end", "done"} /\ y.save => y.memory = x.memory /\ x.pc = "end" /\ x.save
  /\ x.save /\ x.pc \in {"end", "done", "fatal"} => y.save /\ y.pc \in {"end", "done", "fatal"}

Going(x) == x \in CommandStates /\ CommandIsSound(x)

\* A command that ends, in whatever way, is sound.
LEMMA EndedIsSound ==
  ASSUME NEW x \in CommandStates, NEW pc \in {"failed", "fatal", "killed"},
         x.request.kind = "delete" => ~x.save
  PROVE  /\ Going(Ended(x, pc))
         /\ Ended(x, pc).pc = pc
         /\ ~(x.save /\ x.pc \in {"end", "done", "fatal"}) \/ pc = "fatal" => Follows(x, Ended(x, pc))
<1> DEFINE y == Ended(x, pc)
<1>1. /\ y \in CommandStates /\ y.pc = pc /\ y.memory = StoreOf(NoName, NoContexts) /\ y.next = x.next
      /\ y.request = x.request /\ y.context = x.context /\ y.loaded = x.loaded /\ y.forbidden = x.forbidden
      /\ y.save = x.save
  <2>1. 0 \in 0..Retries
    BY ContextsAssumption DEF ContextsAssumption
  <2>2. NoToken \in Tokens /\ StoreOf(NoName, NoContexts) \in Stores /\ pc \in Points /\ NoName \in Spaces \cup {NoName}
    BY EmptyStore, NamesAreGiven DEF Points
  <2> DEFINE tryCount == 0..Retries
  <2> HIDE DEF tryCount
  <2>3. y \in CommandStates
    BY <2>1, <2>2 DEF Ended, CommandStates, tryCount
  <2> QED
    BY <2>3 DEF Ended, CommandStates
<1> HIDE DEF y
<1>2. CommandIsSound(y)
  BY <1>1, EmptyStore DEF CommandIsSound, ChoiceIsCurrent, ClusterIsAsked, UserIsKept, WriteIsCalledFor,
     OthersAreAsRead, ContextIsAsked, ResultIsOwn, HasChosen, HasContext, IsChecked, Writes
<1>3. ~(x.save /\ x.pc \in {"end", "done", "fatal"}) \/ pc = "fatal" => Follows(x, y)
  BY <1>1 DEF Follows
<1> QED
  BY <1>1, <1>2, <1>3 DEF y, Going

\* A command that starts has chosen its context.
LEMMA UseContextIsSound ==
  ASSUME NEW x \in CommandStates, x.request \in AllRequests, x.request.kind # "delete",
         NEW memory \in Stores, StoreIsWhole(memory), NEW c \in Names,
         x.request.token # NoToken => c = x.request.context
  PROVE  Going(UseContext(x, memory, c)) /\ UseContext(x, memory, c).pc \in {"login", "kubernetes"}
<1> DEFINE entry == IF IsKnown(memory, c) THEN memory.contexts[c] ELSE NewEntry
           s == Put(memory, c, c, entry)
           y == UseContext(x, memory, c)
<1>1. /\ entry \in Entries /\ entry.known /\ (entry.token = NoToken \/ entry.token.of = c)
      /\ entry.okteto => IsKnown(memory, c) /\ entry = memory.contexts[c]
  BY EntriesAreEntries DEF Stores, StoreIsWhole, IsKnown
<1>2. /\ s \in Stores /\ StoreIsWhole(s) /\ s.contexts[c] = entry /\ s.current = c
      /\ \A d \in Names \ {c} : s.contexts[d] = memory.contexts[d]
  <2> HIDE DEF entry
  <2> QED
    BY <1>1, EntryIsReplaced
<1>3. TokenOf(x.request, memory, c) \in Tokens
      /\ (TokenOf(x.request, memory, c) = NoToken \/ TokenOf(x.request, memory, c).of = c)
  BY DEF TokenOf, Stores, Entries, AllRequests, StoreIsWhole, IsKnown
<1>4. NamespaceOf(x.request, memory, c) \in Spaces \cup {NoName}
  BY DEF NamespaceOf, Stores, Entries, AllRequests, IsKnown
<1>5. /\ y \in CommandStates /\ y.request = x.request /\ y.pc = (IF c \in Clusters THEN "login" ELSE "kubernetes")
      /\ y.context = c /\ y.okteto = (c \in Clusters) /\ y.token = TokenOf(x.request, memory, c)
      /\ y.memory = s /\ y.loaded = memory
  <2> HIDE DEF s, entry
  <2> DEFINE save == \/ IsCtxCommand(x.request) \/ memory.contexts = NoContexts \/ IsAsked(x.request, memory)
  <2>1. save \in BOOLEAN
    BY DEF IsCtxCommand, IsAsked
  <2>2. y = [x EXCEPT !.pc = IF c \in Clusters THEN "login" ELSE "kubernetes",
                     !.context = c, !.okteto = c \in Clusters, !.token = TokenOf(x.request, memory, c),
                     !.ns = NamespaceOf(x.request, memory, c), !.loaded = memory, !.fresh = TRUE,
                     !.memory = s, !.save = save]
    BY DEF UseContext, s, entry
  <2> DEFINE pc == IF c \in Clusters THEN "login" ELSE "kubernetes"
             okteto == c \in Clusters
             token == TokenOf(x.request, memory, c)
             ns == NamespaceOf(x.request, memory, c)
  <2>3. pc \in Points /\ okteto \in BOOLEAN
    BY DEF Points
  <2>4. y = [x EXCEPT !.pc = pc, !.context = c, !.okteto = okteto, !.token = token, !.ns = ns, !.loaded = memory,
                     !.fresh = TRUE, !.memory = s, !.save = save]
    BY <2>2
  <2> HIDE DEF y, save, pc, okteto, token, ns
  <2>5. y \in CommandStates
    BY ZenonT(60), <1>2, <1>3, <1>4, <2>1, <2>3, <2>4 DEF CommandStates, token, ns
  <2>6. y.request = x.request /\ y.pc = pc /\ y.context = c /\ y.okteto = okteto /\ y.token = token
        /\ y.memory = s /\ y.loaded = memory
    BY <2>4 DEF CommandStates
  <2> QED
    BY <2>5, <2>6 DEF pc, okteto, token
<1>6. CommandIsSound(y)
  <2> HIDE DEF y, s, entry
  <2>1. y.pc \in {"login", "kubernetes"}
    BY <1>5
  <2>2. ChoiceIsCurrent(y)
    BY <1>1, <1>2, <1>3, <1>5 DEF ChoiceIsCurrent, ChosenEntry
  <2>3. UserIsKept(y)
    BY <1>1, <1>2, <1>5, <2>1 DEF UserIsKept, ChosenEntry, Writes, IsKnown
  <2>4. OthersAreAsRead(y)
    BY <1>2, <1>5 DEF OthersAreAsRead
  <2> QED
    BY <1>2, <1>5, <2>1, <2>2, <2>3, <2>4 DEF CommandIsSound, ClusterIsAsked, WriteIsCalledFor, ContextIsAsked,
       ResultIsOwn, HasContext, Writes
<1> QED
  BY <1>5, <1>6 DEF Going

\* A command that deletes a context has only to write.
LEMMA DeleteIsSound ==
  ASSUME NEW x \in CommandStates, x.request \in AllRequests, x.request.kind = "delete", ~x.save,
         NEW memory \in Stores, StoreIsWhole(memory)
  PROVE  Going(Delete(x, memory)) /\ Delete(x, memory).pc \in {"failed", "truncate"}
<1> DEFINE c == x.request.context
           current == IF memory.current = c THEN NoName ELSE memory.current
           s == Put(memory, current, c, NoEntry)
           y == [x EXCEPT !.pc = "truncate", !.next = "done", !.context = c, !.memory = s, !.loaded = memory, !.fresh = TRUE]
<1>1. CASE ~IsKnown(memory, c)
  <2>1. Delete(x, memory) = Ended(x, "failed")
    BY <1>1 DEF Delete, Fail
  <2> QED
    BY <2>1, EndedIsSound
<1>2. CASE IsKnown(memory, c)
  <2>1. c \in Names /\ current \in Names \cup {NoName} /\ current # c
    BY <1>2, NamesAreGiven DEF IsKnown, Stores
  <2>2. current = NoName \/ memory.contexts[current].known
    BY DEF StoreIsWhole
  <2>3. /\ s \in Stores /\ StoreIsWhole(s) /\ \A d \in Names \ {c} : s.contexts[d] = memory.contexts[d]
    <3> HIDE DEF current, c
    <3> QED
      BY <2>1, <2>2, EntryIsReplaced, EntriesAreEntries
  <2>4. Delete(x, memory) = y
    BY <1>2 DEF Delete
  <2>5. /\ y \in CommandStates /\ y.pc = "truncate" /\ y.next = "done" /\ y.context = c /\ y.memory = s
        /\ y.loaded = memory /\ y.request = x.request /\ y.save = x.save
    <3> HIDE DEF s, current
    <3> QED
      BY <2>1, <2>3 DEF CommandStates, Points
  <2>6. CommandIsSound(y)
    <3> HIDE DEF y, s, current, c
    <3> QED
      BY <2>3, <2>5 DEF CommandIsSound, ChoiceIsCurrent, ClusterIsAsked, UserIsKept, WriteIsCalledFor,
         OthersAreAsRead, ContextIsAsked, ResultIsOwn, HasChosen, HasContext, IsChecked, Writes, NoName
  <2> QED
    BY <2>4, <2>5, <2>6 DEF Going
<1> QED
  BY <1>1, <1>2

\* A command that goes on with its context is sound when what its new state depends on
\* is: the rest is as it was.
LEMMA GoesOn ==
  ASSUME NEW x, Going(x), HasChosen(x), NEW y \in CommandStates,
         y.request = x.request, y.context = x.context, y.loaded = x.loaded, y.okteto = x.okteto, y.save = x.save,
         y.pc # "start", y.pc \in {"truncate", "write"} => y.next # "done",
         StoreIsWhole(y.memory), y.memory.current = y.context, ChosenEntry(y).known,
         \A c \in Names \ {y.context} : y.memory.contexts[c] = x.memory.contexts[c],
         y.token = NoToken \/ y.token.of = y.context,
         ClusterIsAsked(y), UserIsKept(y), WriteIsCalledFor(y), ContextIsAsked(y), ResultIsOwn(y)
  PROVE  Going(y)
<1>1. ChoiceIsCurrent(x) /\ OthersAreAsRead(x) /\ (x.request.kind = "delete" => ~x.save)
  BY DEF Going, CommandIsSound
<1>2. ChoiceIsCurrent(y)
  BY <1>1 DEF ChoiceIsCurrent
<1>3. OthersAreAsRead(y)
  BY <1>1 DEF OthersAreAsRead, Writes
<1> QED
  BY <1>1, <1>2, <1>3 DEF Going, CommandIsSound

\* What a command that has chosen knows.
LEMMA WhatIsChosen ==
  ASSUME NEW x, Going(x), HasChosen(x)
  PROVE  /\ x \in CommandStates /\ x.memory \in Stores /\ StoreIsWhole(x.memory)
         /\ x.context \in Names /\ x.memory.current = x.context
         /\ ChosenEntry(x) \in Entries /\ ChosenEntry(x).known
         /\ ChosenEntry(x).token = NoToken \/ ChosenEntry(x).token.of = x.context
         /\ x.okteto <=> x.context \in Clusters
         /\ x.token \in Tokens /\ (x.token = NoToken \/ x.token.of = x.context)
         /\ x.request.kind # "delete"
<1>1. x \in CommandStates /\ StoreIsWhole(x.memory) /\ ChoiceIsCurrent(x)
  BY DEF Going, CommandIsSound
<1>2. x.memory \in Stores /\ x.token \in Tokens
  BY <1>1 DEF CommandStates
<1>3. /\ x.context \in Names /\ x.memory.current = x.context /\ ChosenEntry(x).known
      /\ x.okteto <=> x.context \in Clusters
      /\ x.token = NoToken \/ x.token.of = x.context
      /\ x.request.kind # "delete"
  BY <1>1 DEF ChoiceIsCurrent
<1>4. ChosenEntry(x) \in Entries
  BY <1>2, <1>3 DEF ChosenEntry, Stores
<1>5. ChosenEntry(x).token = NoToken \/ ChosenEntry(x).token.of = x.context
  BY <1>1, <1>3 DEF ChosenEntry, StoreIsWhole
<1> QED
  BY <1>1, <1>2, <1>3, <1>4, <1>5

\* It may replace the entry of its context.
LEMMA ChosenIsReplaced ==
  ASSUME NEW x, Going(x), HasChosen(x), NEW e \in Entries, e.known, e.token = NoToken \/ e.token.of = x.context
  PROVE  /\ PutChosen(x, e) \in Stores /\ StoreIsWhole(PutChosen(x, e))
         /\ PutChosen(x, e).contexts[x.context] = e /\ PutChosen(x, e).current = x.context
         /\ \A d \in Names \ {x.context} : PutChosen(x, e).contexts[d] = x.memory.contexts[d]
<1>1. /\ x.memory \in Stores /\ StoreIsWhole(x.memory) /\ x.context \in Names
  BY WhatIsChosen
<1> DEFINE c == x.context
<1>2. c \in Names \cup {NoName} /\ (c = NoName \/ (IF c = c THEN e.known ELSE x.memory.contexts[c].known))
  BY <1>1
<1>3. PutChosen(x, e) = Put(x.memory, c, c, e)
  BY DEF PutChosen
<1> HIDE DEF c
<1> QED
  BY <1>1, <1>2, <1>3, EntryIsReplaced DEF c

\* A command that has its token asks for its user.
LEMMA LoggedInIsSound ==
  ASSUME NEW x, Going(x), x.pc = "login"
  PROVE  Going(LoggedIn(x)) /\ Follows(x, LoggedIn(x)) /\ LoggedIn(x).pc = "user"
<1> DEFINE token == IF x.token = NoToken THEN Token(x.context, "new") ELSE x.token
           ns == IF x.ns = NoName /\ x.token = NoToken THEN Personal ELSE x.ns
           e == [ChosenEntry(x) EXCEPT !.token = token]
           y == LoggedIn(x)
<1>1. HasChosen(x) /\ x.okteto /\ UserIsKept(x)
  BY DEF HasChosen, Going, CommandIsSound, ClusterIsAsked
<1>c. x \in CommandStates /\ x.context \in Clusters
  BY <1>1, WhatIsChosen
<1>2. token \in Tokens /\ token # NoToken /\ token.of = x.context
  BY <1>1, <1>c, WhatIsChosen, NamesAreGiven DEF Token, NoToken
<1>3. e \in Entries /\ e.known /\ e.token = token /\ e.user = ChosenEntry(x).user /\ e.okteto = ChosenEntry(x).okteto
  <2> HIDE DEF token
  <2> QED
    BY <1>1, <1>2, WhatIsChosen DEF Entries
<1>4. /\ PutChosen(x, e) \in Stores /\ StoreIsWhole(PutChosen(x, e))
      /\ PutChosen(x, e).contexts[x.context] = e /\ PutChosen(x, e).current = x.context
      /\ \A d \in Names \ {x.context} : PutChosen(x, e).contexts[d] = x.memory.contexts[d]
  <2> HIDE DEF e, token
  <2> QED
    BY <1>1, <1>2, <1>3, ChosenIsReplaced
<1>5. /\ y \in CommandStates /\ y.request = x.request /\ y.context = x.context /\ y.loaded = x.loaded
      /\ y.okteto = x.okteto /\ y.save = x.save /\ y.pc = "user" /\ y.token = token /\ y.memory = PutChosen(x, e)
      /\ y.forbidden = x.forbidden
  <2>1. 0 \in 0..Retries
    BY ContextsAssumption DEF ContextsAssumption
  <2>2. ns \in Spaces \cup {NoName}
    BY <1>c, ContextsAssumption DEF CommandStates, ContextsAssumption
  <2> DEFINE tryCount == 0..Retries
  <2>3. y = [x EXCEPT !.pc = "user", !.tries = 0, !.token = token, !.ns = ns, !.memory = PutChosen(x, e)]
    BY <1>c DEF LoggedIn, CommandStates
  <2> HIDE DEF tryCount, y, e, token, ns
  <2>4. y \in CommandStates
    BY <1>2, <1>4, <1>c, <2>1, <2>2, <2>3 DEF CommandStates, Points, tryCount
  <2> QED
    BY <1>c, <2>3, <2>4 DEF CommandStates
<1> HIDE DEF y
<1>6. ChosenEntry(y) = e
  BY <1>4, <1>5 DEF ChosenEntry
<1>7. UserIsKept(y)
  BY <1>1, <1>3, <1>5, <1>6 DEF UserIsKept
<1>8. ClusterIsAsked(y) /\ WriteIsCalledFor(y) /\ ContextIsAsked(y) /\ ResultIsOwn(y)
  BY <1>1, <1>2, <1>5 DEF ClusterIsAsked, WriteIsCalledFor, ContextIsAsked, ResultIsOwn, HasContext, Writes
<1>9. Going(y)
  <2> HIDE DEF e, token
  <2>1. /\ StoreIsWhole(y.memory) /\ y.memory.current = y.context /\ ChosenEntry(y).known
        /\ y.token = NoToken \/ y.token.of = y.context
        /\ \A c \in Names \ {y.context} : y.memory.contexts[c] = x.memory.contexts[c]
    BY <1>2, <1>3, <1>4, <1>5, <1>6
  <2>2. y.pc # "start" /\ (y.pc \in {"truncate", "write"} => y.next # "done")
    BY <1>5
  <2> QED
    BY <1>1, <1>5, <1>7, <1>8, <2>1, <2>2, GoesOn
<1>10. Follows(x, y)
  BY <1>5 DEF Follows
<1> QED
  BY <1>5, <1>9, <1>10 DEF y

\* The same for one that does not change its store in memory.
LEMMA GoesOnWithMemory ==
  ASSUME NEW x, Going(x), HasChosen(x), NEW y \in CommandStates,
         y.request = x.request, y.context = x.context, y.loaded = x.loaded, y.okteto = x.okteto, y.save = x.save,
         y.memory = x.memory, y.token = x.token \/ y.token = NoToken,
         y.pc # "start", y.pc \in {"truncate", "write"} => y.next # "done",
         ClusterIsAsked(y), UserIsKept(y), WriteIsCalledFor(y), ContextIsAsked(y), ResultIsOwn(y)
  PROVE  Going(y)
<1>1. /\ StoreIsWhole(y.memory) /\ y.memory.current = y.context /\ ChosenEntry(y).known
      /\ \A c \in Names \ {y.context} : y.memory.contexts[c] = x.memory.contexts[c]
      /\ y.token = NoToken \/ y.token.of = y.context
  BY WhatIsChosen DEF ChosenEntry
<1> QED
  BY <1>1, GoesOn

\* Where the command of a write with the context it has chosen is.
LEMMA WhereItIs ==
  ASSUME NEW x, Going(x)
  PROVE  /\ x.pc \in {"login", "user", "metadata", "kubernetes", "access", "end"} => HasChosen(x)
         /\ \A n \in {"not logged", "metadata", "end"} : Writes(x, n) => HasChosen(x)
         /\ x.request.kind = "delete" => ~x.save
BY DEF HasChosen, Writes, Going, CommandIsSound

\* A command may log in once more.
LEMMA NotLoggedIsSound ==
  ASSUME NEW x, Going(x), x.pc = "user" \/ Writes(x, "not logged")
  PROVE  /\ Going(NotLogged(x)) /\ Follows(x, NotLogged(x)) /\ NotLogged(x).pc \in {"login", "failed"}
<1> DEFINE y == [x EXCEPT !.pc = "login", !.token = NoToken, !.again = TRUE]
<1>1. HasChosen(x) /\ (x.request.kind = "delete" => ~x.save)
  BY WhereItIs
<1>2. x \in CommandStates /\ x.okteto /\ UserIsKept(x)
  BY DEF Going, CommandIsSound, ClusterIsAsked
<1>3. ~(x.save /\ x.pc \in {"end", "done", "fatal"})
  BY DEF Writes
<1>4. Going(Ended(x, "failed")) /\ Follows(x, Ended(x, "failed")) /\ Ended(x, "failed").pc = "failed"
  BY <1>1, <1>2, <1>3, EndedIsSound
<1>5. /\ y \in CommandStates /\ y.request = x.request /\ y.context = x.context /\ y.loaded = x.loaded
      /\ y.okteto = x.okteto /\ y.save = x.save /\ y.pc = "login" /\ y.token = NoToken /\ y.memory = x.memory
      /\ y.forbidden = x.forbidden
  BY <1>2, NamesAreGiven DEF CommandStates, Points
<1> HIDE DEF y
<1>6. ChosenEntry(y) = ChosenEntry(x)
  BY <1>5 DEF ChosenEntry
<1>7. UserIsKept(y)
  BY <1>2, <1>5, <1>6 DEF UserIsKept
<1>8. ClusterIsAsked(y) /\ WriteIsCalledFor(y) /\ ContextIsAsked(y) /\ ResultIsOwn(y)
  BY <1>2, <1>5 DEF ClusterIsAsked, WriteIsCalledFor, ContextIsAsked, ResultIsOwn, HasContext, Writes
<1>9. Going(y)
  BY <1>1, <1>5, <1>7, <1>8, GoesOnWithMemory
<1>10. Follows(x, y)
  BY <1>3, <1>5 DEF Follows
<1> QED
  BY <1>4, <1>5, <1>9, <1>10 DEF NotLogged, Fail, y

\* A command that knows its user goes on, or writes first.
LEMMA UserIsKnownIsSound ==
  ASSUME NEW x, Going(x), x.pc = "user"
  PROVE  /\ Going(UserIsKnown(x)) /\ Follows(x, UserIsKnown(x)) /\ UserIsKnown(x).pc \in {"truncate", "metadata"}
<1>1. HasChosen(x)
  BY WhereItIs
<1>2. x \in CommandStates /\ x.okteto /\ x.token # NoToken /\ UserIsKept(x)
  BY DEF Going, CommandIsSound, ClusterIsAsked
<1>3. CASE ChosenEntry(x).user = NoName /\ ChosenEntry(x).okteto
  <2> DEFINE e == [ChosenEntry(x) EXCEPT !.user = "u"]
             y == [x EXCEPT !.pc = "truncate", !.next = "metadata", !.memory = PutChosen(x, e)]
  <2>1. e \in Entries /\ e.known /\ (e.token = NoToken \/ e.token.of = x.context)
    BY <1>1, WhatIsChosen DEF Entries
  <2>2. /\ PutChosen(x, e) \in Stores /\ StoreIsWhole(PutChosen(x, e))
        /\ PutChosen(x, e).contexts[x.context] = e /\ PutChosen(x, e).current = x.context
        /\ \A d \in Names \ {x.context} : PutChosen(x, e).contexts[d] = x.memory.contexts[d]
    <3> HIDE DEF e
    <3> QED
      BY <1>1, <2>1, ChosenIsReplaced
  <2>3. UserIsKnown(x) = y
    BY <1>3 DEF UserIsKnown
  <2> HIDE DEF e
  <2>4. /\ y \in CommandStates /\ y.request = x.request /\ y.context = x.context /\ y.loaded = x.loaded
        /\ y.okteto = x.okteto /\ y.save = x.save /\ y.pc = "truncate" /\ y.next = "metadata" /\ y.token = x.token
        /\ y.memory = PutChosen(x, e) /\ y.forbidden = x.forbidden
    BY <1>2, <2>2 DEF CommandStates, Points
  <2> HIDE DEF y
  <2>5. ChosenEntry(y) = e
    BY <2>2, <2>4 DEF ChosenEntry
  <2>6. UserWasUnknown(y)
    BY <1>2, <1>3, <2>4 DEF UserIsKept, UserWasUnknown, IsKnown
  <2>7. UserIsKept(y) /\ ClusterIsAsked(y) /\ ContextIsAsked(y) /\ ResultIsOwn(y)
    BY <1>2, <2>4 DEF UserIsKept, ClusterIsAsked, ContextIsAsked, ResultIsOwn, HasContext, Writes
  <2>8. WriteIsCalledFor(y)
    BY <2>4, <2>6 DEF WriteIsCalledFor, Writes, NoName
  <2>9. Going(y)
    <3>1. /\ StoreIsWhole(y.memory) /\ y.memory.current = y.context /\ ChosenEntry(y).known
          /\ \A c \in Names \ {y.context} : y.memory.contexts[c] = x.memory.contexts[c]
          /\ y.token = NoToken \/ y.token.of = y.context
      BY <1>1, <2>1, <2>2, <2>4, <2>5, WhatIsChosen
    <3>2. y.pc # "start" /\ (y.pc \in {"truncate", "write"} => y.next # "done")
      BY <2>4
    <3> QED
      BY <1>1, <2>4, <2>7, <2>8, <3>1, <3>2, GoesOn
  <2>10. Follows(x, y)
    BY <2>4 DEF Follows
  <2> QED
    BY <2>3, <2>4, <2>9, <2>10
<1>4. CASE ~(ChosenEntry(x).user = NoName /\ ChosenEntry(x).okteto)
  <2> DEFINE y == [x EXCEPT !.pc = "metadata"]
  <2>1. UserIsKnown(x) = y
    BY <1>4 DEF UserIsKnown
  <2>2. /\ y \in CommandStates /\ y.request = x.request /\ y.context = x.context /\ y.loaded = x.loaded
        /\ y.okteto = x.okteto /\ y.save = x.save /\ y.pc = "metadata" /\ y.token = x.token
        /\ y.memory = x.memory /\ y.forbidden = x.forbidden
    BY <1>2 DEF CommandStates, Points
  <2> HIDE DEF y
  <2>3. UserIsKept(y) /\ ClusterIsAsked(y) /\ WriteIsCalledFor(y) /\ ContextIsAsked(y) /\ ResultIsOwn(y)
    BY <1>2, <2>2 DEF UserIsKept, ClusterIsAsked, WriteIsCalledFor, ContextIsAsked, ResultIsOwn, HasContext, Writes
  <2>4. Going(y)
    BY <1>1, <2>2, <2>3, GoesOnWithMemory
  <2>5. Follows(x, y)
    BY <2>2 DEF Follows
  <2> QED
    BY <2>1, <2>2, <2>4, <2>5
<1> QED
  BY <1>3, <1>4

\* Every answer to the request for the user leaves the command sound.
LEMMA AnsweredIsSound ==
  ASSUME NEW x, Going(x), x.pc = "user", NEW reply \in {"ok", "not logged", "forbidden", "refused", "failed"}
  PROVE  Going(Answered(x, reply)) /\ Follows(x, Answered(x, reply)) /\ Answered(x, reply).pc # "write"
<1>1. HasChosen(x) /\ (x.request.kind = "delete" => ~x.save)
  BY WhereItIs
<1>2. x \in CommandStates /\ x.okteto /\ x.token # NoToken /\ UserIsKept(x)
  BY DEF Going, CommandIsSound, ClusterIsAsked
<1>3. Going(Ended(x, "failed")) /\ Follows(x, Ended(x, "failed")) /\ Ended(x, "failed").pc = "failed"
  BY <1>1, <1>2, EndedIsSound
<1>4. CASE reply = "ok"
  <2>1. Answered(x, reply) = UserIsKnown(x)
    BY <1>4 DEF Answered
  <2> QED
    BY <2>1, UserIsKnownIsSound
<1>5. CASE reply = "not logged"
  <2>1. Answered(x, reply) = NotLogged(x)
    BY <1>5 DEF Answered
  <2> QED
    BY <2>1, NotLoggedIsSound
<1>6. CASE reply = "refused"
  <2>1. Answered(x, reply) = Ended(x, "failed")
    BY <1>6 DEF Answered, Fail
  <2> QED
    BY <1>3, <2>1
<1>7. CASE reply = "forbidden"
  <2> DEFINE y == [x EXCEPT !.pc = "truncate", !.next = "not logged", !.forbidden = TRUE]
  <2>1. Answered(x, reply) = y
    BY <1>7 DEF Answered
  <2>2. /\ y \in CommandStates /\ y.request = x.request /\ y.context = x.context /\ y.loaded = x.loaded
        /\ y.okteto = x.okteto /\ y.save = x.save /\ y.pc = "truncate" /\ y.next = "not logged"
        /\ y.token = x.token /\ y.memory = x.memory /\ y.forbidden
    BY <1>2 DEF CommandStates, Points
  <2> HIDE DEF y
  <2>3. ClusterIsAsked(y) /\ ContextIsAsked(y) /\ ResultIsOwn(y)
    BY <1>2, <2>2 DEF ClusterIsAsked, ContextIsAsked, ResultIsOwn, HasContext, Writes
  <2>4. UserIsKept(y) /\ WriteIsCalledFor(y)
    BY <1>2, <2>2 DEF UserIsKept, ChosenEntry, WriteIsCalledFor, Writes, NoName
  <2>5. Going(y)
    BY <1>1, <2>2, <2>3, <2>4, GoesOnWithMemory
  <2>6. Follows(x, y)
    BY <2>2 DEF Follows
  <2> QED
    BY <2>1, <2>2, <2>5, <2>6
<1>8. CASE reply = "failed" /\ x.tries < Retries
  <2> DEFINE y == [x EXCEPT !.tries = @ + 1]
  <2>1. Answered(x, reply) = y
    BY <1>8 DEF Answered
  <2>t. x.tries + 1 \in 0..Retries
    <3>1. x.tries \in 0..Retries
      BY <1>2 DEF CommandStates
    <3> QED
      BY <1>8, <3>1, ContextsAssumption DEF ContextsAssumption
  <2>2. /\ y \in CommandStates /\ y.request = x.request /\ y.context = x.context /\ y.loaded = x.loaded
        /\ y.okteto = x.okteto /\ y.save = x.save /\ y.pc = "user"
        /\ y.token = x.token /\ y.memory = x.memory /\ y.forbidden = x.forbidden
    <3> DEFINE tryCount == 0..Retries
               n == x.tries + 1
    <3> HIDE DEF tryCount, n
    <3>1. y = [x EXCEPT !.tries = n] /\ n \in tryCount
      BY <1>2, <2>t DEF CommandStates, tryCount, n
    <3> HIDE DEF y
    <3> QED
      BY <1>2, <3>1 DEF CommandStates, tryCount
  <2> HIDE DEF y
  <2>3. ClusterIsAsked(y) /\ ContextIsAsked(y) /\ ResultIsOwn(y) /\ UserIsKept(y) /\ WriteIsCalledFor(y)
    BY <1>2, <2>2 DEF ClusterIsAsked, ContextIsAsked, ResultIsOwn, HasContext, Writes, UserIsKept, ChosenEntry, WriteIsCalledFor
  <2>5. Going(y)
    BY <1>1, <2>2, <2>3, GoesOnWithMemory
  <2>6. Follows(x, y)
    BY <2>2 DEF Follows
  <2> QED
    BY <2>1, <2>2, <2>5, <2>6
<1>9. CASE reply = "failed" /\ ~(x.tries < Retries)
  <2>1. Answered(x, reply) = Ended(x, "failed")
    BY <1>9 DEF Answered, Fail
  <2> QED
    BY <1>3, <2>1
<1> QED
  BY <1>4, <1>5, <1>6, <1>7, <1>8, <1>9

\* A command that has put what it asked for into memory.
LEMMA ContextIsPut ==
  ASSUME NEW x, Going(x), x.pc \in {"metadata", "kubernetes"}, NEW ns \in Spaces \cup {NoName},
         NEW e \in Entries, e.known, e.ns = ns, e.token = (IF x.okteto THEN x.token ELSE NoToken),
         NEW pc \in {"access", "end"}, pc = "access" <=> x.save, NEW y \in CommandStates,
         y.request = x.request, y.context = x.context, y.loaded = x.loaded, y.okteto = x.okteto, y.save = x.save,
         y.pc = pc, y.token = x.token, y.ns = ns, y.memory = PutChosen(x, e), y.forbidden = x.forbidden
  PROVE  Going(y) /\ Follows(x, y) /\ y.pc \in {"access", "end"}
<1>1. HasChosen(x)
  BY WhereItIs
<1>2. x \in CommandStates /\ (x.pc = "metadata" => x.okteto /\ x.token # NoToken) /\ (x.pc = "kubernetes" => ~x.okteto)
  BY DEF Going, CommandIsSound, ClusterIsAsked
<1>3. e.token = NoToken \/ e.token.of = x.context
  BY <1>1, WhatIsChosen
<1>4. /\ PutChosen(x, e) \in Stores /\ StoreIsWhole(PutChosen(x, e))
      /\ PutChosen(x, e).contexts[x.context] = e /\ PutChosen(x, e).current = x.context
      /\ \A d \in Names \ {x.context} : PutChosen(x, e).contexts[d] = x.memory.contexts[d]
  BY <1>1, <1>3, ChosenIsReplaced
<1>7. ChosenEntry(y) = e
  BY <1>4 DEF ChosenEntry
<1>8. ClusterIsAsked(y) /\ UserIsKept(y) /\ WriteIsCalledFor(y) /\ ResultIsOwn(y)
  BY DEF ClusterIsAsked, UserIsKept, WriteIsCalledFor, ResultIsOwn, Writes
<1>9. ContextIsAsked(y)
  BY <1>2, <1>7 DEF ContextIsAsked, IsChecked
<1>10. Going(y)
  <2>1. /\ StoreIsWhole(y.memory) /\ y.memory.current = y.context /\ ChosenEntry(y).known
        /\ \A c \in Names \ {y.context} : y.memory.contexts[c] = x.memory.contexts[c]
    BY <1>4, <1>7
  <2>2. y.token = NoToken \/ y.token.of = y.context
    BY <1>1, WhatIsChosen
  <2>3. y.pc # "start" /\ (y.pc \in {"truncate", "write"} => y.next # "done")
    OBVIOUS
  <2> QED
    BY <1>1, <1>8, <1>9, <2>1, <2>2, <2>3, GoesOn
<1>11. Follows(x, y)
  BY DEF Follows
<1> QED
  BY <1>10, <1>11

\* The context of a cluster.
LEMMA OktetoContextIsAdded ==
  ASSUME NEW x, Going(x), x.pc = "metadata"
  PROVE  Going(AddOktetoContext(x)) /\ Follows(x, AddOktetoContext(x)) /\ AddOktetoContext(x).pc \in {"access", "end"}
<1> DEFINE ns == IF x.ns = NoName THEN Personal ELSE x.ns
           e == OktetoEntry(x.token, ns, "u")
<1>1. x \in CommandStates /\ x.okteto = TRUE
  BY DEF Going, CommandIsSound, ClusterIsAsked, CommandStates
<1>2. x.ns \in Spaces \cup {NoName} /\ x.token \in Tokens
  BY <1>1 DEF CommandStates
<1>3. ns \in Spaces \cup {NoName}
  BY <1>2, ContextsAssumption DEF ContextsAssumption
<1>4. e \in Entries /\ e.known /\ e.ns = ns /\ e.token = x.token
  BY <1>2, <1>3, EntriesAreEntries DEF OktetoEntry
<1> DEFINE pc == IF x.save THEN "access" ELSE "end"
           y == AddOktetoContext(x)
<1>5. y = [x EXCEPT !.pc = pc, !.ns = ns, !.memory = PutChosen(x, e)]
  BY DEF AddOktetoContext
<1>6. pc \in Points /\ pc \in {"access", "end"} /\ (pc = "access" <=> x.save)
  BY <1>1 DEF Points, CommandStates
<1> HIDE DEF ns, e, pc, y
<1>7. PutChosen(x, e) \in Stores
  <2>1. HasChosen(x)
    BY WhereItIs
  <2>2. e.token = NoToken \/ e.token.of = x.context
    BY <1>4, <2>1, WhatIsChosen
  <2> QED
    BY <1>4, <2>1, <2>2, ChosenIsReplaced
<1>8. /\ y \in CommandStates /\ y.request = x.request /\ y.context = x.context /\ y.loaded = x.loaded
      /\ y.okteto = x.okteto /\ y.save = x.save /\ y.pc = pc /\ y.token = x.token /\ y.ns = ns
      /\ y.memory = PutChosen(x, e) /\ y.forbidden = x.forbidden
  BY <1>1, <1>3, <1>5, <1>6, <1>7 DEF CommandStates
<1>9. e.token = (IF x.okteto THEN x.token ELSE NoToken)
  BY <1>1, <1>4
<1>10. Going(y) /\ Follows(x, y) /\ y.pc \in {"access", "end"}
  BY <1>3, <1>4, <1>6, <1>8, <1>9, ContextIsPut
<1> QED
  BY <1>10 DEF y

\* A context of the kubeconfig.
LEMMA KubernetesContextIsAdded ==
  ASSUME NEW x, Going(x), x.pc = "kubernetes"
  PROVE  Going(AddKubernetesContext(x)) /\ Follows(x, AddKubernetesContext(x)) /\ AddKubernetesContext(x).pc \in {"access", "end"}
<1> DEFINE ns == IF x.ns = NoName THEN "default" ELSE x.ns
           e == [NewEntry EXCEPT !.ns = ns]
<1>1. x \in CommandStates /\ x.okteto = FALSE
  BY DEF Going, CommandIsSound, ClusterIsAsked, CommandStates
<1>2. x.ns \in Spaces \cup {NoName} /\ x.token \in Tokens
  BY <1>1 DEF CommandStates
<1>3. ns \in Spaces \cup {NoName}
  BY <1>2, ContextsAssumption DEF ContextsAssumption
<1>4. e \in Entries /\ e.known /\ e.ns = ns /\ e.token = NoToken
  BY <1>2, <1>3, EntriesAreEntries DEF Entries
<1> DEFINE pc == IF x.save THEN "access" ELSE "end"
           y == AddKubernetesContext(x)
<1>5. y = [x EXCEPT !.pc = pc, !.ns = ns, !.memory = PutChosen(x, e)]
  BY DEF AddKubernetesContext
<1>6. pc \in Points /\ pc \in {"access", "end"} /\ (pc = "access" <=> x.save)
  BY <1>1 DEF Points, CommandStates
<1> HIDE DEF ns, e, pc, y
<1>7. PutChosen(x, e) \in Stores
  <2>1. HasChosen(x)
    BY WhereItIs
  <2>2. e.token = NoToken \/ e.token.of = x.context
    BY <1>4, <2>1, WhatIsChosen
  <2> QED
    BY <1>4, <2>1, <2>2, ChosenIsReplaced
<1>8. /\ y \in CommandStates /\ y.request = x.request /\ y.context = x.context /\ y.loaded = x.loaded
      /\ y.okteto = x.okteto /\ y.save = x.save /\ y.pc = pc /\ y.token = x.token /\ y.ns = ns
      /\ y.memory = PutChosen(x, e) /\ y.forbidden = x.forbidden
  BY <1>1, <1>3, <1>5, <1>6, <1>7 DEF CommandStates
<1>9. e.token = (IF x.okteto THEN x.token ELSE NoToken)
  BY <1>1, <1>4
<1>10. Going(y) /\ Follows(x, y) /\ y.pc \in {"access", "end"}
  BY <1>3, <1>4, <1>6, <1>8, <1>9, ContextIsPut
<1> QED
  BY <1>10 DEF y

\* A choice that is to be saved has a namespace that can be reached.
LEMMA SaveIsSound ==
  ASSUME NEW x, Going(x), x.pc = "access"
  PROVE  Going(Save(x)) /\ Follows(x, Save(x)) /\ Save(x).pc \in {"failed", "truncate"}
<1>1. HasChosen(x) /\ (x.request.kind = "delete" => ~x.save)
  BY WhereItIs
<1>2. x \in CommandStates /\ x.save /\ ContextIsAsked(x)
  BY DEF Going, CommandIsSound, WriteIsCalledFor
<1>3. /\ ChosenEntry(x).ns = x.ns
      /\ x.okteto => x.token # NoToken /\ ChosenEntry(x).token = x.token
  BY <1>2 DEF ContextIsAsked, HasContext, IsChecked
<1>4. CASE x.ns \in AllowedSpaces \cup {Personal}
  <2> DEFINE y == [x EXCEPT !.pc = "truncate", !.next = "end"]
  <2>1. Save(x) = y
    BY <1>4 DEF Save
  <2>2. /\ y \in CommandStates /\ y.request = x.request /\ y.context = x.context /\ y.loaded = x.loaded
        /\ y.okteto = x.okteto /\ y.save = x.save /\ y.pc = "truncate" /\ y.next = "end" /\ y.token = x.token
        /\ y.ns = x.ns /\ y.memory = x.memory /\ y.forbidden = x.forbidden
    BY <1>2 DEF CommandStates, Points
  <2> HIDE DEF y
  <2>3. ClusterIsAsked(y) /\ UserIsKept(y) /\ WriteIsCalledFor(y) /\ ResultIsOwn(y)
    BY <1>2, <2>2 DEF ClusterIsAsked, UserIsKept, WriteIsCalledFor, ResultIsOwn, Writes, NoName
  <2>4. ContextIsAsked(y)
    BY <1>3, <1>4, <2>2 DEF ContextIsAsked, ChosenEntry
  <2>5. Going(y)
    BY <1>1, <2>2, <2>3, <2>4, GoesOnWithMemory
  <2>6. Follows(x, y)
    BY <2>2 DEF Follows
  <2> QED
    BY <2>1, <2>2, <2>5, <2>6
<1>5. CASE x.ns \notin AllowedSpaces \cup {Personal} /\ (x.request.kind = "namespace" \/ ~x.okteto)
  <2>1. Save(x) = Ended(x, "failed")
    BY <1>5 DEF Save, Fail
  <2> QED
    BY <1>1, <1>2, <2>1, EndedIsSound
<1>6. CASE x.ns \notin AllowedSpaces \cup {Personal} /\ ~(x.request.kind = "namespace" \/ ~x.okteto)
  <2> DEFINE e == [ChosenEntry(x) EXCEPT !.ns = Personal]
             y == [x EXCEPT !.pc = "truncate", !.next = "end", !.memory = PutChosen(x, e)]
  <2>1. Personal \in Spaces
    BY ContextsAssumption DEF ContextsAssumption
  <2>2. e \in Entries /\ e.known /\ e.ns = Personal /\ e.token = ChosenEntry(x).token
    BY <1>1, <2>1, WhatIsChosen DEF Entries
  <2>3. Save(x) = y
    BY <1>6 DEF Save
  <2> HIDE DEF e
  <2>4. /\ PutChosen(x, e) \in Stores /\ StoreIsWhole(PutChosen(x, e))
        /\ PutChosen(x, e).contexts[x.context] = e /\ PutChosen(x, e).current = x.context
        /\ \A d \in Names \ {x.context} : PutChosen(x, e).contexts[d] = x.memory.contexts[d]
    BY <1>1, <2>2, ChosenIsReplaced, WhatIsChosen
  <2>5. /\ y \in CommandStates /\ y.request = x.request /\ y.context = x.context /\ y.loaded = x.loaded
        /\ y.okteto = x.okteto /\ y.save = x.save /\ y.pc = "truncate" /\ y.next = "end" /\ y.token = x.token
        /\ y.ns = x.ns /\ y.memory = PutChosen(x, e) /\ y.forbidden = x.forbidden
    BY <1>2, <2>4 DEF CommandStates, Points
  <2> HIDE DEF y
  <2>6. ChosenEntry(y) = e
    BY <2>4, <2>5 DEF ChosenEntry
  <2>7. ClusterIsAsked(y) /\ UserIsKept(y) /\ WriteIsCalledFor(y) /\ ResultIsOwn(y)
    BY <1>2, <2>5 DEF ClusterIsAsked, UserIsKept, WriteIsCalledFor, ResultIsOwn, Writes, NoName
  <2>8. ContextIsAsked(y)
    BY <1>2, <1>3, <2>2, <2>5, <2>6 DEF ContextIsAsked, IsChecked, HasContext, Writes
  <2>9. Going(y)
    <3>1. /\ StoreIsWhole(y.memory) /\ y.memory.current = y.context /\ ChosenEntry(y).known
          /\ \A c \in Names \ {y.context} : y.memory.contexts[c] = x.memory.contexts[c]
          /\ y.token = NoToken \/ y.token.of = y.context
      BY <1>1, <2>2, <2>4, <2>5, <2>6, WhatIsChosen
    <3>2. y.pc # "start" /\ (y.pc \in {"truncate", "write"} => y.next # "done")
      BY <2>5
    <3> QED
      BY <1>1, <2>5, <2>7, <2>8, <3>1, <3>2, GoesOn
  <2>10. Follows(x, y)
    BY <2>5 DEF Follows
  <2> QED
    BY <2>3, <2>5, <2>9, <2>10
<1> QED
  BY <1>4, <1>5, <1>6

\* A command whose turn it is to write, and one that has written.
LEMMA WritingIsSound ==
  ASSUME NEW x, Going(x), x.pc = "truncate"
  PROVE  LET y == [x EXCEPT !.pc = "write"]
         IN Going(y) /\ Follows(x, y) /\ y.pc = "write"
<1> DEFINE y == [x EXCEPT !.pc = "write"]
<1>1. x \in CommandStates /\ CommandIsSound(x)
  BY DEF Going
<1>2. /\ y \in CommandStates /\ y.request = x.request /\ y.context = x.context /\ y.loaded = x.loaded
      /\ y.okteto = x.okteto /\ y.save = x.save /\ y.pc = "write" /\ y.next = x.next /\ y.token = x.token
      /\ y.ns = x.ns /\ y.memory = x.memory /\ y.forbidden = x.forbidden
  BY <1>1 DEF CommandStates, Points
<1> HIDE DEF y
<1>3. (\A n : Writes(y, n) <=> Writes(x, n)) /\ (HasChosen(y) <=> HasChosen(x)) /\ ChosenEntry(y) = ChosenEntry(x)
  BY <1>2 DEF Writes, HasChosen, ChosenEntry
<1>4. (HasContext(y) <=> HasContext(x)) /\ (IsChecked(y) <=> IsChecked(x)) /\ (UserWasUnknown(y) <=> UserWasUnknown(x))
  BY <1>2, <1>3 DEF HasContext, IsChecked, UserWasUnknown
<1>5. ChoiceIsCurrent(y) /\ ClusterIsAsked(y) /\ UserIsKept(y)
  BY <1>1, <1>2, <1>3 DEF CommandIsSound, ChoiceIsCurrent, ClusterIsAsked, UserIsKept
<1>6. WriteIsCalledFor(y) /\ OthersAreAsRead(y) /\ ContextIsAsked(y) /\ ResultIsOwn(y)
  BY <1>1, <1>2, <1>3, <1>4 DEF CommandIsSound, WriteIsCalledFor, OthersAreAsRead, ContextIsAsked, ResultIsOwn
<1>7. CommandIsSound(y)
  BY <1>1, <1>2, <1>5, <1>6 DEF CommandIsSound
<1> QED
  BY <1>2, <1>7 DEF Going, Follows, y

\* One that has written goes on where the write was called for.
LEMMA WrittenIsSound ==
  ASSUME NEW x, Going(x), x.pc = "write", x.next \in {"metadata", "end", "done"}
  PROVE  LET y == [x EXCEPT !.pc = x.next]
         IN /\ Going(y) /\ y.pc = x.next /\ y.memory = x.memory
            /\ y.request = x.request /\ y.context = x.context /\ y.loaded = x.loaded
            /\ y.forbidden = x.forbidden /\ y.save = x.save
<1> DEFINE y == [x EXCEPT !.pc = x.next]
<1>1. x \in CommandStates /\ CommandIsSound(x)
  BY DEF Going
<1>2. x.next \in Points
  BY DEF Points
<1>3. /\ y \in CommandStates /\ y.request = x.request /\ y.context = x.context /\ y.loaded = x.loaded
      /\ y.okteto = x.okteto /\ y.save = x.save /\ y.pc = x.next /\ y.next = x.next /\ y.token = x.token
      /\ y.ns = x.ns /\ y.memory = x.memory /\ y.forbidden = x.forbidden
  BY <1>1, <1>2 DEF CommandStates
<1> HIDE DEF y
<1>4. CASE x.next = "done"
  <2>1. x.request.kind = "delete" /\ ~x.save
    BY <1>1, <1>4 DEF CommandIsSound, WriteIsCalledFor, Writes
  <2>2. CommandIsSound(y)
    BY <1>1, <1>3, <1>4, <2>1 DEF CommandIsSound, ChoiceIsCurrent, ClusterIsAsked, UserIsKept, WriteIsCalledFor,
       OthersAreAsRead, ContextIsAsked, ResultIsOwn, HasChosen, HasContext, Writes
  <2> QED
    BY <1>3, <2>2 DEF Going, y
<1>5. CASE x.next = "metadata"
  <2>1. HasChosen(x) /\ x.okteto /\ x.token # NoToken
    BY <1>1, <1>5 DEF CommandIsSound, ClusterIsAsked, HasChosen, Writes
  <2>2. ClusterIsAsked(y) /\ UserIsKept(y) /\ WriteIsCalledFor(y) /\ ContextIsAsked(y) /\ ResultIsOwn(y)
    BY <1>3, <1>5, <2>1 DEF ClusterIsAsked, UserIsKept, WriteIsCalledFor, ContextIsAsked, ResultIsOwn, HasContext, Writes
  <2>3. Going(y)
    BY <1>3, <1>5, <2>1, <2>2, GoesOnWithMemory
  <2> QED
    BY <1>3, <2>3 DEF y
<1>6. CASE x.next = "end"
  <2>1. HasChosen(x) /\ HasContext(x) /\ IsChecked(x) /\ ContextIsAsked(x)
    BY <1>1, <1>6 DEF CommandIsSound, WriteIsCalledFor, HasChosen, HasContext, IsChecked, Writes
  <2>2. ClusterIsAsked(y) /\ UserIsKept(y) /\ WriteIsCalledFor(y) /\ ResultIsOwn(y)
    BY <1>3, <1>6 DEF ClusterIsAsked, UserIsKept, WriteIsCalledFor, ResultIsOwn, Writes
  <2>3. ContextIsAsked(y)
    BY <1>3, <1>6, <2>1 DEF ContextIsAsked, IsChecked, HasContext, ChosenEntry
  <2>4. Going(y)
    BY <1>3, <1>6, <2>1, <2>2, <2>3, GoesOnWithMemory
  <2> QED
    BY <1>3, <2>4 DEF y
<1> QED
  BY <1>4, <1>5, <1>6

\* A command that is done, with what it has read again if it is stateless.
LEMMA DoneIsSound ==
  ASSUME NEW x, Going(x), x.pc = "end", NEW y \in CommandStates,
         y.request = x.request, y.context = x.context, y.loaded = x.loaded, y.okteto = x.okteto, y.save = x.save,
         y.pc = "done", y.token = x.token, y.ns = x.ns, y.memory = x.memory, y.forbidden = x.forbidden,
         y.result = (IF x.request.kind = "stateless" THEN ResultOf(x) ELSE x.result)
  PROVE  Going(y) /\ Follows(x, y)
<1>1. HasChosen(x) /\ HasContext(x) /\ ContextIsAsked(x)
  BY DEF HasChosen, HasContext, Going, CommandIsSound
<1>2. ClusterIsAsked(y) /\ UserIsKept(y) /\ WriteIsCalledFor(y) /\ ResultIsOwn(y)
  BY DEF ClusterIsAsked, UserIsKept, WriteIsCalledFor, ResultIsOwn, Writes, ResultOf, ChosenEntry
<1>3. ContextIsAsked(y)
  BY <1>1 DEF ContextIsAsked, IsChecked, HasContext, ChosenEntry
<1>4. Going(y)
  BY <1>1, <1>2, <1>3, GoesOnWithMemory
<1>5. Follows(x, y)
  BY DEF Follows
<1> QED
  BY <1>4, <1>5

\* What another command does to the file makes no difference to a command.
LEMMA OutdatedIsSound ==
  ASSUME NEW x, Going(x)
  PROVE  LET y == [x EXCEPT !.fresh = FALSE]
         IN /\ Going(y) /\ y.pc = x.pc /\ y.memory = x.memory
            /\ y.request = x.request /\ y.context = x.context /\ y.loaded = x.loaded
            /\ y.forbidden = x.forbidden /\ y.save = x.save
<1> DEFINE y == [x EXCEPT !.fresh = FALSE]
<1>1. x \in CommandStates /\ CommandIsSound(x)
  BY DEF Going
<1>2. /\ y \in CommandStates /\ y.request = x.request /\ y.context = x.context /\ y.loaded = x.loaded
      /\ y.okteto = x.okteto /\ y.save = x.save /\ y.pc = x.pc /\ y.next = x.next /\ y.token = x.token
      /\ y.ns = x.ns /\ y.memory = x.memory /\ y.forbidden = x.forbidden /\ y.result = x.result
  BY <1>1 DEF CommandStates
<1> HIDE DEF y
<1>3. (\A n : Writes(y, n) <=> Writes(x, n)) /\ (HasChosen(y) <=> HasChosen(x)) /\ ChosenEntry(y) = ChosenEntry(x)
  BY <1>2 DEF Writes, HasChosen, ChosenEntry
<1>4. /\ HasContext(y) <=> HasContext(x)
      /\ IsChecked(y) <=> IsChecked(x)
      /\ UserWasUnknown(y) <=> UserWasUnknown(x)
      /\ ResultOf(y) = ResultOf(x)
  BY <1>2, <1>3 DEF HasContext, IsChecked, UserWasUnknown, ResultOf
<1>5. ChoiceIsCurrent(y) /\ ClusterIsAsked(y) /\ UserIsKept(y)
  BY <1>1, <1>2, <1>3 DEF CommandIsSound, ChoiceIsCurrent, ClusterIsAsked, UserIsKept
<1>6. WriteIsCalledFor(y) /\ OthersAreAsRead(y) /\ ContextIsAsked(y) /\ ResultIsOwn(y)
  BY <1>1, <1>2, <1>3, <1>4 DEF CommandIsSound, WriteIsCalledFor, OthersAreAsRead, ContextIsAsked, ResultIsOwn
<1>7. CommandIsSound(y)
  BY <1>1, <1>2, <1>5, <1>6 DEF CommandIsSound
<1> QED
  BY <1>2, <1>7 DEF Going, y

\* The state changes in one command only, which did not write the file.
LEMMA OneCommandMoves ==
  ASSUME ContextsIInv, NEW p \in Commands, NEW y, Going(y), commands' = [commands EXCEPT ![p] = y],
         UNCHANGED <<store, writer>>, kills' \in 0..MaxKills,
         (commands[p].pc = "start" /\ y.pc # "start") \/ Follows(commands[p], y),
         commands[p].pc \in {"write", "killed"} => y.pc \in {"write", "killed"}
  PROVE  ContextsIInv'
<1>1. ContextsTypeOK /\ (store.is = "store" => StoreIsWhole(store)) /\ WriterIsEntitled /\ EmptyOnlyWhileWritten
      /\ \A q \in Commands : CommandIsSound(commands[q])
  BY DEF ContextsIInv
<1>2. y \in CommandStates /\ CommandIsSound(y)
  BY DEF Going
<1>3. \A q \in Commands : commands'[q] = (IF q = p THEN y ELSE commands[q])
  BY <1>1 DEF ContextsTypeOK
<1>4. ContextsTypeOK'
  BY <1>1, <1>2 DEF ContextsTypeOK
<1>5. (store.is = "store" => StoreIsWhole(store))'
  BY <1>1 DEF StoreIsWhole
<1>6. \A q \in Commands : CommandIsSound(commands[q])'
  BY <1>1, <1>2, <1>3
<1>7. EmptyOnlyWhileWritten'
  BY <1>1, <1>3 DEF EmptyOnlyWhileWritten
<1>8. WriterIsEntitled'
  <2> SUFFICES ASSUME NEW q \in Commands, writer = q
               PROVE  /\ commands'[q].pc # "start"
                      /\ \/ commands'[q].request.kind = "delete" \/ commands'[q].forbidden \/ UserWasUnknown(commands'[q])
                         \/ commands'[q].save /\ commands'[q].pc \in {"end", "done", "fatal"}
                      /\ commands'[q].pc \in {"end", "done"} /\ commands'[q].save /\ store.is = "store" =>
                           store = commands'[q].memory
    BY DEF WriterIsEntitled, UserWasUnknown, IsKnown
  <2>1. /\ commands[q].pc # "start"
        /\ \/ commands[q].request.kind = "delete" \/ commands[q].forbidden \/ UserWasUnknown(commands[q])
           \/ commands[q].save /\ commands[q].pc \in {"end", "done", "fatal"}
        /\ commands[q].pc \in {"end", "done"} /\ commands[q].save /\ store.is = "store" => store = commands[q].memory
    BY <1>1 DEF WriterIsEntitled
  <2>2. CASE q # p
    <3>1. commands'[q] = commands[q]
      BY <1>3, <2>2
    <3> QED
      BY <2>1, <3>1
  <2>3. CASE q = p
    <3>1. Follows(commands[q], y) /\ commands'[q] = y
      BY <1>3, <2>1, <2>3
    <3>2. UserWasUnknown(commands[q]) => UserWasUnknown(y)
      BY <3>1 DEF Follows, UserWasUnknown
    <3> QED
      BY <2>1, <3>1, <3>2 DEF Follows
  <2> QED
    BY <2>2, <2>3
<1> QED
  BY <1>4, <1>5, <1>6, <1>7, <1>8 DEF ContextsIInv

\* What may be asked for is a context that the model has, and the one of a token that
\* is given.
LEMMA AskedIsAName ==
  ASSUME NEW request \in AllRequests, NEW memory \in Stores,
         request.kind = "namespace" => memory.current # NoName,
         NEW asked \in AskedContexts(request, memory), NEW c \in K8sContextToOktetoUrl(memory, asked)
  PROVE  c \in Names /\ (request.token # NoToken => c = request.context)
<1>1. request.context \in Names \cup {NoName} /\ memory.current \in Names \cup {NoName} /\ request.token \in Tokens
      /\ (request.token # NoToken => request.token.of = request.context)
  BY DEF AllRequests, Stores
<1>2. asked \in Names /\ (request.context # NoName => asked = request.context)
  <2>1. CASE request.context # NoName
    BY <1>1, <2>1 DEF AskedContexts
  <2>2. CASE request.context = NoName
    BY <1>1, <2>2 DEF AskedContexts, Names, Kubernetes
  <2> QED
    BY <2>1, <2>2
<1>3. c \in Names /\ (asked \in Clusters => c = asked)
  BY <1>2 DEF K8sContextToOktetoUrl, Names, Clusters, Kubernetes
<1>4. request.token # NoToken => request.context \in Clusters
  BY <1>1, NamesAreGiven
<1>5. NoName \notin Clusters
  BY NamesAreGiven
<1> QED
  BY <1>2, <1>3, <1>4, <1>5

\* A command starts from a whole file, or ends.
LEMMA StartKeeps ==
  ASSUME ContextsIInv, NEW p \in Commands, Start(p)
  PROVE  ContextsIInv'
<1> PICK request \in Requests[p] :
       LET command == [commands[p] EXCEPT !.request = request]
           memory == IF store = Missing THEN StoreOf(NoName, NoContexts) ELSE store
       IN IF store = Truncated THEN commands' = [commands EXCEPT ![p] = Fatal(command)]
          ELSE IF request.kind = "delete" THEN commands' = [commands EXCEPT ![p] = Delete(command, memory)]
          ELSE IF request.kind = "namespace" /\ (memory.current = NoName \/ ~memory.contexts[memory.current].okteto)
          THEN commands' = [commands EXCEPT ![p] = Fatal(command)]
          ELSE \E asked \in AskedContexts(request, memory) : \E c \in K8sContextToOktetoUrl(memory, asked) :
                 commands' = [commands EXCEPT ![p] = UseContext(command, memory, c)]
  BY DEF Start
<1> DEFINE x == [commands[p] EXCEPT !.request = request]
           memory == IF store = Missing THEN StoreOf(NoName, NoContexts) ELSE store
<1>0. /\ commands[p].pc = "start" /\ UNCHANGED <<store, writer>> /\ kills' \in 0..MaxKills
      /\ commands \in [Commands -> CommandStates] /\ store \in Stores \cup {Missing, Truncated}
      /\ (store.is = "store" => StoreIsWhole(store)) /\ ~commands[p].save
  BY DEF Start, ContextsIInv, ContextsTypeOK, CommandIsSound
<1>1. request \in AllRequests
  BY ContextsAssumption DEF ContextsAssumption
<1>2. x \in CommandStates /\ x.request = request /\ x.pc = "start" /\ ~x.save
  <2>1. commands[p] \in CommandStates
    BY <1>0
  <2> QED
    BY <1>0, <1>1, <2>1 DEF CommandStates
<1>3. store # Truncated => memory \in Stores /\ StoreIsWhole(memory)
  BY <1>0, EmptyStore DEF Stores
<1> HIDE DEF x, memory
<1>4. Going(Fatal(x)) /\ Fatal(x).pc = "fatal"
  BY <1>2, EndedIsSound DEF Fatal
<1>5. CASE commands' = [commands EXCEPT ![p] = Fatal(x)]
  BY <1>0, <1>4, <1>5, OneCommandMoves
<1>6. CASE store # Truncated /\ request.kind = "delete" /\ commands' = [commands EXCEPT ![p] = Delete(x, memory)]
  <2>1. Going(Delete(x, memory)) /\ Delete(x, memory).pc \in {"failed", "truncate"}
    BY <1>1, <1>2, <1>3, <1>6, DeleteIsSound
  <2> QED
    BY <1>0, <1>6, <2>1, OneCommandMoves
<1>7. ASSUME store # Truncated, request.kind # "delete", request.kind = "namespace" => memory.current # NoName,
             NEW asked \in AskedContexts(request, memory), NEW c \in K8sContextToOktetoUrl(memory, asked),
             commands' = [commands EXCEPT ![p] = UseContext(x, memory, c)]
      PROVE  ContextsIInv'
  <2>1. c \in Names /\ (request.token # NoToken => c = request.context)
    BY <1>1, <1>3, <1>7, AskedIsAName
  <2>2. Going(UseContext(x, memory, c)) /\ UseContext(x, memory, c).pc \in {"login", "kubernetes"}
    BY <1>1, <1>2, <1>3, <1>7, <2>1, UseContextIsSound
  <2> QED
    BY <1>0, <1>7, <2>2, OneCommandMoves
<1> QED
  BY <1>5, <1>6, <1>7 DEF x, memory

\* A step of a command in memory that leaves it sound.
LEMMA MemoryStepKeeps ==
  ASSUME ContextsIInv, NEW p \in Commands, NEW y, Going(y), Follows(commands[p], y),
         commands[p].pc \notin {"write", "killed"},
         commands' = [commands EXCEPT ![p] = y], UNCHANGED <<store, writer, kills>>
  PROVE  ContextsIInv'
BY OneCommandMoves DEF ContextsIInv, ContextsTypeOK

\* What a command is before its step, and how it may fail.
LEMMA MayFail ==
  ASSUME ContextsIInv, NEW p \in Commands
  PROVE  /\ Going(commands[p])
         /\ commands[p].pc \in {"login", "user", "metadata", "kubernetes", "access"} =>
              Going(Fail(commands[p])) /\ Follows(commands[p], Fail(commands[p]))
<1>1. Going(commands[p])
  BY DEF ContextsIInv, ContextsTypeOK, Going
<1>2. commands[p] \in CommandStates /\ (commands[p].request.kind = "delete" => ~commands[p].save)
  BY <1>1, WhereItIs DEF Going
<1> QED
  BY <1>1, <1>2, EndedIsSound DEF Fail

\* The steps in which a command asks the cluster.
LEMMA AskingKeeps ==
  ASSUME ContextsIInv, NEW p \in Commands,
         \/ AuthenticateToOktetoCluster(p) \/ getUserContext(p) \/ initOktetoContext(p) \/ initKubernetesContext(p)
         \/ hasAccessToNamespace(p)
  PROVE  ContextsIInv'
<1> DEFINE x == commands[p]
<1>g. Going(x)
  BY MayFail
<1>f. ASSUME x.pc \in {"login", "user", "metadata", "kubernetes", "access"},
             commands' = [commands EXCEPT ![p] = Fail(x)], UNCHANGED <<store, writer, kills>>
      PROVE  ContextsIInv'
  BY <1>f, MayFail, MemoryStepKeeps
<1>1. CASE AuthenticateToOktetoCluster(p)
  <2>1. CASE commands' = [commands EXCEPT ![p] = LoggedIn(x)]
    BY <1>g, <1>1, <2>1, LoggedInIsSound, MemoryStepKeeps DEF AuthenticateToOktetoCluster
  <2> QED
    BY <1>f, <1>1, <2>1 DEF AuthenticateToOktetoCluster
<1>2. CASE getUserContext(p)
  <2> PICK reply \in {"ok", "not logged", "forbidden", "refused", "failed"} :
         commands' = [commands EXCEPT ![p] = Answered(x, reply)]
    BY <1>2 DEF getUserContext
  <2>1. x.pc = "user" /\ UNCHANGED <<store, writer, kills>>
    BY <1>2 DEF getUserContext
  <2>2. Going(Answered(x, reply)) /\ Follows(x, Answered(x, reply))
    BY <1>g, <2>1, AnsweredIsSound
  <2> QED
    BY <2>1, <2>2, MemoryStepKeeps
<1>3. CASE initOktetoContext(p)
  <2>1. CASE commands' = [commands EXCEPT ![p] = AddOktetoContext(x)]
    BY <1>g, <1>3, <2>1, OktetoContextIsAdded, MemoryStepKeeps DEF initOktetoContext
  <2> QED
    BY <1>f, <1>3, <2>1 DEF initOktetoContext
<1>4. CASE initKubernetesContext(p)
  <2>1. CASE commands' = [commands EXCEPT ![p] = AddKubernetesContext(x)]
    BY <1>g, <1>4, <2>1, KubernetesContextIsAdded, MemoryStepKeeps DEF initKubernetesContext
  <2> QED
    BY <1>f, <1>4, <2>1 DEF initKubernetesContext
<1>5. CASE hasAccessToNamespace(p)
  <2>1. CASE commands' = [commands EXCEPT ![p] = Save(x)]
    BY <1>g, <1>5, <2>1, SaveIsSound, MemoryStepKeeps DEF hasAccessToNamespace
  <2> QED
    BY <1>f, <1>5, <2>1 DEF hasAccessToNamespace
<1> QED
  BY <1>1, <1>2, <1>3, <1>4, <1>5

\* The write of a file begins: it is empty, and what others have read is outdated.
LEMMA TruncateKeeps ==
  ASSUME ContextsIInv, NEW p \in Commands, Truncate(p)
  PROVE  ContextsIInv'
<1> DEFINE y(q) == IF q = p THEN [commands[q] EXCEPT !.pc = "write"] ELSE [commands[q] EXCEPT !.fresh = FALSE]
<1>1. /\ commands[p].pc = "truncate" /\ store' = Truncated /\ writer' = writer /\ kills' = kills
      /\ commands' = [q \in Commands |-> y(q)]
      /\ ContextsTypeOK /\ WriterIsEntitled
  BY DEF Truncate, ContextsIInv
<1>2. ASSUME NEW q \in Commands
      PROVE  /\ Going(y(q)) /\ y(q).request = commands[q].request /\ y(q).context = commands[q].context
             /\ y(q).loaded = commands[q].loaded /\ y(q).save = commands[q].save
             /\ commands[q].forbidden => y(q).forbidden
             /\ q = p => y(q).pc = "write"
             /\ q # p => y(q).pc = commands[q].pc
  <2>1. Going(commands[q]) /\ commands[q] \in CommandStates
    BY MayFail DEF Going
  <2>2. CASE q = p
    <3> DEFINE w == [commands[q] EXCEPT !.pc = "write"]
    <3>1. Going(w) /\ Follows(commands[q], w) /\ w.pc = "write" /\ w.save = commands[q].save
      BY <1>1, <2>1, <2>2, WritingIsSound DEF CommandStates
    <3> HIDE DEF w
    <3>2. y(q) = w
      BY <2>2 DEF w
    <3> HIDE DEF y
    <3> QED
      BY <2>2, <3>1, <3>2 DEF Follows
  <2>3. CASE q # p
    <3> DEFINE w == [commands[q] EXCEPT !.fresh = FALSE]
    <3>1. /\ Going(w) /\ w.pc = commands[q].pc /\ w.request = commands[q].request
          /\ w.context = commands[q].context /\ w.loaded = commands[q].loaded
          /\ w.forbidden = commands[q].forbidden /\ w.save = commands[q].save
      BY <2>1, OutdatedIsSound
    <3> HIDE DEF w
    <3>2. y(q) = w
      BY <2>3 DEF w
    <3> HIDE DEF y
    <3> QED
      BY <2>3, <3>1, <3>2
  <2> QED
    BY <2>2, <2>3
<1> HIDE DEF y
<1>3. \A q \in Commands : commands'[q] = y(q)
  BY <1>1
<1>4. ContextsTypeOK'
  BY <1>1, <1>2 DEF ContextsTypeOK, Going
<1>5. store'.is # "store"
  BY <1>1 DEF Truncated
<1>6. \A q \in Commands : CommandIsSound(commands[q])'
  BY <1>2, <1>3 DEF Going
<1>7. EmptyOnlyWhileWritten'
  BY <1>2, <1>3 DEF EmptyOnlyWhileWritten
<1>8. WriterIsEntitled'
  <2> SUFFICES ASSUME NEW q \in Commands, writer = q
               PROVE  /\ y(q).pc # "start"
                      /\ \/ y(q).request.kind = "delete" \/ y(q).forbidden \/ UserWasUnknown(y(q))
                         \/ y(q).save /\ y(q).pc \in {"end", "done", "fatal"}
    BY <1>1, <1>3, <1>5 DEF WriterIsEntitled, UserWasUnknown, IsKnown
  <2>1. UserWasUnknown(commands[q]) => UserWasUnknown(y(q))
    BY <1>2 DEF UserWasUnknown
  <2>2. /\ commands[q].pc # "start"
        /\ \/ commands[q].request.kind = "delete" \/ commands[q].forbidden \/ UserWasUnknown(commands[q])
           \/ commands[q].save /\ commands[q].pc \in {"end", "done", "fatal"}
    BY <1>1 DEF WriterIsEntitled
  <2> QED
    BY <1>1, <1>2, <2>1, <2>2
<1> QED
  BY <1>4, <1>5, <1>6, <1>7, <1>8 DEF ContextsIInv

\* A write ends: the file is what the command had in memory.
LEMMA WriteKeeps ==
  ASSUME ContextsIInv, NEW p \in Commands, Write(p)
  PROVE  ContextsIInv'
<1> DEFINE x == commands[p]
           y(q) == IF q # p THEN [commands[q] EXCEPT !.fresh = FALSE]
                   ELSE IF x.next = "not logged" THEN NotLogged(x)
                   ELSE [x EXCEPT !.pc = x.next]
<1>1. /\ x.pc = "write" /\ store' = x.memory /\ writer' = p /\ kills' = kills
      /\ commands' = [q \in Commands |-> y(q)] /\ ContextsTypeOK
  BY DEF Write, ContextsIInv
<1>2. Going(x) /\ x \in CommandStates /\ CommandIsSound(x)
  BY MayFail DEF Going
<1>3. /\ x.next \in {"not logged", "metadata", "end", "done"} /\ WriteIsCalledFor(x)
      /\ x.memory \in Stores /\ StoreIsWhole(x.memory)
  BY <1>1, <1>2 DEF CommandStates, CommandIsSound, WriteIsCalledFor
<1>4. ASSUME NEW q \in Commands, q # p
      PROVE  Going(y(q))
  BY <1>4, MayFail, OutdatedIsSound
<1>5. /\ Going(y(p)) /\ y(p).pc # "start"
      /\ \/ y(p).request.kind = "delete" \/ y(p).forbidden \/ UserWasUnknown(y(p))
         \/ y(p).save /\ y(p).pc \in {"end", "done", "fatal"}
      /\ y(p).pc \in {"end", "done"} /\ y(p).save => x.memory = y(p).memory
  <2>1. CASE x.next = "not logged"
    <3>1. Writes(x, "not logged") /\ x.forbidden
      BY <1>1, <1>3, <2>1 DEF Writes, WriteIsCalledFor
    <3>2. Going(NotLogged(x)) /\ Follows(x, NotLogged(x)) /\ NotLogged(x).pc \in {"login", "failed"}
      BY <1>2, <3>1, NotLoggedIsSound
    <3>3. y(p) = NotLogged(x)
      BY <2>1
    <3> HIDE DEF y
    <3> QED
      BY <3>1, <3>2, <3>3 DEF Follows
  <2>2. CASE x.next # "not logged"
    <3> DEFINE w == [x EXCEPT !.pc = x.next]
    <3>1. /\ Going(w) /\ w.pc = x.next /\ w.memory = x.memory /\ w.request = x.request /\ w.context = x.context
          /\ w.loaded = x.loaded /\ w.forbidden = x.forbidden /\ w.save = x.save
      BY <1>1, <1>2, <1>3, <2>2, WrittenIsSound
    <3>2. y(p) = w
      BY <2>2
    <3> HIDE DEF w, y
    <3>3. UserWasUnknown(x) => UserWasUnknown(w)
      BY <3>1 DEF UserWasUnknown
    <3>4. x.request.kind = "delete" \/ UserWasUnknown(x) \/ (x.save /\ x.next = "end")
      BY <1>1, <1>3, <2>2 DEF WriteIsCalledFor, Writes
    <3> QED
      BY <1>3, <3>1, <3>2, <3>3, <3>4
  <2> QED
    BY <2>1, <2>2
<1> HIDE DEF y, x
<1>6. \A q \in Commands : commands'[q] = y(q) /\ Going(y(q))
  BY <1>1, <1>4, <1>5
<1>7. ContextsTypeOK'
  BY <1>1, <1>3, <1>6 DEF ContextsTypeOK, Going
<1>8. store' # Truncated
  <2>1. store'.is = "store"
    BY <1>1, <1>3 DEF Stores
  <2>2. Truncated.is = "truncated"
    BY DEF Truncated
  <2>3. "store" # "truncated"
    OBVIOUS
  <2> QED
    BY <2>1, <2>2, <2>3
<1>9. StoreIsWhole(store')
  BY <1>1, <1>3
<1>10. WriterIsEntitled'
  BY <1>1, <1>5, <1>6 DEF WriterIsEntitled, UserWasUnknown, IsKnown
<1>11. EmptyOnlyWhileWritten'
  BY <1>8 DEF EmptyOnlyWhileWritten
<1>12. (store.is = "store" => StoreIsWhole(store))'
  BY <1>9 DEF StoreIsWhole
<1> QED
  BY <1>6, <1>7, <1>10, <1>11, <1>12 DEF ContextsIInv, Going

\* A command ends, or is killed while the file is empty.
LEMMA EndingKeeps ==
  ASSUME ContextsIInv, NEW p \in Commands, End(p) \/ Kill(p)
  PROVE  ContextsIInv'
<1> DEFINE x == commands[p]
<1>1. Going(x) /\ x \in CommandStates /\ (x.request.kind = "delete" => ~x.save)
  BY MayFail, WhereItIs DEF Going
<1>2. CASE End(p)
  <2>1. x.pc = "end" /\ UNCHANGED <<store, writer, kills>>
    BY <1>2 DEF End
  <2>2. CASE commands' = [commands EXCEPT ![p] = Fatal(x)]
    <3>1. Going(Fatal(x)) /\ Follows(x, Fatal(x))
      BY <1>1, EndedIsSound DEF Fatal
    <3> QED
      BY <2>1, <2>2, <3>1, MemoryStepKeeps
  <2>3. ASSUME NEW y \in CommandStates,
               y.request = x.request, y.context = x.context, y.loaded = x.loaded, y.okteto = x.okteto, y.save = x.save,
               y.pc = "done", y.token = x.token, y.ns = x.ns, y.memory = x.memory, y.forbidden = x.forbidden,
               y.result = (IF x.request.kind = "stateless" THEN ResultOf(x) ELSE x.result),
               commands' = [commands EXCEPT ![p] = y]
        PROVE  ContextsIInv'
    <3>1. Going(y) /\ Follows(x, y)
      BY <1>1, <2>1, <2>3, DoneIsSound
    <3> QED
      BY <2>1, <2>3, <3>1, MemoryStepKeeps
  <2>4. CASE x.request.kind # "stateless" /\ commands' = [commands EXCEPT ![p] = [x EXCEPT !.pc = "done"]]
    <3> DEFINE y == [x EXCEPT !.pc = "done"]
    <3>1. /\ y \in CommandStates /\ y.request = x.request /\ y.context = x.context /\ y.loaded = x.loaded
          /\ y.okteto = x.okteto /\ y.save = x.save /\ y.pc = "done" /\ y.token = x.token /\ y.ns = x.ns
          /\ y.memory = x.memory /\ y.forbidden = x.forbidden /\ y.result = x.result
      BY <1>1 DEF CommandStates, Points
    <3> HIDE DEF y
    <3>2. commands' = [commands EXCEPT ![p] = y]
      BY <2>4 DEF y
    <3> QED
      BY <2>3, <2>4, <3>1, <3>2
  <2>5. CASE x.request.kind = "stateless" /\ commands' = [commands EXCEPT ![p] = [x EXCEPT !.pc = "done", !.result = ResultOf(x)]]
    <3> DEFINE y == [x EXCEPT !.pc = "done", !.result = ResultOf(x)]
    <3>0. ChosenEntry(x) \in Entries
      BY <1>1, <2>1, WhereItIs, WhatIsChosen
    <3>1. ResultOf(x) \in [token : Tokens, ns : Spaces \cup {NoName}]
      BY <3>0 DEF ResultOf, Entries
    <3>2. /\ y \in CommandStates /\ y.request = x.request /\ y.context = x.context /\ y.loaded = x.loaded
          /\ y.okteto = x.okteto /\ y.save = x.save /\ y.pc = "done" /\ y.token = x.token /\ y.ns = x.ns
          /\ y.memory = x.memory /\ y.forbidden = x.forbidden /\ y.result = ResultOf(x)
      BY <1>1, <3>1 DEF CommandStates, Points
    <3> HIDE DEF y
    <3>3. commands' = [commands EXCEPT ![p] = y]
      BY <2>5 DEF y
    <3> QED
      BY <2>3, <2>5, <3>2, <3>3
  <2> QED
    BY <1>2, <2>2, <2>4, <2>5 DEF End
<1>3. CASE Kill(p)
  <2>1. /\ x.pc = "write" /\ commands' = [commands EXCEPT ![p] = Ended(x, "killed")]
        /\ kills < MaxKills /\ kills' = kills + 1 /\ UNCHANGED <<store, writer>>
    BY <1>3 DEF Kill
  <2>2. kills' \in 0..MaxKills
    <3>1. kills \in 0..MaxKills
      BY DEF ContextsIInv, ContextsTypeOK
    <3> QED
      BY <2>1, <3>1, ContextsAssumption DEF ContextsAssumption
  <2>3. Going(Ended(x, "killed")) /\ Follows(x, Ended(x, "killed")) /\ Ended(x, "killed").pc = "killed"
    BY <1>1, <2>1, EndedIsSound
  <2> QED
    BY <2>1, <2>2, <2>3, OneCommandMoves
<1> QED
  BY <1>2, <1>3

\* The first command starts from a whole file.
LEMMA ContextsStart == ContextsInit => ContextsIInv
<1> SUFFICES ASSUME ContextsInit PROVE ContextsIInv
  OBVIOUS
<1>1. NewCommand \in CommandStates
  <2>1. 0 \in 0..Retries
    BY ContextsAssumption DEF ContextsAssumption
  <2> DEFINE tryCount == 0..Retries
             s == StoreOf(NoName, NoContexts)
             r == Request(NoName, NoName, NoName, NoToken)
  <2>2. s \in Stores /\ NoToken \in Tokens
    BY EmptyStore, NamesAreGiven
  <2>3. NewCommand.request = r
    BY DEF NewCommand
  <2> HIDE DEF tryCount, s, r
  <2>4. NewCommand = [pc |-> "start", request |-> r, context |-> NoName, ns |-> NoName,
                      token |-> NoToken, save |-> FALSE, okteto |-> FALSE, tries |-> 0, again |-> FALSE,
                      forbidden |-> FALSE, memory |-> s, loaded |-> s, fresh |-> FALSE, next |-> NoName,
                      result |-> [token |-> NoToken, ns |-> NoName]]
    BY DEF NewCommand, s, r
  <2> QED
    BY <2>1, <2>2, <2>3, <2>4 DEF CommandStates, Points, tryCount
<1>2. /\ NewCommand.pc = "start" /\ NewCommand.memory = StoreOf(NoName, NoContexts) /\ ~NewCommand.save
  BY DEF NewCommand
<1>3. CommandIsSound(NewCommand)
  BY <1>2, EmptyStore DEF CommandIsSound, ChoiceIsCurrent, ClusterIsAsked, UserIsKept, WriteIsCalledFor,
     OthersAreAsRead, ContextIsAsked, ResultIsOwn, HasChosen, HasContext, Writes
<1>4. /\ store \in Stores \cup {Missing} /\ (store.is = "store" => StoreIsWhole(store)) /\ store # Truncated
  BY InitialStoresAreWhole DEF ContextsInit, Stores, Missing, Truncated
<1>5. kills \in 0..MaxKills
  BY ContextsAssumption DEF ContextsInit, ContextsAssumption
<1>6. ContextsTypeOK
  BY <1>1, <1>4, <1>5 DEF ContextsInit, ContextsTypeOK
<1>7. WriterIsEntitled /\ EmptyOnlyWhileWritten
  BY <1>4, ContextsAssumption DEF ContextsInit, WriterIsEntitled, EmptyOnlyWhileWritten, ContextsAssumption
<1> QED
  BY <1>3, <1>4, <1>6, <1>7 DEF ContextsInit, ContextsIInv

\* Every step of every command preserves the invariant.
LEMMA ContextsStep == ContextsIInv /\ [ContextsNext]_contextVars => ContextsIInv'
<1> SUFFICES ASSUME ContextsIInv, [ContextsNext]_contextVars PROVE ContextsIInv'
  OBVIOUS
<1>1. CASE UNCHANGED contextVars
  BY <1>1 DEF contextVars, ContextsIInv, ContextsTypeOK, StoreIsWhole, WriterIsEntitled, EmptyOnlyWhileWritten,
     UserWasUnknown, IsKnown
<1>2. CASE ContextsNext
  BY <1>2, StartKeeps, AskingKeeps, TruncateKeeps, WriteKeeps, EndingKeeps DEF ContextsNext
<1> QED
  BY <1>1, <1>2

\* What the invariant says of the file and of every command.
LEMMA SoundCommandsAreWhole == ContextsIInv => ContextsStayWhole
<1> SUFFICES ASSUME ContextsIInv PROVE ContextsStayWhole
  OBVIOUS
<1>1. ContextsTypeOK /\ (store.is = "store" => StoreIsWhole(store)) /\ WriterIsEntitled /\ EmptyOnlyWhileWritten
      /\ \A p \in Commands : commands[p] \in CommandStates /\ CommandIsSound(commands[p]) /\ Going(commands[p])
  BY DEF ContextsIInv, ContextsTypeOK, Going
<1>2. \A s \in {store} \cup {commands[p].memory : p \in Commands} :
        s.is = "store" => s \in Stores /\ StoreIsWhole(s)
  <2>1. store.is = "store" => store \in Stores
    BY <1>1 DEF ContextsTypeOK, Missing, Truncated
  <2>2. \A p \in Commands : commands[p].memory \in Stores /\ StoreIsWhole(commands[p].memory)
    BY <1>1 DEF CommandStates, CommandIsSound
  <2> QED
    BY <1>1, <2>1, <2>2
<1>3. CurrentIsKnown
  BY <1>2 DEF CurrentIsKnown, StoreIsWhole, Stores, IsKnown
<1>4. ASSUME NEW p \in Commands, commands[p].pc = "done", commands[p].request.kind # "delete"
      PROVE  /\ HasChosen(commands[p]) /\ ContextIsAsked(commands[p]) /\ ResultIsOwn(commands[p])
             /\ HasContext(commands[p]) /\ (IsChecked(commands[p]) <=> commands[p].save)
             /\ commands[p].okteto <=> commands[p].context \in Clusters
             /\ commands[p].token = NoToken \/ commands[p].token.of = commands[p].context
             /\ commands[p].memory.current = commands[p].context
  BY <1>1, <1>4 DEF HasChosen, HasContext, IsChecked, CommandIsSound, ChoiceIsCurrent
<1>5. TokensStayWithTheirCluster
  <2>1. \A s \in {store} \cup {commands[p].memory : p \in Commands} :
          s.is = "store" => \A c \in Names : s.contexts[c].token = NoToken \/ s.contexts[c].token.of = c
    BY <1>2 DEF StoreIsWhole
  <2>2. ASSUME NEW p \in Commands, commands[p].pc = "done", commands[p].request.kind = "stateless"
        PROVE  /\ commands[p].okteto => commands[p].result.token.of = commands[p].context
               /\ commands[p].result.ns = commands[p].ns \/ (commands[p].save /\ commands[p].result.ns = Personal)
    <3> DEFINE x == commands[p]
    <3>1. x.result.token = ChosenEntry(x).token /\ x.result.ns = ChosenEntry(x).ns
      <4>1. x.result = ResultOf(x)
        BY <1>4, <2>2 DEF ResultIsOwn
      <4> QED
        BY <4>1 DEF ResultOf
    <3>2. /\ x.okteto => x.token # NoToken /\ ChosenEntry(x).token = x.token
          /\ ChosenEntry(x).ns = x.ns \/ (IsChecked(x) /\ ChosenEntry(x).ns = Personal)
      BY <1>4, <2>2 DEF ContextIsAsked
    <3>3. (IsChecked(x) => x.save) /\ (x.token = NoToken \/ x.token.of = x.context)
      BY <1>1, <1>4, <2>2
    <3> QED
      BY <3>1, <3>2, <3>3
  <2> QED
    BY <2>1, <2>2 DEF TokensStayWithTheirCluster
<1>6. OthersAreKept
  BY <1>1 DEF OthersAreKept, CommandIsSound, OthersAreAsRead, HasChosen, Writes
<1>7. UnsavedChoicesStay
  BY <1>1 DEF UnsavedChoicesStay, WriterIsEntitled, UserWasUnknown
<1>8. SavedChoiceHolds
  <2> SUFFICES ASSUME NEW p \in Commands, commands[p].pc = "done", commands[p].save, writer = p, store.is = "store"
               PROVE  /\ store.current = commands[p].context
                      /\ store.contexts[store.current].ns \in AllowedSpaces \cup {Personal}
                      /\ commands[p].okteto => store.contexts[store.current].token = commands[p].token
    BY DEF SavedChoiceHolds
  <2>1. store = commands[p].memory /\ commands[p].request.kind # "delete"
    BY <1>1 DEF WriterIsEntitled, CommandIsSound
  <2> QED
    BY <1>4, <2>1 DEF ContextIsAsked, ChosenEntry
<1> QED
  BY <1>1, <1>3, <1>5, <1>6, <1>7, <1>8 DEF ContextsStayWhole

\* Commands that run at the same time never break the file of contexts, for any number
\* of commands, retries and kills and anything they are asked for: its current context
\* is known, a token stays with the cluster that gave it, only a write that is under way
\* or was killed empties the file, a saved choice holds, and what nobody asked to change
\* is kept (context.go:165-380, create.go:87-515, use.go:89-246).
THEOREM ContextsAreAlwaysWhole == ContextsSpec => []ContextsStayWhole
<1>1. ContextsInit => ContextsIInv
  BY ContextsStart
<1>2. ContextsIInv /\ [ContextsNext]_contextVars => ContextsIInv'
  BY ContextsStep
<1>3. ContextsIInv => ContextsStayWhole
  BY SoundCommandsAreWhole
<1> QED
  BY <1>1, <1>2, <1>3, PTL DEF ContextsSpec
=============================================================================
