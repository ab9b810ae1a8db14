------------------------------- MODULE Divert --------------------------------
(***************************************************************************)
(* Diverting the traffic of a shared namespace to that of a developer      *)
(* (pkg/divert).  okteto deploy and okteto destroy of several development  *)
(* environments of one namespace share, with the istio driver, the virtual *)
(* service of the shared namespace, which has an annotation for each, and  *)
(* the copy of a host in the namespace of the developer; with the nginx    *)
(* driver the ingress, the services and the divert resources of the        *)
(* namespace of the developer, which a deploy reads once, at its start.    *)
(* The shared namespace has one virtual service, one host and one ingress; *)
(* its ingresses and services do not change.  An environment runs one      *)
(* command at a time (its config map is its lock).                         *)
(***************************************************************************)
EXTENDS Integers, FiniteSets

CONSTANTS
  Environments,           \* the development environments of the namespace
  Services,               \* the services behind the shared ingress
  UpdateConflictRetries,  \* UPDATE_CONFLICT_RETRIES
  MaxDivertRuns,          \* commands of an environment, by driver
  MaxDivertChanges        \* changes by the user and by others, by driver

ASSUME DivertAssumption ==
  UpdateConflictRetries \in Nat \ {0} /\ Environments # {}

VARIABLES
  driver,    \* deploy.divert.driver
  crds,      \* DivertCRDSEnabled: else the client of divert resources does nothing
  vs,        \* the shared virtual service: its version, who has an annotation
  host,      \* the virtual service of the host in the developer's namespace
  ingress,   \* the ingress in the developer's namespace
  services,  \* each service there: "absent", "own" or a "copy" made by divert
  diverts,   \* the divert resources: <<environment, service>>
  at,        \* where the command of an environment is
  op,        \* what it does: "deploy" or "destroy"
  result,    \* how the last one ended
  tries,     \* its updates that found another version
  readVs,    \* the shared virtual service it has read
  readHost,  \* the version of the host it has read
  cache,     \* the ingress and the services initCache has read
  todo,      \* the services its loop still has to do
  orphans,   \* the divert resources it has listed or has to delete
  runs,      \* its commands so far
  changes,   \* changes by others so far
  \* History: the last update of the shared virtual service by each environment, its
  \* version when the command began, what changed since the command read it, and
  \* whether the host is the user's own.
  last, since, unseen, gone, touched, ownHost

istioVars == <<vs, host, readVs, readHost, tries, last>>
nginxVars == <<ingress, services, diverts, cache, todo, orphans, unseen, gone, touched>>
divertVars == <<driver, crds, istioVars, nginxVars, at, op, result, runs, changes, since, ownHost>>

-----------------------------------------------------------------------------
(* Objects.                                                                  *)

\* An ingress: made by divert (auto), with the header, labelled with an
\* environment, with annotations at all.
NoIngress == [there |-> FALSE, rev |-> 0, auto |-> FALSE, header |-> FALSE, by |-> "user", annotated |-> FALSE]
UserIngress(header, annotated) ==
  [there |-> TRUE, rev |-> ingress.rev + 1, auto |-> FALSE, header |-> header, by |-> "user", annotated |-> annotated]

\* The ingress of the shared namespace, for the namespace of the developer.
translateIngress(e, rev) ==
  [there |-> TRUE, rev |-> rev, auto |-> TRUE, header |-> TRUE, by |-> e, annotated |-> TRUE]

\* What divertIngress makes of an ingress that is there, and whether that changes it.
UpdatedIngress(e, in) == IF in.auto THEN translateIngress(e, in.rev) ELSE [in EXCEPT !.header = TRUE]
isEqualIngress(e, in) == UpdatedIngress(e, in) = in

\* The annotation of an environment in the shared virtual service.
translateDivertVirtualService(e, v) == [rev |-> v.rev + 1, diverted |-> v.diverted \cup {e}]
restoreDivertVirtualService(e, v) == [rev |-> v.rev + 1, diverted |-> v.diverted \ {e}]

\* The virtual service of the host: a copy of the shared one, labelled as such.
translateDivertHost(e) == [there |-> TRUE, auto |-> TRUE, by |-> e, rev |-> host.rev + 1]

DivertInit ==
  /\ driver \in {"istio", "nginx"} /\ crds \in BOOLEAN /\ (driver = "istio" => crds)
  /\ vs = [rev |-> 0, diverted |-> {}]
  /\ host = [there |-> FALSE, auto |-> FALSE, by |-> "user", rev |-> 0]
  /\ ingress = NoIngress
  /\ services \in [Services -> {"absent", "own"}]
  /\ driver = "istio" => \A s \in Services : services[s] = "own"
  /\ diverts = {}
  /\ at = [e \in Environments |-> "idle"]
  /\ op = [e \in Environments |-> "deploy"]
  /\ result = [e \in Environments |-> "none"]
  /\ tries = [e \in Environments |-> 0]
  /\ readVs = [e \in Environments |-> vs]
  /\ readHost = [e \in Environments |-> 0]
  /\ cache = [e \in Environments |-> [ingress |-> ingress, services |-> services]]
  /\ todo = [e \in Environments |-> {}]
  /\ orphans = [e \in Environments |-> {}]
  /\ runs = [e \in Environments |-> 0] /\ changes = 0
  /\ last = [e \in Environments |-> "none"] /\ since = [e \in Environments |-> 0]
  /\ unseen = [e \in Environments |-> {}] /\ gone = [e \in Environments |-> {}]
  /\ touched = [e \in Environments |-> FALSE] /\ ownHost = FALSE

\* The command of e goes on to p, or ends.
Moves(e, from, to) == at[e] = from /\ at' = [at EXCEPT ![e] = to] /\ UNCHANGED result
Ends(e, from, how) == at[e] = from /\ at' = [at EXCEPT ![e] = "idle"] /\ result' = [result EXCEPT ![e] = how]

\* divert.New and the begin of Deploy and Destroy. Destroy of the nginx driver
\* does nothing.
DivertBegin(e) ==
  /\ runs[e] < MaxDivertRuns[driver]
  /\ runs' = [runs EXCEPT ![e] = @ + 1]
  /\ \E o \in {"deploy", "destroy"} :
       /\ op' = [op EXCEPT ![e] = o]
       /\ \/ driver = "istio" /\ Moves(e, "idle", "vsGet")
          \/ driver = "nginx" /\ o = "deploy" /\ Moves(e, "idle", "listIngresses")
          \/ driver = "nginx" /\ o = "destroy" /\ Ends(e, "idle", "ok")
          \/ Ends(e, "idle", "err")
  /\ tries' = [tries EXCEPT ![e] = 0]
  /\ since' = [since EXCEPT ![e] = vs.rev]
  /\ UNCHANGED <<driver, crds, vs, host, readVs, readHost, last, nginxVars, changes, ownHost>>

\* A call fails, or the select finds that the context is done.
DivertFails(e) ==
  /\ at[e] # "idle" /\ Ends(e, at[e], "err")
  /\ UNCHANGED <<driver, crds, istioVars, nginxVars, op, runs, changes, since, ownHost>>

-----------------------------------------------------------------------------
(* istio: Deploy and Destroy read, change and write until the version is     *)
(* still the one that was read.                                              *)

\* After the virtual services a deploy goes on with the hosts.
AfterVirtualServices(e) ==
  IF op[e] = "deploy" THEN Moves(e, "vsPut", "hostGet") ELSE Ends(e, "vsPut", "ok")

VsGet(e) ==
  /\ Moves(e, "vsGet", "vsPut")
  /\ readVs' = [readVs EXCEPT ![e] = vs]
  /\ UNCHANGED <<vs, host, readHost, tries, last>>

VsWritten(e) ==
  /\ vs' = IF op[e] = "deploy" THEN translateDivertVirtualService(e, readVs[e])
                               ELSE restoreDivertVirtualService(e, readVs[e])
  /\ last' = [last EXCEPT ![e] = op[e]]
  /\ AfterVirtualServices(e)
  /\ tries' = [tries EXCEPT ![e] = 0]
  /\ UNCHANGED <<host, readVs, readHost>>

\* The write is not checked against the version.
VsPutBlind(e) == VsWritten(e)

\* The error of the last try is that of an inner scope: the retries end as if the
\* virtual service had been written.
VsPut(e) ==
  \/ readVs[e].rev = vs.rev /\ VsWritten(e)
  \/ /\ readVs[e].rev # vs.rev
     /\ IF tries[e] + 1 < UpdateConflictRetries
        THEN Moves(e, "vsPut", "vsGet") /\ tries' = [tries EXCEPT ![e] = @ + 1]
        ELSE AfterVirtualServices(e) /\ tries' = [tries EXCEPT ![e] = 0]
     /\ UNCHANGED <<vs, host, readVs, readHost, last>>

\* Another virtual service of that name is left as it is; so is one that cannot be
\* read, since the client answers with an empty one.
HostGet(e) ==
  /\ Moves(e, "hostGet", "hostGetDev")
  /\ UNCHANGED istioVars

HostGetDev(e) ==
  /\ \/ ~host.there /\ Moves(e, "hostGetDev", "hostCreate")
     \/ host.there /\ host.auto /\ Moves(e, "hostGetDev", "hostPut")
     \/ Ends(e, "hostGetDev", "ok")
  /\ readHost' = [readHost EXCEPT ![e] = host.rev]
  /\ UNCHANGED <<vs, host, readVs, tries, last>>

HostCreate(e) ==
  /\ Ends(e, "hostCreate", "ok")
  /\ host' = IF host.there THEN host ELSE translateDivertHost(e)
  /\ UNCHANGED <<vs, readVs, readHost, tries, last>>

HostPut(e) ==
  \/ /\ host.there /\ readHost[e] = host.rev
     /\ Ends(e, "hostPut", "ok")
     /\ host' = translateDivertHost(e)
     /\ UNCHANGED <<vs, readVs, readHost, tries, last>>
  \/ /\ host.there /\ readHost[e] # host.rev
     /\ IF tries[e] + 1 < UpdateConflictRetries THEN Moves(e, "hostPut", "hostGet") ELSE Ends(e, "hostPut", "ok")
     /\ tries' = [tries EXCEPT ![e] = @ + 1]
     /\ UNCHANGED <<vs, host, readVs, readHost, last>>
  \/ ~host.there /\ Ends(e, "hostPut", "err") /\ UNCHANGED istioVars

IstioStep(e) ==
  /\ VsGet(e) \/ VsPut(e) \/ HostGet(e) \/ HostGetDev(e) \/ HostCreate(e) \/ HostPut(e)
  /\ UNCHANGED <<driver, crds, nginxVars, op, runs, changes, since, ownHost>>

-----------------------------------------------------------------------------
(* nginx: Deploy works on what initCache has read.                           *)

ListIngresses(e) ==
  /\ Moves(e, "listIngresses", "listServices")
  /\ cache' = [cache EXCEPT ![e].ingress = ingress]
  /\ touched' = [touched EXCEPT ![e] = FALSE]
  /\ UNCHANGED <<ingress, services, diverts, todo, orphans, unseen, gone>>

ListServices(e) ==
  /\ Moves(e, "listServices", "listDiverts")
  /\ cache' = [cache EXCEPT ![e].services = services]
  /\ unseen' = [unseen EXCEPT ![e] = {}]
  /\ gone' = [gone EXCEPT ![e] = {}]
  /\ UNCHANGED <<ingress, services, diverts, todo, orphans, touched>>

\* A service that divert made needs no divert resource. The resources of services
\* that were not there are to be deleted, whoever made them.
ListDiverts(e) ==
  /\ Moves(e, "listDiverts", "resources")
  /\ todo' = [todo EXCEPT ![e] = {s \in Services : cache[e].services[s] = "own"}]
  /\ orphans' = [orphans EXCEPT ![e] = {d \in diverts : cache[e].services[d[2]] = "absent"}]
  /\ UNCHANGED <<ingress, services, diverts, cache, unseen, gone, touched>>

\* deployDivertResources and CreateOrUpdate of the manager, which reads first; a
\* resource that is deleted after that is one more call that fails. Without the
\* custom resources nothing happens.
DeployDivert(e, s) ==
  /\ s \in todo[e] /\ Moves(e, "resources", "resources")
  /\ todo' = [todo EXCEPT ![e] = @ \ {s}]
  /\ diverts' = IF crds THEN diverts \cup {<<e, s>>} ELSE diverts
  /\ UNCHANGED <<ingress, services, cache, orphans, unseen, gone, touched>>

DeployedDiverts(e) ==
  /\ todo[e] = {} /\ Moves(e, "resources", "orphans")
  /\ UNCHANGED nginxVars

\* One that is gone already is no error.
DeleteOrphan(e, d) ==
  /\ d \in orphans[e] /\ Moves(e, "orphans", "orphans")
  /\ orphans' = [orphans EXCEPT ![e] = @ \ {d}]
  /\ diverts' = diverts \ {d}
  /\ UNCHANGED <<ingress, services, cache, todo, unseen, gone, touched>>

\* divertIngress. One that divert made is made anew, without the version that was
\* read; one of the user only gets the header, and only if it has annotations: a
\* map that is nil cannot be written to.
DeletedOrphans(e) ==
  LET in == cache[e].ingress
  IN /\ orphans[e] = {}
     /\ \/ ~in.there /\ Moves(e, "orphans", "createIngress")
        \/ in.there /\ ~in.annotated /\ Ends(e, "orphans", "panic")
        \/ in.there /\ in.annotated /\ Moves(e, "orphans", IF isEqualIngress(e, in) THEN "services" ELSE "updateIngress")
     /\ todo' = [todo EXCEPT ![e] = Services]
     /\ UNCHANGED <<ingress, services, diverts, cache, orphans, unseen, gone, touched>>

\* One that appeared is read and left as it is.
CreateIngress(e) ==
  /\ Moves(e, "createIngress", "services")
  /\ ingress' = IF ingress.there THEN ingress ELSE translateIngress(e, ingress.rev + 1)
  /\ UNCHANGED <<services, diverts, cache, todo, orphans, unseen, gone, touched>>

\* One that changed is read and left as it is: the update is not tried again.
UpdateIngress(e) ==
  LET in == cache[e].ingress
  IN /\ ingress.there /\ Moves(e, "updateIngress", "services")
     /\ ingress' = IF in.auto \/ in.rev = ingress.rev THEN [UpdatedIngress(e, in) EXCEPT !.rev = ingress.rev + 1] ELSE ingress
     /\ UNCHANGED <<services, diverts, cache, todo, orphans, unseen, gone, touched>>

\* divertService: a service of the ingress that the namespace does not have is made
\* one that leads to the shared namespace.
DivertService(e, s) ==
  /\ s \in todo[e] /\ Moves(e, "services", "services")
  /\ todo' = [todo EXCEPT ![e] = @ \ {s}]
  /\ IF cache[e].services[s] = "absent" /\ services[s] = "absent"
     THEN /\ services' = [services EXCEPT ![s] = "copy"]
          /\ unseen' = [f \in Environments |-> IF f = e THEN unseen[f] ELSE unseen[f] \cup {s}]
     ELSE UNCHANGED <<services, unseen>>
  /\ UNCHANGED <<ingress, diverts, cache, orphans, gone, touched>>

DivertedIngress(e) ==
  /\ todo[e] = {} /\ Ends(e, "services", "ok")
  /\ UNCHANGED nginxVars

NginxStep(e) ==
  /\ \/ ListIngresses(e) \/ ListServices(e) \/ ListDiverts(e)
     \/ \E s \in Services : DeployDivert(e, s) \/ DivertService(e, s)
     \/ \E d \in orphans[e] : DeleteOrphan(e, d)
     \/ DeployedDiverts(e) \/ DeletedOrphans(e) \/ CreateIngress(e) \/ UpdateIngress(e) \/ DivertedIngress(e)
  /\ UNCHANGED <<driver, crds, istioVars, op, runs, changes, since, ownHost>>

-----------------------------------------------------------------------------
(* What others do: the user, with okteto deploy or kubectl, and whoever      *)
(* writes the shared virtual service.                                        *)

OtherWrites ==
  /\ driver = "istio" /\ vs' = [vs EXCEPT !.rev = @ + 1]
  /\ UNCHANGED <<host, readVs, readHost, tries, last, nginxVars, ownHost>>

UserHost ==
  /\ driver = "istio"
  /\ \E own \in BOOLEAN :
       /\ own \/ host.there
       /\ ownHost' = own
       /\ host' = [there |-> own, auto |-> FALSE, by |-> "user", rev |-> host.rev + 1]
  /\ UNCHANGED <<vs, readVs, readHost, tries, last, nginxVars>>

UserService(s) ==
  /\ driver = "nginx"
  /\ \/ /\ services[s] # "own" /\ services' = [services EXCEPT ![s] = "own"]
        /\ unseen' = [f \in Environments |-> unseen[f] \cup {s}]
        /\ UNCHANGED gone
     \/ /\ services[s] # "absent" /\ services' = [services EXCEPT ![s] = "absent"]
        /\ gone' = [f \in Environments |-> gone[f] \cup {s}]
        /\ UNCHANGED unseen
  /\ UNCHANGED <<istioVars, ingress, diverts, cache, todo, orphans, touched, ownHost>>

UserPutsIngress ==
  /\ driver = "nginx"
  /\ \/ \E annotated \in BOOLEAN : ingress' = UserIngress(FALSE, annotated)
     \/ ingress.there /\ ingress' = [NoIngress EXCEPT !.rev = ingress.rev]
  /\ touched' = [f \in Environments |-> TRUE]
  /\ UNCHANGED <<istioVars, services, diverts, cache, todo, orphans, unseen, gone, ownHost>>

DivertChange ==
  /\ changes < MaxDivertChanges[driver] /\ changes' = changes + 1
  /\ OtherWrites \/ UserHost \/ UserPutsIngress \/ \E s \in Services : UserService(s)
  /\ UNCHANGED <<driver, crds, at, op, result, runs, since>>

DivertNext ==
  \/ \E e \in Environments : DivertBegin(e) \/ DivertFails(e) \/ IstioStep(e) \/ NginxStep(e)
  \/ DivertChange

DivertSpec == DivertInit /\ [][DivertNext]_divertVars

-----------------------------------------------------------------------------
(* Properties.                                                               *)

VirtualServices == [rev : Nat, diverted : SUBSET Environments]
Hosts == [there : BOOLEAN, auto : BOOLEAN, by : Environments \cup {"user"}, rev : Nat]
Kinds == {"absent", "own", "copy"}
DivertPlaces == {"idle", "vsGet", "vsPut", "hostGet", "hostGetDev", "hostCreate", "hostPut",
           "listIngresses", "listServices", "listDiverts", "resources", "orphans",
           "createIngress", "updateIngress", "services"}
ObjectTypes ==
  /\ driver \in {"istio", "nginx"} /\ crds \in BOOLEAN /\ ownHost \in BOOLEAN
  /\ vs \in VirtualServices /\ host \in Hosts
  /\ services \in [Services -> Kinds]
  /\ diverts \subseteq Environments \X Services
PlaceTypes ==
  /\ at \in [Environments -> DivertPlaces]
  /\ op \in [Environments -> {"deploy", "destroy"}]
  /\ result \in [Environments -> {"none", "ok", "err", "panic"}]
ReadTypes ==
  /\ tries \in [Environments -> Nat] /\ since \in [Environments -> Nat]
  /\ readVs \in [Environments -> VirtualServices] /\ readHost \in [Environments -> Nat]
  /\ last \in [Environments -> {"none", "deploy", "destroy"}]
ListTypes ==
  /\ todo \in [Environments -> SUBSET Services]
  /\ orphans \in [Environments -> SUBSET (Environments \X Services)]
  /\ unseen \in [Environments -> SUBSET Services] /\ gone \in [Environments -> SUBSET Services]
  /\ touched \in [Environments -> BOOLEAN]
DivertTypeOK == ObjectTypes /\ PlaceTypes /\ ReadTypes /\ ListTypes

\* A command of e that ended well.
DivertEnded(e, o, d) == driver = d /\ at[e] = "idle" /\ result[e] = "ok" /\ op[e] = o

\* Whatever the commands of the other environments write, the shared virtual service
\* has the annotation of an environment exactly when the last update of its own
\* commands put it there: no update is lost (istio/divert.go, Deploy and Destroy).
NoDivertIsLost == \A e \in Environments : e \in vs.diverted <=> last[e] = "deploy"

\* A deploy or destroy that says so has diverted or restored the shared virtual
\* service; only one that met as many updates of others as it has retries has not.
DivertedIsTrue ==
  \A e \in Environments :
    /\ DivertEnded(e, "deploy", "istio") => e \in vs.diverted \/ vs.rev - since[e] >= UpdateConflictRetries
    /\ DivertEnded(e, "destroy", "istio") => e \notin vs.diverted \/ vs.rev - since[e] >= UpdateConflictRetries

\* The virtual service that the user has for a host is never replaced by the copy
\* of the shared one, whenever the user put it there.
UserHostsStay == ownHost => host.there /\ ~host.auto /\ host.by = "user"

\* A divert resource is deleted as an orphan only if its service is not there, or
\* appeared after the command listed the services (nginx/divert.go).
OrphansHaveNoService ==
  \A e \in Environments : at[e] = "orphans" =>
    \A d \in orphans[e] : services[d[2]] = "absent" \/ d[2] \in unseen[e]

\* When all commands are over and well, the user's services are diverted, unless a
\* command has not seen one of them.
OwnServicesAreDiverted ==
  (crds /\ \A e \in Environments : DivertEnded(e, "deploy", "nginx")) =>
    \A s \in Services : services[s] = "own" => s \in {d[2] : d \in diverts} \/ \E e \in Environments : s \in unseen[e]

\* After a deploy the ingress of the namespace carries the header and leads to
\* services that are there, unless the user changed them since they were listed.
IngressIsDiverted ==
  \A e \in Environments : DivertEnded(e, "deploy", "nginx") =>
    /\ (ingress.there /\ ingress.header) \/ touched[e]
    /\ \A s \in Services : services[s] # "absent" \/ s \in gone[e]

DivertsHold ==
  /\ DivertTypeOK /\ NoDivertIsLost /\ DivertedIsTrue /\ UserHostsStay
  /\ OrphansHaveNoService /\ OwnServicesAreDiverted /\ IngressIsDiverted

-----------------------------------------------------------------------------
(* The inductive invariant behind DivertsHold.                               *)

Ingresses == [there : BOOLEAN, rev : Nat, auto : BOOLEAN, header : BOOLEAN, by : Environments \cup {"user"},
              annotated : BOOLEAN]
CacheTypes ==
  /\ ingress \in Ingresses
  /\ cache \in [Environments -> [ingress : Ingresses, services : [Services -> Kinds]]]

\* Where the commands of each driver can be.
HostPlaces == {"hostGet", "hostGetDev", "hostCreate", "hostPut"}
IstioPlaces == {"vsGet", "vsPut"} \cup HostPlaces
\* After the services were listed, and before the ingress is diverted.
ListedPlaces == {"listDiverts", "resources", "orphans", "createIngress", "updateIngress", "services"}
BeforeIngress == {"listServices", "listDiverts", "resources", "orphans", "createIngress", "updateIngress"}
NginxPlaces == {"listIngresses", "listServices"} \cup ListedPlaces
PlacesFit ==
  \A e \in Environments :
    /\ at[e] \in IstioPlaces => driver = "istio"
    /\ at[e] \in HostPlaces => op[e] = "deploy"
    /\ at[e] \in NginxPlaces => driver = "nginx" /\ op[e] = "deploy"
DivertTypes == DivertTypeOK /\ CacheTypes /\ PlacesFit

\* What was read is what is there, or an earlier version.
VsReads(e) == at[e] = "vsPut" => readVs[e].rev <= vs.rev /\ (readVs[e].rev = vs.rev => readVs[e] = vs)
HostReads(e) == at[e] = "hostPut" => readHost[e] <= host.rev /\ (readHost[e] = host.rev => host.auto)
\* Each try that failed is an update of another since the command began.
Overtaken(e) == vs.rev - since[e] >= UpdateConflictRetries
VsTries(e) ==
  /\ at[e] = "vsGet" => vs.rev - since[e] >= tries[e]
  /\ at[e] = "vsPut" => readVs[e].rev - since[e] >= tries[e]
  /\ at[e] \in HostPlaces => e \in vs.diverted \/ Overtaken(e)
IstioIInv ==
  /\ NoDivertIsLost /\ DivertedIsTrue /\ UserHostsStay
  /\ \A e \in Environments : VsReads(e) /\ HostReads(e) /\ VsTries(e)

\* What the cache says of a service is so, or something happened to it since.
CacheIsOld(e) ==
  at[e] \in ListedPlaces =>
    \A s \in Services :
      /\ cache[e].services[s] = "absent" /\ at[e] # "services" => services[s] = "absent" \/ s \in unseen[e]
      /\ cache[e].services[s] # "absent" => services[s] # "absent" \/ s \in gone[e]
OrphansOfCache(e) ==
  at[e] \in {"resources", "orphans"} => \A d \in orphans[e] : cache[e].services[d[2]] = "absent"
\* The services that are done are there.
ServicesDone(e) ==
  at[e] \in {"createIngress", "updateIngress", "services"} =>
    \A s \in Services \ todo[e] : services[s] # "absent" \/ s \in gone[e]
\* The ingress is the one that was read or already carries the header.
IngressIsOld(e) ==
  /\ at[e] \in BeforeIngress /\ ~touched[e] =>
       /\ ingress.there => ingress.header \/ ingress = cache[e].ingress
       /\ cache[e].ingress.there => ingress.there
  /\ at[e] = "createIngress" => ~cache[e].ingress.there
  /\ at[e] = "updateIngress" => cache[e].ingress.there
  /\ at[e] = "services" => (ingress.there /\ ingress.header) \/ touched[e]
\* The command of g has not yet come to the divert resource of s, or has to run again.
Pending(g, s) ==
  \/ at[g] = "idle" /\ ~DivertEnded(g, "deploy", "nginx")
  \/ at[g] \in {"listIngresses", "listServices"}
  \/ at[g] = "listDiverts" /\ cache[g].services[s] = "own"
  \/ at[g] = "resources" /\ s \in todo[g]
DivertIsDue(s) ==
  crds /\ driver = "nginx" /\ services[s] = "own" =>
    \/ \E d \in diverts : d[2] = s
    \/ \E e \in Environments : s \in unseen[e]
    \/ \E g \in Environments : Pending(g, s)
NginxIInv ==
  /\ OrphansHaveNoService /\ IngressIsDiverted
  /\ \A e \in Environments : CacheIsOld(e) /\ OrphansOfCache(e) /\ ServicesDone(e) /\ IngressIsOld(e)
  /\ \A s \in Services : DivertIsDue(s)

DivertIInv == DivertTypes /\ IstioIInv /\ NginxIInv
=============================================================================
