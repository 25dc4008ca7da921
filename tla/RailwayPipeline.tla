--------------------------- MODULE RailwayPipeline ---------------------------
(***************************************************************************)
(* One instance on the Railway provider: the pipeline of a deployment and  *)
(* stop, restart and delete (services/deployments.py), with the services   *)
(* they create, deploy and delete through Railway's API                    *)
(* (services/railway.py). An instance has one service, remembered in       *)
(* instances.provider_ref; a pipeline keeps what it read of the row when it*)
(* was queued.                                                             *)
(*                                                                         *)
(* The statuses of a deployment in progress are one, as in Deployment, and *)
(* the second of two writes of the same status is left out.                *)
(***************************************************************************)
EXTENDS Naturals, FiniteSets

CONSTANTS
  RJobs,     \* requests and the pipelines they start
  Services,  \* bound of the model: services ever created
  NoService

ASSUME RailwayAssumption == NoService \notin Services

VARIABLES
  service,  \* Railway: the latest deployment of each service
  inst,     \* the row: status, provider_ref, what its domain points at, whether
            \* it has links
  rjob,     \* requests and pipelines
  upset     \* history: overlap, an API call that failed or lost its answer, restart

railwayVars == <<service, inst, rjob, upset>>

Path == "path"   \* the endpoint token in place of a host name
Off == [pc |-> "idle", ref |-> NoService]
AllOff == \A j \in RJobs : rjob[j].pc = "idle"
Exists(s) == s \in Services /\ service[s] # "none"

Stage(j, pc) == rjob[j].pc = pc
GoesTo(j, pc) == rjob' = [rjob EXCEPT ![j].pc = pc]
Over(j) == rjob' = [rjob EXCEPT ![j] = Off]
Same == UNCHANGED upset

(* What the mutations of the API do to a service.                          *)
CreateService(s)    == ~Exists(s) /\ service' = [service EXCEPT ![s] = "empty"]
ConfigureService(s) == Exists(s) /\ UNCHANGED service
TriggerDeploy(s)    == Exists(s) /\ service' = [service EXCEPT ![s] = "deploying"]
StopService(s) ==
  service' = IF Exists(s) /\ service[s] # "empty" THEN [service EXCEPT ![s] = "stopped"] ELSE service
RestartService(s) == service' = IF Exists(s) THEN [service EXCEPT ![s] = "deploying"] ELSE service
RemoveService(s)  == service' = IF Exists(s) THEN [service EXCEPT ![s] = "none"] ELSE service

(* A call of _gql raises: nothing happened, or only its answer was lost.   *)
Raises(j) == GoesTo(j, "failing") /\ upset' = upset \cup {"api"}

Start(j, pc) ==
  /\ Stage(j, "idle") /\ inst.status # "deleted"
  /\ rjob' = [rjob EXCEPT ![j] = [pc |-> pc, ref |-> inst.ref]]
  /\ upset' = IF AllOff THEN upset ELSE upset \cup {"overlap"}
  /\ UNCHANGED <<service, inst>>

-----------------------------------------------------------------------------
(* POST deploy refuses while one is in progress, POST redeploy does not.   *)
DeployOnRailway(j, again) ==
  /\ again \/ inst.status \notin {"deploying", "starting"}
  /\ Start(j, "queued")

Prepare(j) ==
  /\ Stage(j, "queued")
  /\ inst' = [inst EXCEPT !.status = "deploying"]
  /\ GoesTo(j, "service")
  /\ Same /\ UNCHANGED service

(* The service of the row as it was read, or a new one, which Railway may  *)
(* have created although the call raises.                                  *)
EnsureService(j) ==
  /\ Stage(j, "service")
  /\ \/ rjob[j].ref # NoService /\ GoesTo(j, "domain") /\ Same /\ UNCHANGED service
     \/ /\ rjob[j].ref = NoService
        /\ \/ \E s \in Services : /\ CreateService(s)
                                  /\ \/ rjob' = [rjob EXCEPT ![j].pc = "ref", ![j].ref = s] /\ Same
                                     \/ Raises(j)
           \/ Raises(j) /\ UNCHANGED service
  /\ UNCHANGED inst

(* Mutant of WriteRef: the service is not remembered.                      *)
WriteRefNot(j) ==
  /\ Stage(j, "ref")
  /\ GoesTo(j, "domain")
  /\ Same /\ UNCHANGED <<service, inst>>

WriteRef(j) ==
  /\ Stage(j, "ref")
  /\ inst' = [inst EXCEPT !.ref = rjob[j].ref]
  /\ GoesTo(j, "domain")
  /\ Same /\ UNCHANGED service

CreateDomain(s) == inst' = [inst EXCEPT !.domain = s]

(* The latest domain of the instance, be it the path endpoint that every   *)
(* created instance gets; only without any is one made for this service.   *)
EnsureDomain(j) ==
  /\ Stage(j, "domain")
  /\ \/ inst.domain # NoService /\ GoesTo(j, "configure") /\ Same /\ UNCHANGED inst
     \/ /\ inst.domain = NoService
        /\ \/ GoesTo(j, "configure") /\ Same /\ CreateDomain(rjob[j].ref)
           \/ Raises(j) /\ UNCHANGED inst
  /\ UNCHANGED service

Configure(j) ==
  /\ Stage(j, "configure")
  /\ inst' = [inst EXCEPT !.status = "deploying"]
  /\ \/ ConfigureService(rjob[j].ref) /\ GoesTo(j, "trigger") /\ Same
     \/ Raises(j) /\ UNCHANGED service

(* restart_service for a redeploy of an instance that had a service,       *)
(* start_service otherwise: a new deployment either way, be its answer lost*)
Trigger(j) ==
  /\ Stage(j, "trigger")
  /\ inst' = [inst EXCEPT !.status = "deploying"]
  /\ \/ TriggerDeploy(rjob[j].ref) /\ ((GoesTo(j, "polling") /\ Same) \/ Raises(j))
     \/ Raises(j) /\ UNCHANGED service

(* The status Railway gives is looked up in STATUS_MAP, which railway.py   *)
(* defines (34) and deployments.py does not import (15-25): the first      *)
(* deployment named, whatever its status, is a NameError that fails the    *)
(* pipeline. The health check is reached only when no attempt named one,   *)
(* which is Railway's to choose.                                           *)
Poll(j) ==
  /\ Stage(j, "polling")
  /\ \/ Exists(rjob[j].ref) /\ service[rjob[j].ref] # "empty" /\ GoesTo(j, "failing") /\ Same
     \/ GoesTo(j, "health") /\ Same
     \/ Raises(j)
  /\ UNCHANGED <<service, inst>>

CheckHealth(j) ==
  /\ Stage(j, "health")
  /\ inst' = [inst EXCEPT !.status = "deploying"]
  /\ GoesTo(j, IF Exists(inst.domain) /\ service[inst.domain] = "up" THEN "provisioning" ELSE "failing")
  /\ Same /\ UNCHANGED service

(* An instance without links gets them through the proxy of the local      *)
(* worker, which does not know it: 502 for every protocol.                 *)
ProvisionLinks(j) ==
  /\ Stage(j, "provisioning")
  /\ GoesTo(j, IF inst.links THEN "running" ELSE "failing")
  /\ Same /\ UNCHANGED <<service, inst>>

Conclude(j) ==
  /\ rjob[j].pc \in {"running", "failing"}
  /\ inst' = [inst EXCEPT !.status = IF Stage(j, "running") THEN "running" ELSE "failed"]
  /\ Over(j)
  /\ Same /\ UNCHANGED service

-----------------------------------------------------------------------------
(* An owner may restart what runs, an administrator whatever is not        *)
(* deleted. stop_service and restart_service have nothing to do without a  *)
(* service; an error, with its effect or without it, is the answer of the  *)
(* request, and leaves the row.                                            *)
StopOnRailway(j)    == Start(j, "stopping")
RestartOnRailway(j) == Start(j, "restarting")

Called(j) ==
  LET s == rjob[j].ref  op == rjob[j].pc IN
  /\ op \in {"stopping", "restarting"}
  /\ \/ /\ IF op = "stopping" THEN StopService(s) ELSE RestartService(s)
        /\ inst' = [inst EXCEPT !.status = IF op = "stopping" THEN "stopped" ELSE "starting"]
        /\ Same
     \/ /\ s # NoService /\ upset' = upset \cup {"api"}
        /\ (IF op = "stopping" THEN StopService(s) ELSE RestartService(s)) \/ UNCHANGED service
        /\ UNCHANGED inst
  /\ Over(j)

(* The record is tombstoned although Railway refused to delete its service;*)
(* an administrator's request ends without it when the call itself failed  *)
(* (an httpx error is not a RailwayError), the owner's goes on.            *)
DeleteOnRailway(j) == Start(j, "deleting")

DeleteService(j) ==
  /\ Stage(j, "deleting")
  /\ \/ RemoveService(rjob[j].ref) /\ GoesTo(j, "tombstone") /\ Same
     \/ /\ rjob[j].ref # NoService /\ upset' = upset \cup {"api"}
        /\ RemoveService(rjob[j].ref) \/ UNCHANGED service
        /\ GoesTo(j, "tombstone") \/ Over(j)
  /\ UNCHANGED inst

MarkDeleted(j) ==
  /\ Stage(j, "tombstone")
  /\ inst' = [inst EXCEPT !.status = "deleted"]
  /\ Over(j)
  /\ Same /\ UNCHANGED service

-----------------------------------------------------------------------------
(* A deployment comes up or fails, a service that runs crashes.            *)
ServiceMoves(s) ==
  /\ \/ service[s] = "deploying" /\ service' = [service EXCEPT ![s] = "up"]
     \/ service[s] \in {"deploying", "up"} /\ service' = [service EXCEPT ![s] = "crashed"]
  /\ UNCHANGED <<inst, rjob, upset>>

ConsoleRestarts ==
  /\ ~AllOff
  /\ rjob' = [j \in RJobs |-> Off]
  /\ upset' = upset \cup {"restart"}
  /\ UNCHANGED <<service, inst>>

(* A new instance, or one that was restored with its links from a backup;  *)
(* its endpoint is missing when the Console was killed before it wrote it. *)
RailwayInit ==
  /\ service = [s \in Services |-> "none"]
  /\ inst \in [status : {"stopped"}, ref : {NoService}, domain : {NoService, Path}, links : BOOLEAN]
  /\ rjob = [j \in RJobs |-> Off]
  /\ upset = {}

-----------------------------------------------------------------------------
(* However often an instance is deployed, stopped and restarted, Railway   *)
(* runs (and bills) one service for it, the one its row names, and none    *)
(* when it is deleted, unless operations overlapped, the Console restarted *)
(* or a call to the API failed. And none ends in progress but through a    *)
(* restart of the Console, or a restart of the instance, which nothing     *)
(* follows up.                                                             *)
RailwayHolds ==
  /\ AllOff /\ upset = {} =>
       {s \in Services : Exists(s)} = IF inst.status = "deleted" THEN {} ELSE {inst.ref} \ {NoService}
  /\ AllOff /\ inst.status = "deploying" => "restart" \in upset

(* "Domain: reuse the active generated domain, or create one", and "Real   *)
(* end-to-end health check through Railway's public edge": the health check*)
(* passes for a service that is up.                                        *)
HealthCheckSeesService ==
  [][\A j \in RJobs : (Stage(j, "health") /\ service[rjob[j].ref] = "up" /\ ~Stage(j, "health")')
        => rjob'[j].pc # "failing"]_railwayVars

(* "Wait for Railway to report the deployment healthy": a pipeline whose   *)
(* deployment runs when it asks goes on to the health check, unless the    *)
(* call failed or the Console restarted.                                   *)
HealthyReportGoesOn ==
  [][\A j \in RJobs :
        /\ Stage(j, "polling") /\ ~Stage(j, "polling")'
        /\ service[rjob[j].ref] = "up" /\ upset' = upset
        => Stage(j, "health")']_railwayVars
=============================================================================
