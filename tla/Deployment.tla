------------------------------ MODULE Deployment ------------------------------
(***************************************************************************)
(* The life cycle of one instance in the Console: the requests deploy,     *)
(* redeploy, restart, stop and delete (routers/instances.py, admin.py) and *)
(* the local pipeline (services/deployments.py), with the worker they call *)
(* (WorkerDriver).  Nothing serialises them: each step between two awaits  *)
(* reads and writes instances.status on its own, and a pipeline goes on in *)
(* the background after its request was answered.                          *)
(*                                                                         *)
(* The five statuses of a deployment in progress are one here: no property *)
(* and no guard of the code tells them apart.                              *)
(*                                                                         *)
(* Left out: the Railway provider (RailwayPipeline), the table of          *)
(* deployments beyond the node of the latest one, which links a deployment *)
(* provisions, the volume and time limits that may refuse a deployment     *)
(* (VolumeEnforcement).                                                    *)
(***************************************************************************)
EXTENDS WorkerDriver, TLC

CONSTANT Inst   \* the instance; it is the only one of the worker here

VARIABLES
  status,    \* instances.status
  job,       \* where each request or pipeline is
  latest,    \* the latest deployment, and whether its row has a node
  disturbed  \* history: whether operations overlapped, a call lost its
             \* answer, the pod restarted

deploymentVars == <<vars, status, job, latest, disturbed>>

DeploymentSymmetry == Permutations(Calls) \cup Permutations(Ports) \cup Permutations(Pids)   \* for TLC

Goto(j, pc) == job' = [job EXCEPT ![j] = pc]

Quiet == /\ \A j \in Calls : job[j] = "idle"
         /\ \A c \in Calls \cup {Boot} : call[c].pc = "idle"

(* A request starts on an instance that is not deleted (owned_instance);   *)
(* what it reads before its first call is read in the same step.           *)
Begin(j, lost) ==
  /\ job[j] = "idle" /\ call[j].pc = "idle"
  /\ status # "deleted"
  /\ disturbed' = disturbed \cup lost \cup (IF Quiet THEN {} ELSE {"overlap"})

-----------------------------------------------------------------------------
(* POST deploy looks for a deployment in progress, redeploy does not; then *)
(* both ask for the limits.  A restart, and an action of the administrator,*)
(* is a redeploy that does not ask.                                        *)
Deploy(j) ==
  /\ Begin(j, {})
  /\ status # "deploying"
  /\ Goto(j, "asked")
  /\ UNCHANGED <<vars, status, latest>>

Redeploy(j) ==
  /\ Begin(j, {})
  /\ Goto(j, "asked")
  /\ UNCHANGED <<vars, status, latest>>

(* A limit is reached.                                                     *)
Refused(j) ==
  /\ job[j] = "asked"
  /\ Goto(j, "idle")
  /\ UNCHANGED <<vars, status, latest, disturbed>>

(* Mutant of Queue: a deployment without a node, written as NULL.          *)
QueueNull(j) ==
  /\ job[j] = "asked"
  /\ Goto(j, "queued")
  /\ latest' = [job |-> j, node |-> None]
  /\ UNCHANGED <<vars, status, disturbed>>

(* deploy_instance inserts the deployment and creates the pipeline task;   *)
(* the status of the instance is not touched yet.                          *)
Queue(j) ==
  /\ job[j] = "asked"
  /\ Goto(j, "queued")
  /\ latest' = [job |-> j, node |-> FALSE]
  /\ UNCHANGED <<vars, status, disturbed>>

Preparing(j) ==
  /\ job[j] = "queued"
  /\ status' = "deploying"
  /\ Goto(j, "preparing")
  /\ UNCHANGED <<vars, latest, disturbed>>

(* pick_worker always finds a node; the deployment's row gets it.          *)
PickNode(j) ==
  /\ job[j] = "preparing"
  /\ latest' = IF latest.job = j THEN [latest EXCEPT !.node = TRUE] ELSE latest
  /\ Goto(j, "building")
  /\ UNCHANGED <<vars, status, disturbed>>

(* Building and starting: the status is written again.                     *)
Starting(j) ==
  /\ job[j] = "building"
  /\ status' = "deploying"
  /\ Goto(j, "starting")
  /\ UNCHANGED <<vars, latest, disturbed>>

LaunchCore(j) ==
  /\ job[j] = "starting"
  /\ Launch(j, Inst)
  /\ Goto(j, "launching")
  /\ UNCHANGED <<status, latest, disturbed>>

CoreLaunched(j) ==
  /\ job[j] = "launching"
  /\ call[j].pc = "ok" /\ Done(j)
  /\ status' = "deploying"
  /\ Goto(j, "probing")
  /\ UNCHANGED <<latest, disturbed>>

(* Mutant of CallFails: a launch that fails is not reported.               *)
CallFailsSilent(j) ==
  /\ job[j] \in {"launching", "stopping"}
  /\ call[j].pc = "error" /\ Done(j)
  /\ Goto(j, "idle")
  /\ UNCHANGED <<status, latest, disturbed>>

(* The worker answers an error to the launch or the stop.                  *)
CallFails(j) ==
  /\ job[j] \in {"launching", "stopping"}
  /\ call[j].pc = "error" /\ Done(j)
  /\ Goto(j, IF job[j] = "launching" THEN "failing" ELSE "idle")
  /\ UNCHANGED <<status, latest, disturbed>>

(* No answer in time, or no worker: the call goes on without its caller.   *)
CallLost(j) ==
  /\ job[j] \in {"starting", "launching", "stopping", "removing"}
  /\ Goto(j, CASE job[j] \in {"starting", "launching"} -> "failing"
               [] job[j] = "stopping" -> "idle"
               [] job[j] = "removing" -> "deleting")
  /\ disturbed' = disturbed \cup {"lost"}
  /\ UNCHANGED <<vars, status, latest>>

(* The answer to a caller that has given up.                               *)
Unheard(j) ==
  /\ job[j] \notin {"launching", "stopping", "removing"}
  /\ Done(j)
  /\ UNCHANGED <<status, job, latest, disturbed>>

(* The health check: a Core that answers on the port of the handle; else it*)
(* fails at once for a process that has gone, or after the last attempt.   *)
Probe(j) ==
  /\ job[j] = "probing"
  /\ \/ /\ Runs(Inst)
        /\ \E p \in Pids : Serving(p) /\ proc[p].port = handle[Inst].port
        /\ Goto(j, "provisioning")
     \/ Goto(j, "failing")
  /\ UNCHANGED <<vars, status, latest, disturbed>>

(* _provision_default_link: at least one protocol, or the deployment fails.*)
Provision(j) ==
  /\ job[j] = "provisioning"
  /\ Goto(j, "running") \/ Goto(j, "failing")
  /\ UNCHANGED <<vars, status, latest, disturbed>>

(* _set_deployment, then _set_instance: the same status is written twice.  *)
Finish(j) ==
  /\ job[j] \in {"running", "failing"}
  /\ status' = IF job[j] = "running" THEN "running" ELSE "failed"
  /\ Goto(j, IF job[j] = "running" THEN "running2" ELSE "failing2")
  /\ UNCHANGED <<vars, latest, disturbed>>

FinishAgain(j) ==
  /\ job[j] \in {"running2", "failing2"}
  /\ status' = IF job[j] = "running2" THEN "running" ELSE "failed"
  /\ Goto(j, "idle")
  /\ UNCHANGED <<vars, latest, disturbed>>

-----------------------------------------------------------------------------
(* POST stop, and the stop of the volume loop.                             *)
StopInstance(j) ==
  /\ Begin(j, {})
  /\ Stop(j, Inst)
  /\ Goto(j, "stopping")
  /\ UNCHANGED <<status, latest>>

InstanceStopped(j) ==
  /\ job[j] = "stopping"
  /\ call[j].pc = "ok" /\ Done(j)
  /\ status' = "stopped"
  /\ Goto(j, "idle")
  /\ UNCHANGED <<latest, disturbed>>

(* Mutant of Delete: only a running instance is removed from the worker.   *)
DeleteRunning(j) ==
  /\ \/ /\ latest.node /\ status = "running"
        /\ Begin(j, {})
        /\ Remove(j, Inst)
        /\ Goto(j, "removing")
     \/ /\ Begin(j, IF latest.node /\ status = "running" THEN {"lost"} ELSE {})
        /\ UNCHANGED vars
        /\ Goto(j, "deleting")
  /\ UNCHANGED <<status, latest>>

(* DELETE: the worker is asked if the latest deployment has a node, and may*)
(* not be there; the record is tombstoned whatever comes back.             *)
Delete(j) ==
  /\ \/ /\ latest.node
        /\ Begin(j, {})
        /\ Remove(j, Inst)
        /\ Goto(j, "removing")
     \/ /\ Begin(j, IF latest.node THEN {"lost"} ELSE {})
        /\ UNCHANGED vars
        /\ Goto(j, "deleting")
  /\ UNCHANGED <<status, latest>>

Removed(j) ==
  /\ job[j] = "removing"
  /\ Done(j)
  /\ Goto(j, "deleting")
  /\ UNCHANGED <<status, latest, disturbed>>

Tombstone(j) ==
  /\ job[j] = "deleting"
  /\ status' = "deleted"
  /\ Goto(j, "idle")
  /\ UNCHANGED <<vars, latest, disturbed>>

-----------------------------------------------------------------------------
(* Console and worker restart together: the pipelines are gone, the tables *)
(* and the registry stay.                                                  *)
ConsoleRestart ==
  /\ PodRestart
  /\ job' = [j \in Calls |-> "idle"]
  /\ disturbed' = disturbed \cup {"restart"}
  /\ UNCHANGED <<status, latest>>

Worker ==
  /\ \/ \E c \in Calls \cup {Boot} : Step(c)
     \/ \E p \in Pids : Bind(p) \/ Exit(p)
     \/ Relaunch(Inst)
  /\ UNCHANGED <<status, job, latest, disturbed>>

DeploymentInit ==
  /\ Init
  /\ status = "stopped"
  /\ job = [j \in Calls |-> "idle"]
  /\ latest = [job |-> None, node |-> FALSE]
  /\ disturbed = {}

UserRequest(j) == Deploy(j) \/ Redeploy(j) \/ StopInstance(j) \/ Delete(j)

JobStep(j) ==
  \/ Refused(j) \/ Queue(j) \/ Preparing(j) \/ PickNode(j) \/ Starting(j) \/ LaunchCore(j)
  \/ CoreLaunched(j) \/ CallFails(j) \/ CallLost(j) \/ Unheard(j)
  \/ Probe(j) \/ Provision(j) \/ Finish(j) \/ FinishAgain(j)
  \/ InstanceStopped(j) \/ Removed(j) \/ Tombstone(j)

DeploymentNext ==
  \/ \E j \in Calls : UserRequest(j) \/ JobStep(j)
  \/ Worker \/ ConsoleRestart

DeploymentSpec == DeploymentInit /\ [][DeploymentNext]_deploymentVars

-----------------------------------------------------------------------------
DeploymentTypeOK ==
  /\ TypeOK
  /\ status \in {"stopped", "deploying", "running", "failed", "deleted"}
  /\ job \in [Calls -> {"idle", "asked", "queued", "preparing", "building", "starting",
                       "launching", "probing", "provisioning", "running", "running2",
                       "failing", "failing2", "stopping", "removing", "deleting"}]
  /\ latest \in [job : Calls \cup {None}, node : BOOLEAN]
  /\ disturbed \subseteq {"overlap", "lost", "restart"}

(* Between operations that did not overlap, and did not lose the worker,   *)
(* the status tells what the worker has: no Core after a stop, a known one *)
(* when running, none it would start again when deleted.                   *)
StatusIsTrue ==
  Quiet /\ disturbed = {} =>
    /\ status = "stopped" => Cores(Inst) = {}
    /\ status = "running" => Known(Inst) /\ registry[Inst] = handle[Inst].port
    /\ status = "deleted" => ~Known(Inst) /\ registry[Inst] = None

(* An instance "in progress" refuses deployments: however requests and     *)
(* pipelines overlap and fail, none stays so once they have ended, unless  *)
(* the Console was restarted under its pipelines.                          *)
ProgressEnds ==
  Quiet /\ "restart" \notin disturbed => status # "deploying"

(* Together.                                                               *)
DeploymentHolds == DeploymentTypeOK /\ StatusIsTrue /\ ProgressEnds
=============================================================================
