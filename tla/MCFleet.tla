------------------------------- MODULE MCFleet -------------------------------
(***************************************************************************)
(* What starts and ends Cores: the worker's process driver, the Docker     *)
(* driver, and the Railway pipeline, each explored on its own. (The process*)
(* driver under the local pipeline is Deployment.)                         *)
(*                                                                         *)
(* Instances, requests, ports and processes are interchangeable; what      *)
(* Railway calls services are the processes' names, and its jobs the       *)
(* requests', so that the symmetries stay few.                             *)
(***************************************************************************)
EXTENDS WorkerDriver, DockerDriver, RailwayPipeline, TLC

CONSTANTS i1, i2, c1, c2, d1, q1, q2, p1, p2

VARIABLE focus   \* the part this behaviour explores

allVars == <<vars, dockerVars, railwayVars, focus>>

Symmetry ==
  Permutations(Instances) \cup Permutations(Calls) \cup Permutations(Ports)
  \cup Permutations(Pids)

In(part) ==
  /\ focus = part /\ UNCHANGED focus
  /\ IF part = "worker" THEN TRUE ELSE UNCHANGED vars
  /\ IF part = "docker" THEN TRUE ELSE UNCHANGED dockerVars
  /\ IF part = "railway" THEN TRUE ELSE UNCHANGED railwayVars

MCInit ==
  /\ focus \in {"worker", "docker", "railway"}
  /\ Init /\ DockerInit /\ RailwayInit
  /\ focus # "railway" => inst.domain = Path /\ inst.links

MCNext ==
  \/ \E c \in Calls : In("worker") /\ Request(c)
  \/ \E c \in Tasks : In("worker") /\ Step(c)
  \/ \E p \in Pids : In("worker") /\ Bind(p)
  \/ \E p \in Pids : In("worker") /\ Exit(p)
  \/ \E i \in Instances : In("worker") /\ Relaunch(i)
  \/ In("worker") /\ PodRestart
  \/ \E c \in DCalls, op \in {"launch", "restart"}, i \in Hosted : In("docker") /\ BeginDocker(c, op, i)
  \/ \E c \in DCalls, i \in Hosted : In("docker") /\ StopKnown(c, i)
  \/ \E c \in DTasks : In("docker") /\ StopEnds(c)
  \/ \E c \in DTasks : In("docker") /\ RunSucceeds(c)
  \/ \E c \in DTasks : In("docker") /\ RunFails(c)
  \/ \E c \in DCalls, i \in Hosted : In("docker") /\ RemoveKnown(c, i)
  \/ \E c \in DTasks : In("docker") /\ RmEnds(c)
  \/ \E c \in DTasks : In("docker") /\ Reply(c)
  \/ \E i \in Hosted : In("docker") /\ CoreExits(i)
  \/ In("docker") /\ WorkerRestarts
  \/ \E i \in Hosted : In("docker") /\ RelaunchNext(i)
  \/ \E j \in RJobs, again \in BOOLEAN : In("railway") /\ DeployOnRailway(j, again)
  \/ \E j \in RJobs : In("railway") /\ Prepare(j)
  \/ \E j \in RJobs : In("railway") /\ EnsureService(j)
  \/ \E j \in RJobs : In("railway") /\ WriteRef(j)
  \/ \E j \in RJobs : In("railway") /\ EnsureDomain(j)
  \/ \E j \in RJobs : In("railway") /\ Configure(j)
  \/ \E j \in RJobs : In("railway") /\ Trigger(j)
  \/ \E j \in RJobs : In("railway") /\ Poll(j)
  \/ \E j \in RJobs : In("railway") /\ CheckHealth(j)
  \/ \E j \in RJobs : In("railway") /\ ProvisionLinks(j)
  \/ \E j \in RJobs : In("railway") /\ Conclude(j)
  \/ \E j \in RJobs : In("railway") /\ StopOnRailway(j)
  \/ \E j \in RJobs : In("railway") /\ RestartOnRailway(j)
  \/ \E j \in RJobs : In("railway") /\ Called(j)
  \/ \E j \in RJobs : In("railway") /\ DeleteOnRailway(j)
  \/ \E j \in RJobs : In("railway") /\ DeleteService(j)
  \/ \E j \in RJobs : In("railway") /\ MarkDeleted(j)
  \/ \E s \in Services : In("railway") /\ ServiceMoves(s)
  \/ In("railway") /\ ConsoleRestarts

MCSpec == MCInit /\ [][MCNext]_allVars

-----------------------------------------------------------------------------
(* DockerRoutesOwn of DockerDriver, and its types.                         *)
DockerHolds == DockerTypeOK /\ DockerRoutesOwn
=============================================================================
