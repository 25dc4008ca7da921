---------------------------- MODULE DockerDriver ----------------------------
(***************************************************************************)
(* DockerDriver of worker/emunel_worker/driver.py behind the requests of   *)
(* main.py: what the Worker remembers of an instance (handle, port) and    *)
(* what the Docker daemon holds, which differ whenever a command fails, is *)
(* given up by its timeout, or the Worker restarts. Containers are named   *)
(* after the instance; nothing but remove takes a name away.               *)
(***************************************************************************)
EXTENDS Naturals, FiniteSets

CONSTANTS
  Hosted,     \* the instances of this Worker
  DCalls,     \* requests in flight
  HostPorts,  \* the range of the PortAllocator
  Absent

ASSUME DockerAssumption == Absent \notin HostPorts \cup Hosted

VARIABLES
  dhandle,    \* driver.handles: the port of an instance
  dused,      \* PortAllocator.used
  dregistry,  \* registry.json: the port of each instance
  container,  \* the daemon: state and published port of emunel-inst-<id>
  dcall,      \* the requests, and the command each awaits
  relaunch    \* instances the relaunch task has yet to try

dockerVars == <<dhandle, dused, dregistry, container, dcall, relaunch>>

Startup == "startup"   \* the task _relaunch_known_instances
DTasks == DCalls \cup {Startup}
NotLaunched == [state |-> "none", port |-> Absent]
Ready == [pc |-> "idle", op |-> "none", inst |-> Absent, port |-> Absent]

Launched(i) == dhandle[i] # Absent
Holds(i, p) == container[i].state = "running" /\ container[i].port = p

(* Mutant of Bindable: a port is free when nothing listens on it.          *)
BindableNow == {p \in HostPorts : \A i \in Hosted : ~Holds(i, p)}

(* PortAllocator: neither given away nor published by a running container. *)
Bindable == {p \in HostPorts \ dused : \A i \in Hosted : ~Holds(i, p)}

To(c, pc, op, i, p) ==
  dcall' = [dcall EXCEPT ![c] = [pc |-> pc, op |-> op, inst |-> i, port |-> p]]

Return(c, result) ==
  dcall' = [dcall EXCEPT ![c] = IF c = Startup THEN Ready ELSE [Ready EXCEPT !.pc = result]]

(* launch up to the await of docker run: a port, or DriverError.           *)
AskRun(c, op, i, preferred) ==
  \/ \E p \in IF preferred \in Bindable THEN {preferred} ELSE Bindable :
       dused' = dused \cup {p} /\ To(c, "run", op, i, p)
  \/ Bindable = {} /\ Return(c, "error") /\ UNCHANGED dused

-----------------------------------------------------------------------------
(* POST launch and POST restart: a known instance is stopped first, whether*)
(* it runs or not.                                                         *)
BeginDocker(c, op, i) ==
  /\ dcall[c].pc = "idle"
  /\ IF Launched(i) THEN To(c, "stop", op, i, dhandle[i]) /\ UNCHANGED dused
     ELSE AskRun(c, op, i, Absent)
  /\ UNCHANGED <<dhandle, dregistry, container, relaunch>>

StopKnown(c, i) ==
  /\ dcall[c].pc = "idle"
  /\ IF Launched(i) THEN To(c, "stop", "stop", i, dhandle[i]) ELSE Return(c, "error")
  /\ UNCHANGED <<dhandle, dused, dregistry, container, relaunch>>

(* docker stop ends the container and leaves it with its name, its command *)
(* gives up, or the daemon refuses: launch goes on whatever happened, stop *)
(* and restart report it.                                                  *)
StopEnds(c) ==
  LET i == dcall[c].inst  op == dcall[c].op IN
  /\ dcall[c].pc = "stop"
  /\ \E fails \in BOOLEAN, halts \in BOOLEAN :
       /\ ~fails => halts /\ container[i].state # "none"
       /\ container' = IF halts /\ container[i].state = "running"
                       THEN [container EXCEPT ![i].state = "stopped"] ELSE container
       /\ CASE op = "stop" -> Return(c, IF fails THEN "error" ELSE "ok") /\ UNCHANGED <<dhandle, dused>>
            [] op = "restart" /\ fails -> Return(c, "error") /\ UNCHANGED <<dhandle, dused>>
            [] OTHER ->
                 /\ AskRun(c, op, i, Absent)
                 /\ dhandle' = IF op = "launch" THEN [dhandle EXCEPT ![i] = Absent] ELSE dhandle
  /\ UNCHANGED <<dregistry, relaunch>>

(* docker run: the daemon creates the container under its name and starts  *)
(* it when its port can be published.                                      *)
RunSucceeds(c) ==
  LET i == dcall[c].inst  p == dcall[c].port IN
  /\ dcall[c].pc = "run"
  /\ container[i].state = "none" /\ \A j \in Hosted : ~Holds(j, p)
  /\ container' = [container EXCEPT ![i] = [state |-> "running", port |-> p]]
  /\ dhandle' = [dhandle EXCEPT ![i] = p]
  /\ dregistry' = IF c = Startup THEN dregistry ELSE [dregistry EXCEPT ![i] = p]
  /\ Return(c, "ok")
  /\ UNCHANGED <<dused, relaunch>>

(* The name is taken, the port is, the image is missing, or the command is *)
(* killed by its timeout with the container created or even running: the   *)
(* port is released, and there is no handle.                               *)
RunFails(c) ==
  LET i == dcall[c].inst  p == dcall[c].port IN
  /\ dcall[c].pc = "run"
  /\ \E got \in {container[i], [state |-> "stopped", port |-> p], [state |-> "running", port |-> p]} :
       /\ got.state = "running" /\ got # container[i] => \A j \in Hosted : ~Holds(j, p)
       /\ container' = [container EXCEPT ![i] = IF container[i].state = "none" THEN got ELSE container[i]]
  /\ dused' = dused \ {p}
  /\ Return(c, "error")
  /\ UNCHANGED <<dhandle, dregistry, relaunch>>

(* POST remove: no handle, nothing to do but the record; otherwise the     *)
(* handle goes before docker rm is awaited.                                *)
RemoveKnown(c, i) ==
  /\ dcall[c].pc = "idle"
  /\ IF Launched(i)
     THEN To(c, "rm", "remove", i, dhandle[i]) /\ UNCHANGED dregistry
     ELSE Return(c, "ok") /\ dregistry' = [dregistry EXCEPT ![i] = Absent]
  /\ dhandle' = [dhandle EXCEPT ![i] = Absent]
  /\ UNCHANGED <<dused, container, relaunch>>

(* The port is released whether the container went or not.                 *)
RmEnds(c) ==
  LET i == dcall[c].inst IN
  /\ dcall[c].pc = "rm"
  /\ \E fails \in BOOLEAN, goes \in BOOLEAN :
       /\ ~fails => goes
       /\ container' = IF goes THEN [container EXCEPT ![i] = NotLaunched] ELSE container
       /\ dregistry' = IF fails THEN dregistry ELSE [dregistry EXCEPT ![i] = Absent]
       /\ Return(c, IF fails THEN "error" ELSE "ok")
  /\ dused' = dused \ {dcall[c].port}
  /\ UNCHANGED <<dhandle, relaunch>>

Reply(c) ==
  /\ dcall[c].pc \in {"ok", "error"}
  /\ dcall' = [dcall EXCEPT ![c] = Ready]
  /\ UNCHANGED <<dhandle, dused, dregistry, container, relaunch>>

-----------------------------------------------------------------------------
(* A Core exits by itself: its container has no restart policy.            *)
CoreExits(i) ==
  /\ container[i].state = "running"
  /\ container' = [container EXCEPT ![i].state = "stopped"]
  /\ UNCHANGED <<dhandle, dused, dregistry, dcall, relaunch>>

(* The Worker restarts; its containers do not.                             *)
WorkerRestarts ==
  /\ dhandle' = [i \in Hosted |-> Absent] /\ dused' = {}
  /\ dcall' = [c \in DTasks |-> Ready]
  /\ relaunch' = {i \in Hosted : dregistry[i] # Absent}
  /\ UNCHANGED <<dregistry, container>>

RelaunchNext(i) ==
  /\ i \in relaunch /\ dcall[Startup].pc = "idle"
  /\ relaunch' = relaunch \ {i}
  /\ IF Launched(i) THEN UNCHANGED <<dcall, dused>>
     ELSE AskRun(Startup, "relaunch", i, dregistry[i])
  /\ UNCHANGED <<dhandle, dregistry, container>>

DockerInit ==
  /\ dhandle = [i \in Hosted |-> Absent] /\ dused = {}
  /\ dregistry = [i \in Hosted |-> Absent]
  /\ container = [i \in Hosted |-> NotLaunched]
  /\ dcall = [c \in DTasks |-> Ready]
  /\ relaunch = {}

-----------------------------------------------------------------------------
DockerTypeOK ==
  /\ dhandle \in [Hosted -> HostPorts \cup {Absent}] /\ dused \subseteq HostPorts
  /\ dregistry \in [Hosted -> HostPorts \cup {Absent}]
  /\ container \in [Hosted -> [state : {"none", "running", "stopped"}, port : HostPorts \cup {Absent}]]
  /\ relaunch \subseteq Hosted

(* The proxies send the traffic of an instance, with its token, to the port*)
(* of its handle: no other instance's container ever answers there, nor do *)
(* two launches under way hold one port, although remove releases the port *)
(* of a container that may still run, a timed-out command leaves containers*)
(* the Worker does not know, and a restart forgets every port that is used.*)
DockerRoutesOwn ==
  /\ \A i, j \in Hosted : Launched(i) /\ Holds(j, dhandle[i]) => i = j
  /\ \A i \in Hosted : Launched(i) => dhandle[i] \in dused
  /\ \A c, d \in DTasks : dcall[c].pc = "run" /\ dcall[d].pc = "run" /\ c # d => dcall[c].port # dcall[d].port

(* main.py calls launch an idempotent (re)launch that redeploys hit: once  *)
(* the container of an instance the Worker knows has been stopped, docker  *)
(* run finds its name free.                                                *)
RelaunchIsIdempotent ==
  [][\A c \in DTasks : (dcall[c].pc = "stop" /\ dcall[c].op = "launch" /\ dcall'[c].pc = "run")
        => container'[dcall[c].inst].state = "none"]_dockerVars
=============================================================================
