----------------------------- MODULE WorkerDriver -----------------------------
(***************************************************************************)
(* The EMUNEL Worker of one node with the process driver: its lifecycle    *)
(* requests (worker/emunel_worker/main.py), ProcessDriver and PortAllocator*)
(* (driver.py), the registry on disk (registry.py), the Core processes it  *)
(* starts, and the restart of the pod, which kills all of them.            *)
(*                                                                         *)
(* A request keeps what it has read across its awaits: the process it      *)
(* waits for and the port it was given.                                    *)
(*                                                                         *)
(* Left out: the Docker driver, the proxies and their clients, heartbeat   *)
(* and metrics, limits and environment of a Core, and failed writes of the *)
(* registry.                                                               *)
(***************************************************************************)
EXTENDS Naturals, FiniteSets

CONSTANTS
  Instances,
  Calls,     \* requests of the Console in flight
  Boot,      \* the task _relaunch_known_instances
  Ports,     \* the range of the PortAllocator
  Pids,      \* bound of the model: processes alive at a time
  None

ASSUME WorkerAssumption ==
  /\ Boot \notin Calls
  /\ None \notin Instances \cup Ports \cup Pids \cup [pid : Pids, port : Ports]

VARIABLES
  handle,    \* driver.handles
  used,      \* PortAllocator.used
  registry,  \* registry.json: the port of each instance
  proc,      \* Core processes
  call,      \* the requests, and the relaunch task
  todo,      \* what the relaunch task has read from the registry
  raced,     \* history: instances whose requests have overlapped
  removed    \* history: processes alive when their instance was removed

vars == <<handle, used, registry, proc, call, todo, raced, removed>>
histVars == <<raced, removed>>

Tasks == Calls \cup {Boot}
Dead == [stage |-> "none", inst |-> None, port |-> None]
Idle == [pc |-> "idle", op |-> None, inst |-> None, pid |-> None, port |-> None]

Alive(p)   == proc[p].stage # "none"
Serving(p) == proc[p].stage = "serving"
Cores(i)   == {p \in Pids : Alive(p) /\ proc[p].inst = i}
Known(i)   == handle[i] # None
Runs(i)    == Known(i) /\ Alive(handle[i].pid)

(* Mutant of Free: what the probe can bind is free.                        *)
FreeByProbe == {p \in Ports : \A q \in Pids : Serving(q) => proc[q].port # p}

(* PortAllocator.allocate: not used, and the probe can bind it.            *)
Free == {p \in Ports \ used : \A q \in Pids : Serving(q) => proc[q].port # p}

(* The request answers, and the relaunch task goes on to its next instance.*)
Answer(c, result) ==
  call' = [call EXCEPT ![c] = IF c = Boot THEN Idle ELSE [Idle EXCEPT !.pc = result]]

(* A request on an instance overlaps the others on the same instance.      *)
Race(c, i) ==
  raced' = IF \E d \in Tasks \ {c} : call[d].inst = i /\ call[d].pc \in {"stop", "spawn"}
           THEN raced \cup {i} ELSE raced

-----------------------------------------------------------------------------
(* Mutant of Allocate: the preferred port is taken without a look.         *)
AllocatePreferred(c, i, op, preferred) ==
  \E p \in IF preferred # None THEN {preferred} ELSE Free :
    /\ used' = used \cup {p}
    /\ call' = [call EXCEPT ![c] = [Idle EXCEPT !.pc = "spawn", !.op = op,
                                                !.inst = i, !.port = p]]

(* driver.launch up to the await of the new process: the preferred port if *)
(* it is free, or any other; DriverError when there is none.               *)
Allocate(c, i, op, preferred) ==
  \/ \E p \in IF preferred \in Free THEN {preferred} ELSE Free :
       /\ used' = used \cup {p}
       /\ call' = [call EXCEPT ![c] = [Idle EXCEPT !.pc = "spawn", !.op = op,
                                                   !.inst = i, !.port = p]]
  \/ Free = {} /\ Answer(c, "error") /\ UNCHANGED used

(* Mutant of Await: waits for the port instead of the process.             *)
AwaitPort(c, i, op) ==
  call' = [call EXCEPT ![c] = [Idle EXCEPT !.pc = "stop", !.op = op, !.inst = i,
                                           !.pid = handle[i].port]]

(* The await of a process that was sent SIGTERM.                           *)
Await(c, i, op) ==
  call' = [call EXCEPT ![c] = [Idle EXCEPT !.pc = "stop", !.op = op, !.inst = i,
                                           !.pid = handle[i].pid]]

Forget(i) == handle' = [handle EXCEPT ![i] = None]

(* Mutant of Launch: the old process is left running.                      *)
LaunchOver(c, i) ==
  /\ call[c].pc = "idle"
  /\ Allocate(c, i, "launch", None) /\ Forget(i)
  /\ Race(c, i)
  /\ UNCHANGED <<registry, proc, todo, removed>>

(* POST launch: a process that is still there is stopped first; its handle *)
(* is popped, and its port stays used.                                     *)
Launch(c, i) ==
  /\ call[c].pc = "idle"
  /\ IF Runs(i)
     THEN Await(c, i, "launch") /\ UNCHANGED <<handle, used>>
     ELSE Allocate(c, i, "launch", None) /\ Forget(i)
  /\ Race(c, i)
  /\ UNCHANGED <<registry, proc, todo, removed>>

(* POST restart: the same, but the handle stays until the new one is set.  *)
Restart(c, i) ==
  /\ call[c].pc = "idle"
  /\ IF Runs(i)
     THEN Await(c, i, "restart") /\ UNCHANGED used
     ELSE Allocate(c, i, "restart", None)
  /\ Race(c, i)
  /\ UNCHANGED <<handle, registry, proc, todo, removed>>

(* POST stop.                                                              *)
Stop(c, i) ==
  /\ call[c].pc = "idle"
  /\ IF Runs(i) THEN Await(c, i, "stop")
     ELSE Answer(c, IF Known(i) THEN "ok" ELSE "error")
  /\ Race(c, i)
  /\ UNCHANGED <<handle, used, registry, proc, todo, removed>>

(* POST remove: the handle is popped before stop looks for it, so the      *)
(* process is not stopped; its port is released, its data and record go.   *)
Remove(c, i) ==
  /\ call[c].pc = "idle"
  /\ Forget(i)
  /\ used' = IF Known(i) THEN used \ {handle[i].port} ELSE used
  /\ registry' = [registry EXCEPT ![i] = None]
  /\ Answer(c, "ok")
  /\ Race(c, i)
  /\ removed' = removed \cup Cores(i)
  /\ UNCHANGED <<proc, todo>>

(* The process has gone, or is killed after the timeout; what follows.     *)
Stopped(c) ==
  LET i == call[c].inst IN
  /\ call[c].pc = "stop"
  /\ proc' = [proc EXCEPT ![call[c].pid] = Dead]
  /\ CASE call[c].op = "stop"    -> Answer(c, "ok") /\ UNCHANGED <<handle, used>>
       [] call[c].op = "restart" -> Allocate(c, i, "restart", None) /\ UNCHANGED handle
       [] call[c].op = "launch"  -> Allocate(c, i, "launch", None) /\ Forget(i)
  /\ removed' = removed \ {call[c].pid}
  /\ UNCHANGED <<registry, todo, raced>>

(* create_subprocess_exec returns: the handle is set, whatever it was, and *)
(* the request records the launch; or it raises, and the port stays used.  *)
(* A process number is not given again while someone still refers to it.   *)
Spawn(c) ==
  LET i == call[c].inst IN
  /\ call[c].pc = "spawn"
  /\ \E p \in Pids :
       /\ ~Alive(p)
       /\ \A d \in Tasks : call[d].pid # p
       /\ \A j \in Instances \ {i} : Known(j) => handle[j].pid # p
       /\ proc' = [proc EXCEPT ![p] = [stage |-> "starting", inst |-> i, port |-> call[c].port]]
       /\ handle' = [handle EXCEPT ![i] = [pid |-> p, port |-> call[c].port]]
  /\ registry' = IF c = Boot THEN registry ELSE [registry EXCEPT ![i] = call[c].port]
  /\ Answer(c, "ok")
  /\ UNCHANGED <<used, todo, raced, removed>>

SpawnFails(c) ==
  /\ call[c].pc = "spawn"
  /\ Answer(c, "error")
  /\ UNCHANGED <<handle, used, registry, proc, todo, raced, removed>>

(* The answer reaches the Console.                                         *)
Done(c) ==
  /\ call[c].pc \in {"ok", "error"}
  /\ call' = [call EXCEPT ![c] = Idle]
  /\ UNCHANGED <<handle, used, registry, proc, todo, raced, removed>>

-----------------------------------------------------------------------------
(* A Core binds its port, or exits when the port is taken.                 *)
Bind(p) ==
  /\ proc[p].stage = "starting"
  /\ IF \E q \in Pids : Serving(q) /\ proc[q].port = proc[p].port
     THEN proc' = [proc EXCEPT ![p] = Dead] /\ removed' = removed \ {p}
     ELSE proc' = [proc EXCEPT ![p].stage = "serving"] /\ UNCHANGED removed
  /\ UNCHANGED <<handle, used, registry, call, todo, raced>>

(* A Core exits: it was told to, or it failed.                             *)
Exit(p) ==
  /\ Alive(p)
  /\ proc' = [proc EXCEPT ![p] = Dead]
  /\ removed' = removed \ {p}
  /\ UNCHANGED <<handle, used, registry, call, todo, raced>>

(* The pod restarts: processes and memory are gone, and _startup creates   *)
(* the task that relaunches what the registry knows.                       *)
PodRestart ==
  /\ handle' = [i \in Instances |-> None]
  /\ used' = {}
  /\ proc' = [p \in Pids |-> Dead]
  /\ call' = [c \in Tasks |-> Idle]
  /\ todo' = registry
  /\ raced' = {} /\ removed' = {}
  /\ UNCHANGED registry

(* _relaunch_known_instances: one instance after the other, with the port  *)
(* it had; an instance that has been launched meanwhile is skipped.        *)
Relaunch(i) ==
  /\ call[Boot].pc = "idle"
  /\ todo[i] # None
  /\ todo' = [todo EXCEPT ![i] = None]
  /\ IF Known(i) THEN UNCHANGED <<call, used, raced>>
     ELSE Allocate(Boot, i, "relaunch", todo[i]) /\ Race(Boot, i)
  /\ UNCHANGED <<handle, registry, proc, removed>>

-----------------------------------------------------------------------------
Init ==
  /\ handle = [i \in Instances |-> None]
  /\ used = {}
  /\ registry = [i \in Instances |-> None]
  /\ proc = [p \in Pids |-> Dead]
  /\ call = [c \in Tasks |-> Idle]
  /\ todo = registry
  /\ raced = {} /\ removed = {}

Request(c) ==
  \/ \E i \in Instances : Launch(c, i) \/ Restart(c, i) \/ Stop(c, i) \/ Remove(c, i)
  \/ Done(c)

Step(c) == Stopped(c) \/ Spawn(c) \/ SpawnFails(c)

Next ==
  \/ \E c \in Calls : Request(c)
  \/ \E c \in Tasks : Step(c)
  \/ \E p \in Pids : Bind(p) \/ Exit(p)
  \/ \E i \in Instances : Relaunch(i)
  \/ PodRestart

Spec == Init /\ [][Next]_vars

-----------------------------------------------------------------------------
HandleRecord == [pid : Pids, port : Ports]
CoreRecord == [stage : {"starting", "serving"}, inst : Instances, port : Ports]
CallRecord == [pc : {"idle", "stop", "spawn", "ok", "error"},
               op : {"launch", "restart", "stop", "relaunch", None},
               inst : Instances \cup {None}, pid : Pids \cup {None},
               port : Ports \cup {None}]

TypeOK ==
  /\ handle \in [Instances -> HandleRecord \cup {None}]
  /\ used \subseteq Ports
  /\ registry \in [Instances -> Ports \cup {None}]
  /\ proc \in [Pids -> CoreRecord \cup {Dead}]
  /\ call \in [Tasks -> CallRecord]
  /\ todo \in [Instances -> Ports \cup {None}]
  /\ raced \subseteq Instances /\ removed \subseteq Pids

(* No port is given twice: the ports of the handles and of the launches    *)
(* under way are used and all different, although ports leak, launches of  *)
(* one instance overlap, and remove releases while others allocate.        *)
PortsAreExclusive ==
  /\ \A i \in Instances : Known(i) =>
       /\ handle[i].port \in used
       /\ \A j \in Instances \ {i} : Known(j) => handle[j].port # handle[i].port
       /\ \A c \in Tasks : call[c].pc = "spawn" => call[c].port # handle[i].port
  /\ \A c \in Tasks : call[c].pc = "spawn" =>
       /\ call[c].port \in used
       /\ \A d \in Tasks \ {c} : call[d].pc = "spawn" => call[d].port # call[c].port

(* The proxies send the traffic of an instance, with its token, to the port*)
(* of its handle: while its process is there, only its own Core answers on *)
(* that port, but for a Core that remove has left behind.                  *)
RoutesToOwnCore ==
  \A i \in Instances, q \in Pids :
    Runs(i) /\ Serving(q) /\ proc[q].port = handle[i].port => proc[q].inst = i \/ q \in removed

(* Two Cores of an instance would write the same state.json: without       *)
(* overlapping requests, and without a Core that remove left behind, there *)
(* is never more than one, whatever fails.                                 *)
OneCorePerInstance ==
  \A i \in Instances :
    i \notin raced /\ Cores(i) \cap removed = {} => Cardinality(Cores(i)) <= 1

(* Together: no port is given twice, an instance's traffic goes to its own *)
(* Core, and it has one Core at most.                                      *)
WorkerSafe == TypeOK /\ PortsAreExclusive /\ RoutesToOwnCore /\ OneCorePerInstance
=============================================================================
