----------------------------- MODULE FleetProofs -----------------------------
(***************************************************************************)
(* Proofs about what starts and ends Cores (MCFleet), for any instances,   *)
(* requests, ports, processes and services.                                *)
(*                                                                         *)
(* The process driver: its types, that no port is given twice, that the    *)
(* traffic of an instance does not reach the Core of another, and that two *)
(* Cores of one instance need overlapping requests or a remove. The last   *)
(* two are not inductive.  OwnPort adds what protects a port while a Core  *)
(* that has no handle any more still serves on it; OneCore adds what a     *)
(* request that is alone on its instance knows across its awaits.          *)
(*                                                                         *)
(* The Docker driver: Owners adds that a port in use has one owner, be it a*)
(* handle or a command that waits.  The Railway pipeline: RailInv adds what*)
(* the one operation under way knows of the service of the instance.       *)
(*                                                                         *)
(* The life cycle of an instance (Deployment), over the process driver:    *)
(* CalmInv adds what an operation that is alone knows of the Core of its   *)
(* instance at each of its stages, and what the next one may rely on.      *)
(***************************************************************************)
EXTENDS MCFleet, Deployment, FiniteSetTheorems, TLAPS

Busy(c, i) == call[c].inst = i /\ call[c].pc \in {"stop", "spawn"}

(* A request that waits knows its instance, and has its port before it     *)
(* starts a process.                                                       *)
CallInv ==
  \A c \in Tasks :
    /\ call[c].pc = "stop" => /\ call[c].op \in {"launch", "restart", "stop"}
                              /\ call[c].inst \in Instances
    /\ call[c].pc = "spawn" => call[c].inst \in Instances /\ call[c].port \in Ports

TInv == TypeOK /\ CallInv

(* The port of a Core that remove has not left behind stays used, and is   *)
(* nobody's but its instance's.                                            *)
OwnPort ==
  \A q \in Pids \ removed : Alive(q) =>
    /\ proc[q].port \in used
    /\ \A i \in Instances :
         Known(i) /\ handle[i].port = proc[q].port => proc[q].inst = i
    /\ \A c \in Tasks :
         call[c].pc = "spawn" /\ call[c].port = proc[q].port => proc[q].inst = call[c].inst

(* While requests on an instance did not overlap: its Core is the one of   *)
(* its handle, none when a process is about to be started, and the one     *)
(* request that waits, waits for that one.                                 *)
OneCoreOf(i) ==
  /\ \A p \in Cores(i) \ removed : Known(i) /\ handle[i].pid = p
  /\ \A c \in Tasks :
       /\ Busy(c, i) /\ call[c].pc = "spawn" => Cores(i) \ removed = {}
       /\ Busy(c, i) /\ call[c].pc = "stop" => Known(i) /\ call[c].pid = handle[i].pid
  /\ \A c, d \in Tasks : Busy(c, i) /\ Busy(d, i) => c = d

OneCore == \A i \in Instances \ raced : OneCoreOf(i)

-----------------------------------------------------------------------------
(* What the calls of a request leave in its record.                        *)
LEMMA AnswerCall ==
  ASSUME TInv, NEW c \in Tasks, NEW r \in {"ok", "error"}, Answer(c, r)
  PROVE  /\ call' \in [Tasks -> CallRecord] /\ CallInv'
         /\ call'[c].pc \in {"idle", r} /\ call'[c].inst = None
         /\ \A d \in Tasks \ {c} : call'[d] = call[d]
<1>1. call' \in [Tasks -> CallRecord]
  BY DEF Answer, TInv, TypeOK, CallRecord, Idle
<1>2. call'[c].pc \in {"idle", r} /\ call'[c].inst = None
  BY DEF Answer, TInv, TypeOK, CallRecord, Idle
<1>3. \A d \in Tasks \ {c} : call'[d] = call[d]
  BY DEF Answer, TInv, TypeOK
<1>4. CallInv'
  <2> SUFFICES ASSUME NEW d \in Tasks
               PROVE  /\ call'[d].pc = "stop" => /\ call'[d].op \in {"launch", "restart", "stop"}
                                                 /\ call'[d].inst \in Instances
                      /\ call'[d].pc = "spawn" => /\ call'[d].inst \in Instances
                                                  /\ call'[d].port \in Ports
    BY DEF CallInv
  <2>1. CASE d = c
    BY <1>2, <2>1
  <2>2. CASE d # c
    BY <1>3, <2>2 DEF TInv, CallInv
  <2> QED BY <2>1, <2>2
<1> QED BY <1>1, <1>2, <1>3, <1>4

LEMMA AwaitCall ==
  ASSUME TInv, NEW c \in Tasks, NEW i \in Instances, Runs(i),
         NEW op \in {"launch", "restart", "stop"}, Await(c, i, op)
  PROVE  /\ call' \in [Tasks -> CallRecord] /\ CallInv'
         /\ call'[c].pc = "stop" /\ call'[c].inst = i /\ call'[c].pid = handle[i].pid
         /\ \A d \in Tasks \ {c} : call'[d] = call[d]
<1>0. handle[i] \in HandleRecord
  BY DEF Runs, Known, TInv, TypeOK
<1>1. call' \in [Tasks -> CallRecord]
  BY <1>0 DEF Await, TInv, TypeOK, CallRecord, Idle, HandleRecord
<1>2. /\ call'[c].pc = "stop" /\ call'[c].inst = i /\ call'[c].pid = handle[i].pid
      /\ call'[c].op = op
  BY DEF Await, TInv, TypeOK, CallRecord, Idle
<1>3. \A d \in Tasks \ {c} : call'[d] = call[d]
  BY DEF Await, TInv, TypeOK
<1>4. CallInv'
  <2> SUFFICES ASSUME NEW d \in Tasks
               PROVE  /\ call'[d].pc = "stop" => /\ call'[d].op \in {"launch", "restart", "stop"}
                                                 /\ call'[d].inst \in Instances
                      /\ call'[d].pc = "spawn" => /\ call'[d].inst \in Instances
                                                  /\ call'[d].port \in Ports
    BY DEF CallInv
  <2>1. CASE d = c
    BY <1>2, <2>1
  <2>2. CASE d # c
    BY <1>3, <2>2 DEF TInv, CallInv
  <2> QED BY <2>1, <2>2
<1> QED BY <1>1, <1>2, <1>3, <1>4

(* A port that is allocated was not used: the request goes on to start a   *)
(* process, or answers the error when there is none.                       *)
LEMMA AllocateCall ==
  ASSUME TInv, NEW c \in Tasks, NEW i \in Instances,
         NEW op \in {"launch", "restart", "relaunch"}, NEW preferred, Allocate(c, i, op, preferred)
  PROVE  /\ call' \in [Tasks -> CallRecord] /\ CallInv' /\ used' \subseteq Ports
         /\ \A d \in Tasks \ {c} : call'[d] = call[d]
         /\ \/ /\ call'[c].pc = "spawn" /\ call'[c].inst = i
               /\ call'[c].port \in Ports \ used
               /\ used' = used \cup {call'[c].port}
            \/ call'[c].pc \in {"idle", "error"} /\ call'[c].inst = None /\ used' = used
<1>1. CASE Answer(c, "error") /\ used' = used
  BY <1>1, AnswerCall DEF TInv, TypeOK
<1>2. ASSUME NEW p \in Ports \ used, used' = used \cup {p},
             call' = [call EXCEPT ![c] = [Idle EXCEPT !.pc = "spawn", !.op = op,
                                                      !.inst = i, !.port = p]]
      PROVE  /\ call' \in [Tasks -> CallRecord] /\ CallInv' /\ used' \subseteq Ports
             /\ \A d \in Tasks \ {c} : call'[d] = call[d]
             /\ call'[c].pc = "spawn" /\ call'[c].inst = i
             /\ call'[c].port \in Ports \ used
             /\ used' = used \cup {call'[c].port}
  <2>1. call' \in [Tasks -> CallRecord] /\ used' \subseteq Ports
    BY <1>2 DEF TInv, TypeOK, CallRecord, Idle
  <2>2. call'[c].pc = "spawn" /\ call'[c].inst = i /\ call'[c].port = p
    BY <1>2 DEF TInv, TypeOK, CallRecord, Idle
  <2>3. \A d \in Tasks \ {c} : call'[d] = call[d]
    BY <1>2 DEF TInv, TypeOK
  <2>4. CallInv'
    <3> SUFFICES ASSUME NEW d \in Tasks
                 PROVE  /\ call'[d].pc = "stop" => /\ call'[d].op \in {"launch", "restart", "stop"}
                                                   /\ call'[d].inst \in Instances
                        /\ call'[d].pc = "spawn" => /\ call'[d].inst \in Instances
                                                    /\ call'[d].port \in Ports
      BY DEF CallInv
    <3>1. CASE d = c
      BY <2>2, <3>1
    <3>2. CASE d # c
      BY <2>3, <3>2 DEF TInv, CallInv
    <3> QED BY <3>1, <3>2
  <2> QED BY <1>2, <2>1, <2>2, <2>3, <2>4
<1>3. (IF preferred \in Free THEN {preferred} ELSE Free) \subseteq Ports \ used
  BY DEF Free
<1> QED BY <1>1, <1>2, <1>3 DEF Allocate

-----------------------------------------------------------------------------
(* Types.                                                                  *)
LEMMA CoresArePids == ASSUME NEW i PROVE Cores(i) \subseteq Pids
  BY DEF Cores

LEMMA RaceTypes ==
  ASSUME TInv, NEW c \in Tasks, NEW i \in Instances, Race(c, i)
  PROVE  raced' \subseteq Instances /\ raced \subseteq raced'
  BY DEF Race, TInv, TypeOK

LEMMA ForgetTypes ==
  ASSUME TInv, NEW i \in Instances, Forget(i)
  PROVE  handle' \in [Instances -> HandleRecord \cup {None}]
  BY DEF Forget, TInv, TypeOK

(* The rest of the state does not matter to the type of a request.         *)
LEMMA CallStays == ASSUME TInv, UNCHANGED call PROVE call' \in [Tasks -> CallRecord] /\ CallInv'
  BY DEF TInv, TypeOK, CallInv

LEMMA TypesInit == Init => TInv
<1> SUFFICES ASSUME Init PROVE TypeOK /\ CallInv
  BY DEF TInv
<1>1. TypeOK
  BY DEF Init, TypeOK, CallRecord, Idle
<1>2. CallInv
  BY DEF Init, CallInv, Idle
<1> QED BY <1>1, <1>2

LEMMA TypesStep == TInv /\ [Next]_vars => TInv'
<1> SUFFICES ASSUME TInv, [Next]_vars PROVE TInv'
  OBVIOUS
<1> USE DEF TInv
<1>1. ASSUME NEW c \in Calls, NEW i \in Instances, Launch(c, i) PROVE TInv'
  <2>0. c \in Tasks
    BY DEF Tasks
  <2>1. raced' \subseteq Instances
    BY <1>1, <2>0, RaceTypes DEF Launch
  <2>2. CASE Runs(i)
    BY <1>1, <2>0, <2>1, <2>2, AwaitCall DEF Launch, TypeOK
  <2>3. CASE ~Runs(i)
    BY <1>1, <2>0, <2>1, <2>3, AllocateCall, ForgetTypes DEF Launch, TypeOK
  <2> QED BY <2>2, <2>3
<1>2. ASSUME NEW c \in Calls, NEW i \in Instances, Restart(c, i) PROVE TInv'
  <2>0. c \in Tasks
    BY DEF Tasks
  <2>1. raced' \subseteq Instances
    BY <1>2, <2>0, RaceTypes DEF Restart
  <2>2. CASE Runs(i)
    BY <1>2, <2>0, <2>1, <2>2, AwaitCall DEF Restart, TypeOK
  <2>3. CASE ~Runs(i)
    BY <1>2, <2>0, <2>1, <2>3, AllocateCall DEF Restart, TypeOK
  <2> QED BY <2>2, <2>3
<1>3. ASSUME NEW c \in Calls, NEW i \in Instances, Stop(c, i) PROVE TInv'
  <2>0. c \in Tasks
    BY DEF Tasks
  <2>1. raced' \subseteq Instances
    BY <1>3, <2>0, RaceTypes DEF Stop
  <2>2. CASE Runs(i)
    BY <1>3, <2>0, <2>1, <2>2, AwaitCall DEF Stop, TypeOK
  <2>3. CASE ~Runs(i)
    <3>1. \E r \in {"ok", "error"} : Answer(c, r)
      BY <1>3, <2>3 DEF Stop
    <3> QED BY <1>3, <2>0, <2>1, <3>1, AnswerCall DEF Stop, TypeOK
  <2> QED BY <2>2, <2>3
<1>4. ASSUME NEW c \in Calls, NEW i \in Instances, Remove(c, i) PROVE TInv'
  <2>0. c \in Tasks
    BY DEF Tasks
  <2>1. raced' \subseteq Instances
    BY <1>4, <2>0, RaceTypes DEF Remove
  <2>2. call' \in [Tasks -> CallRecord] /\ CallInv'
    BY <1>4, <2>0, AnswerCall DEF Remove
  <2>3. handle' \in [Instances -> HandleRecord \cup {None}]
    BY <1>4, ForgetTypes DEF Remove
  <2>4. used' \subseteq Ports /\ removed' \subseteq Pids
    BY <1>4, CoresArePids DEF Remove, TypeOK
  <2>5. registry' \in [Instances -> Ports \cup {None}]
    BY <1>4 DEF Remove, TypeOK
  <2> QED BY <1>4, <2>1, <2>2, <2>3, <2>4, <2>5 DEF Remove, TypeOK
<1>5. ASSUME NEW c \in Calls, Done(c) PROVE TInv'
  <2>1. call' \in [Tasks -> CallRecord]
    BY <1>5 DEF Done, TypeOK, CallRecord, Idle
  <2>2. CallInv'
    BY <1>5 DEF Done, TypeOK, CallInv, Idle
  <2> QED BY <1>5, <2>1, <2>2 DEF Done, TypeOK
<1>6. ASSUME NEW c \in Tasks, Stopped(c) PROVE TInv'
  <2> DEFINE i == call[c].inst
  <2>0. i \in Instances /\ call[c].op \in {"launch", "restart", "stop"}
    BY <1>6 DEF Stopped, CallInv
  <2>1. proc' \in [Pids -> CoreRecord \cup {Dead}] /\ removed' \subseteq Pids
    BY <1>6 DEF Stopped, TypeOK
  <2>2. CASE call[c].op = "stop"
    <3>1. Answer(c, "ok") /\ UNCHANGED <<handle, used>>
      BY <1>6, <2>2 DEF Stopped
    <3> QED BY <1>6, <2>1, <3>1, AnswerCall DEF Stopped, TypeOK
  <2>3. CASE call[c].op = "restart"
    <3>1. Allocate(c, i, "restart", None) /\ UNCHANGED handle
      BY <1>6, <2>3 DEF Stopped
    <3> QED BY <1>6, <2>0, <2>1, <3>1, AllocateCall DEF Stopped, TypeOK
  <2>4. CASE call[c].op = "launch"
    <3>1. Allocate(c, i, "launch", None) /\ Forget(i)
      BY <1>6, <2>4 DEF Stopped
    <3> QED BY <1>6, <2>0, <2>1, <3>1, AllocateCall, ForgetTypes DEF Stopped, TypeOK
  <2> QED BY <2>0, <2>2, <2>3, <2>4
<1>7. ASSUME NEW c \in Tasks, Spawn(c) PROVE TInv'
  <2> DEFINE i == call[c].inst
  <2>0. i \in Instances /\ call[c].port \in Ports
    BY <1>7 DEF Spawn, CallInv
  <2>1. call' \in [Tasks -> CallRecord] /\ CallInv'
    BY <1>7, AnswerCall DEF Spawn
  <2>2. /\ proc' \in [Pids -> CoreRecord \cup {Dead}]
        /\ handle' \in [Instances -> HandleRecord \cup {None}]
    BY <1>7, <2>0 DEF Spawn, TypeOK, CoreRecord, HandleRecord
  <2>3. registry' \in [Instances -> Ports \cup {None}]
    BY <1>7, <2>0 DEF Spawn, TypeOK
  <2> QED BY <1>7, <2>1, <2>2, <2>3 DEF Spawn, TypeOK
<1>8. ASSUME NEW c \in Tasks, SpawnFails(c) PROVE TInv'
  BY <1>8, AnswerCall DEF SpawnFails, TypeOK
<1>9. ASSUME NEW p \in Pids, Bind(p) PROVE TInv'
  <2>1. proc[p] \in CoreRecord
    BY <1>9 DEF Bind, TypeOK, Dead
  <2>2. proc' \in [Pids -> CoreRecord \cup {Dead}] /\ removed' \subseteq Pids
    BY <1>9, <2>1 DEF Bind, TypeOK, CoreRecord
  <2> QED BY <1>9, <2>2, CallStays DEF Bind, TypeOK
<1>10. ASSUME NEW p \in Pids, Exit(p) PROVE TInv'
  <2>1. proc' \in [Pids -> CoreRecord \cup {Dead}] /\ removed' \subseteq Pids
    BY <1>10 DEF Exit, TypeOK
  <2> QED BY <1>10, <2>1, CallStays DEF Exit, TypeOK
<1>11. ASSUME NEW i \in Instances, Relaunch(i) PROVE TInv'
  <2>0. Boot \in Tasks
    BY DEF Tasks
  <2>1. todo' \in [Instances -> Ports \cup {None}]
    BY <1>11 DEF Relaunch, TypeOK
  <2>2. CASE Known(i)
    BY <1>11, <2>1, <2>2, CallStays DEF Relaunch, TypeOK
  <2>3. CASE ~Known(i)
    BY <1>11, <2>0, <2>1, <2>3, AllocateCall, RaceTypes DEF Relaunch, TypeOK
  <2> QED BY <2>2, <2>3
<1>12. ASSUME PodRestart PROVE TInv'
  <2>1. call' \in [Tasks -> CallRecord] /\ CallInv'
    BY <1>12 DEF PodRestart, CallRecord, CallInv, Idle
  <2> QED BY <1>12, <2>1 DEF PodRestart, TypeOK
<1>13. CASE UNCHANGED vars
  BY <1>13, CallStays DEF vars, TypeOK
<1> QED
  BY <1>1, <1>2, <1>3, <1>4, <1>5, <1>6, <1>7, <1>8, <1>9, <1>10, <1>11, <1>12, <1>13
     DEF Next, Request, Step

(* Every variable of the worker keeps its type.                            *)
THEOREM WorkerTypes == Spec => []TypeOK
<1>1. TInv => TypeOK
  BY DEF TInv
<1> QED BY <1>1, TypesInit, TypesStep, PTL DEF Spec

-----------------------------------------------------------------------------
(* What a step does to handles, ports, launches and Cores.  Most steps add *)
(* nothing; an allocation adds one launch with a port that was not used.   *)
HandlesKept == \A j \in Instances : handle'[j] \in {None, handle[j]}

SpawnsKept(S) ==
  \A d \in S : call'[d].pc = "spawn" =>
    call[d].pc = "spawn" /\ call'[d].port = call[d].port /\ call'[d].inst = call[d].inst

CoresKept ==
  \A q \in Pids \ removed' : proc'[q].stage # "none" =>
    /\ q \notin removed /\ Alive(q)
    /\ proc'[q].port = proc[q].port /\ proc'[q].inst = proc[q].inst

Kept == HandlesKept /\ CoresKept /\ SpawnsKept(Tasks) /\ used' = used

Allocated(c, i) ==
  /\ HandlesKept /\ CoresKept /\ SpawnsKept(Tasks \ {c})
  /\ call'[c].pc = "spawn" /\ call'[c].inst = i
  /\ call'[c].port \in Ports \ used /\ used' = used \cup {call'[c].port}

LEMMA ForgetKeeps == ASSUME TInv, NEW i \in Instances, Forget(i) PROVE HandlesKept
  BY DEF Forget, HandlesKept, TInv, TypeOK

LEMMA SameKeeps == UNCHANGED handle => HandlesKept
  BY DEF HandlesKept

LEMMA CoresStay == UNCHANGED <<proc, removed>> => CoresKept
  BY DEF CoresKept, Alive

(* An answer, and a wait for a process, add no launch.                     *)
LEMMA AnswerKeeps ==
  ASSUME TInv, NEW c \in Tasks, NEW r \in {"ok", "error"}, Answer(c, r)
  PROVE  SpawnsKept(Tasks)
  BY AnswerCall DEF SpawnsKept

LEMMA AwaitKeeps ==
  ASSUME TInv, NEW c \in Tasks, NEW i \in Instances, Runs(i),
         NEW op \in {"launch", "restart", "stop"}, Await(c, i, op)
  PROVE  SpawnsKept(Tasks)
  BY AwaitCall DEF SpawnsKept

LEMMA AllocateKinds ==
  ASSUME TInv, NEW c \in Tasks, NEW i \in Instances,
         NEW op \in {"launch", "restart", "relaunch"}, NEW preferred,
         Allocate(c, i, op, preferred), HandlesKept, CoresKept
  PROVE  Kept \/ Allocated(c, i)
<1>1. SpawnsKept(Tasks \ {c})
  BY AllocateCall DEF SpawnsKept
<1>2. CASE call'[c].pc \in {"idle", "error"} /\ call'[c].inst = None /\ used' = used
  BY <1>1, <1>2 DEF Kept, SpawnsKept
<1>3. CASE /\ call'[c].pc = "spawn" /\ call'[c].inst = i
           /\ call'[c].port \in Ports \ used
           /\ used' = used \cup {call'[c].port}
  BY <1>1, <1>3 DEF Allocated
<1> QED BY <1>2, <1>3, AllocateCall

(* A process that ends.                                                    *)
LEMMA DeathKeeps ==
  ASSUME TInv, NEW p, proc' = [proc EXCEPT ![p] = Dead], removed' = removed \ {p}
  PROVE  CoresKept
<1> SUFFICES ASSUME NEW q \in Pids \ removed', proc'[q].stage # "none"
             PROVE  /\ q \notin removed /\ Alive(q)
                    /\ proc'[q].port = proc[q].port /\ proc'[q].inst = proc[q].inst
  BY DEF CoresKept
<1>1. q # p
  BY DEF TInv, TypeOK, Dead
<1>2. proc'[q] = proc[q]
  BY <1>1 DEF TInv, TypeOK
<1> QED BY <1>1, <1>2 DEF Alive

LEMMA StepKinds ==
  ASSUME TInv, [Next]_vars
  PROVE  \/ Kept
         \/ \E c \in Tasks, i \in Instances : Allocated(c, i)
         \/ \E c \in Calls, i \in Instances : Remove(c, i)
         \/ \E c \in Tasks : Spawn(c)
         \/ PodRestart
<1> DEFINE Goal == Kept \/ \E c \in Tasks, i \in Instances : Allocated(c, i)
<1>0. Calls \subseteq Tasks /\ Boot \in Tasks
  BY DEF Tasks
<1>1. ASSUME NEW c \in Calls, NEW i \in Instances, Launch(c, i) PROVE Goal
  <2>1. CoresKept
    BY <1>1, CoresStay DEF Launch
  <2>2. CASE Runs(i)
    BY <1>0, <1>1, <2>1, <2>2, AwaitKeeps, SameKeeps DEF Launch, Kept
  <2>3. CASE ~Runs(i)
    BY <1>0, <1>1, <2>1, <2>3, AllocateKinds, ForgetKeeps DEF Launch
  <2> QED BY <2>2, <2>3
<1>2. ASSUME NEW c \in Calls, NEW i \in Instances, Restart(c, i) PROVE Goal
  <2>1. CoresKept /\ HandlesKept
    BY <1>2, CoresStay, SameKeeps DEF Restart
  <2>2. CASE Runs(i)
    BY <1>0, <1>2, <2>1, <2>2, AwaitKeeps DEF Restart, Kept
  <2>3. CASE ~Runs(i)
    BY <1>0, <1>2, <2>1, <2>3, AllocateKinds DEF Restart
  <2> QED BY <2>2, <2>3
<1>3. ASSUME NEW c \in Calls, NEW i \in Instances, Stop(c, i) PROVE Goal
  <2>1. CoresKept /\ HandlesKept
    BY <1>3, CoresStay, SameKeeps DEF Stop
  <2>2. CASE Runs(i)
    BY <1>0, <1>3, <2>1, <2>2, AwaitKeeps DEF Stop, Kept
  <2>3. CASE ~Runs(i)
    <3>1. \E r \in {"ok", "error"} : Answer(c, r)
      BY <1>3, <2>3 DEF Stop
    <3> QED BY <1>0, <1>3, <2>1, <3>1, AnswerKeeps DEF Stop, Kept
  <2> QED BY <2>2, <2>3
<1>4. ASSUME NEW c \in Calls, Done(c) PROVE Goal
  <2>1. SpawnsKept(Tasks)
    BY <1>4 DEF Done, SpawnsKept, TInv, TypeOK, Idle
  <2> QED BY <1>4, <2>1, CoresStay, SameKeeps DEF Done, Kept
<1>5. ASSUME NEW c \in Tasks, Stopped(c) PROVE Goal
  <2> DEFINE i == call[c].inst
  <2>0. i \in Instances /\ call[c].op \in {"launch", "restart", "stop"}
    BY <1>5 DEF Stopped, TInv, CallInv
  <2>1. CoresKept
    BY <1>5, DeathKeeps DEF Stopped
  <2>2. CASE call[c].op = "stop"
    <3>1. Answer(c, "ok") /\ UNCHANGED <<handle, used>>
      BY <1>5, <2>2 DEF Stopped
    <3> QED BY <2>1, <3>1, AnswerKeeps, SameKeeps DEF Kept
  <2>3. CASE call[c].op = "restart"
    <3>1. Allocate(c, i, "restart", None) /\ UNCHANGED handle
      BY <1>5, <2>3 DEF Stopped
    <3>2. HandlesKept
      BY <3>1, SameKeeps
    <3> QED BY <2>0, <2>1, <3>1, <3>2, AllocateKinds
  <2>4. CASE call[c].op = "launch"
    <3>1. Allocate(c, i, "launch", None) /\ Forget(i)
      BY <1>5, <2>4 DEF Stopped
    <3>2. HandlesKept
      BY <2>0, <3>1, ForgetKeeps
    <3> QED BY <2>0, <2>1, <3>1, <3>2, AllocateKinds
  <2> QED BY <2>0, <2>2, <2>3, <2>4
<1>6. ASSUME NEW c \in Tasks, SpawnFails(c) PROVE Goal
  BY <1>6, AnswerKeeps, SameKeeps, CoresStay DEF SpawnFails, Kept
<1>7. ASSUME NEW p \in Pids, Bind(p) PROVE Goal
  <2>1. HandlesKept /\ SpawnsKept(Tasks) /\ used' = used
    BY <1>7, SameKeeps DEF Bind, SpawnsKept
  <2>2. CASE proc' = [proc EXCEPT ![p] = Dead] /\ removed' = removed \ {p}
    BY <2>1, <2>2, DeathKeeps DEF Kept
  <2>3. CASE proc' = [proc EXCEPT ![p].stage = "serving"] /\ removed' = removed
    <3>1. CoresKept
      BY <1>7, <2>3 DEF Bind, CoresKept, Alive, TInv, TypeOK, CoreRecord, Dead
    <3> QED BY <2>1, <3>1 DEF Kept
  <2> QED BY <1>7, <2>2, <2>3 DEF Bind
<1>8. ASSUME NEW p \in Pids, Exit(p) PROVE Goal
  BY <1>8, SameKeeps, DeathKeeps DEF Exit, Kept, SpawnsKept
<1>9. ASSUME NEW i \in Instances, Relaunch(i) PROVE Goal
  <2>1. CoresKept /\ HandlesKept
    BY <1>9, CoresStay, SameKeeps DEF Relaunch
  <2>2. CASE Known(i)
    BY <1>9, <2>1, <2>2 DEF Relaunch, Kept, SpawnsKept
  <2>3. CASE ~Known(i)
    <3>1. Allocate(Boot, i, "relaunch", todo[i])
      BY <1>9, <2>3 DEF Relaunch
    <3> QED BY <1>0, <2>1, <3>1, AllocateKinds
  <2> QED BY <2>2, <2>3
<1>10. CASE UNCHANGED vars
  BY <1>10, SameKeeps, CoresStay DEF vars, Kept, SpawnsKept
<1> QED
  BY <1>1, <1>2, <1>3, <1>4, <1>5, <1>6, <1>7, <1>8, <1>9, <1>10 DEF Next, Request, Step

-----------------------------------------------------------------------------
(* Ports.  The state after the step is described by what it gives out:     *)
(* PortsAreExclusive is spelled for a handle or a launch at a time.        *)
LEMMA PortsStep == TInv /\ PortsAreExclusive /\ [Next]_vars => PortsAreExclusive'
<1> SUFFICES ASSUME TInv, PortsAreExclusive, [Next]_vars PROVE PortsAreExclusive'
  OBVIOUS
<1>1. CASE Kept
  BY <1>1 DEF Kept, HandlesKept, SpawnsKept, PortsAreExclusive, Known
<1>2. ASSUME NEW c \in Tasks, NEW i \in Instances, Allocated(c, i) PROVE PortsAreExclusive'
  <2>1. \A j \in Instances : handle'[j] # None =>
          handle'[j] = handle[j] /\ handle[j].port \in used /\ handle[j].port # call'[c].port
    BY <1>2 DEF Allocated, HandlesKept, PortsAreExclusive, Known
  <2>2. \A d \in Tasks \ {c} : call'[d].pc = "spawn" =>
          /\ call[d].pc = "spawn" /\ call'[d].port = call[d].port
          /\ call[d].port \in used /\ call[d].port # call'[c].port
    BY <1>2 DEF Allocated, SpawnsKept, PortsAreExclusive
  <2>3. \A j \in Instances : Known(j)' =>
          /\ handle'[j].port \in used'
          /\ \A k \in Instances \ {j} : Known(k)' => handle'[k].port # handle'[j].port
          /\ \A d \in Tasks : call'[d].pc = "spawn" => call'[d].port # handle'[j].port
    BY <1>2, <2>1, <2>2 DEF Allocated, PortsAreExclusive, Known
  <2>4. \A d \in Tasks : call'[d].pc = "spawn" =>
          /\ call'[d].port \in used'
          /\ \A e \in Tasks \ {d} : call'[e].pc = "spawn" => call'[e].port # call'[d].port
    BY <1>2, <2>2 DEF Allocated, PortsAreExclusive
  <2> QED BY <2>3, <2>4 DEF PortsAreExclusive
<1>3. ASSUME NEW c \in Calls, NEW i \in Instances, Remove(c, i) PROVE PortsAreExclusive'
  <2>1. SpawnsKept(Tasks)
    BY <1>3, AnswerKeeps DEF Remove, Tasks
  <2>2. handle'[i] = None /\ \A j \in Instances \ {i} : handle'[j] = handle[j]
    BY <1>3 DEF Remove, Forget, TInv, TypeOK
  <2>3. \A j \in Instances \ {i} : Known(j) => handle[j].port \in used'
    BY <1>3 DEF Remove, PortsAreExclusive
  <2>4. \A d \in Tasks : call[d].pc = "spawn" => call[d].port \in used'
    BY <1>3 DEF Remove, PortsAreExclusive
  <2> QED BY <2>1, <2>2, <2>3, <2>4 DEF SpawnsKept, PortsAreExclusive, Known
<1>4. ASSUME NEW c \in Tasks, Spawn(c) PROVE PortsAreExclusive'
  <2> DEFINE i == call[c].inst
  <2>1. i \in Instances /\ call[c].pc = "spawn"
    BY <1>4 DEF Spawn, TInv, CallInv
  <2>2. handle'[i].port = call[c].port /\ \A j \in Instances \ {i} : handle'[j] = handle[j]
    BY <1>4, <2>1 DEF Spawn, TInv, TypeOK
  <2>3. call'[c].pc # "spawn" /\ \A d \in Tasks \ {c} : call'[d] = call[d]
    BY <1>4, AnswerCall DEF Spawn
  <2>4. used' = used
    BY <1>4 DEF Spawn
  <2>5. \A j \in Instances : Known(j)' =>
          /\ handle'[j].port \in used'
          /\ \A k \in Instances \ {j} : Known(k)' => handle'[k].port # handle'[j].port
          /\ \A d \in Tasks : call'[d].pc = "spawn" => call'[d].port # handle'[j].port
    <3> SUFFICES ASSUME NEW j \in Instances, Known(j)'
                 PROVE  /\ handle'[j].port \in used'
                        /\ \A k \in Instances \ {j} : Known(k)' => handle'[k].port # handle'[j].port
                        /\ \A d \in Tasks : call'[d].pc = "spawn" => call'[d].port # handle'[j].port
      OBVIOUS
    <3>1. CASE j = i
      BY <2>1, <2>2, <2>3, <2>4, <3>1 DEF PortsAreExclusive, Known
    <3>2. CASE j # i
      BY <2>1, <2>2, <2>3, <2>4, <3>2 DEF PortsAreExclusive, Known
    <3> QED BY <3>1, <3>2
  <2>6. \A d \in Tasks : call'[d].pc = "spawn" =>
          /\ call'[d].port \in used'
          /\ \A e \in Tasks \ {d} : call'[e].pc = "spawn" => call'[e].port # call'[d].port
    BY <2>3, <2>4 DEF PortsAreExclusive
  <2> QED BY <2>5, <2>6 DEF PortsAreExclusive
<1>5. CASE PodRestart
  BY <1>5 DEF PodRestart, PortsAreExclusive, Known, Idle
<1> QED BY <1>1, <1>2, <1>3, <1>4, <1>5, StepKinds

LEMMA PortsInit == Init => PortsAreExclusive
  BY DEF Init, PortsAreExclusive, Known, Idle

(* No port is given to two instances or launches at a time.                *)
THEOREM PortsExclusive == Spec => []PortsAreExclusive
  BY TypesInit, TypesStep, PortsInit, PortsStep, PTL DEF Spec

-----------------------------------------------------------------------------
(* The ports of Cores.                                                     *)
LEMMA OwnPortStep ==
  TInv /\ PortsAreExclusive /\ OwnPort /\ [Next]_vars => OwnPort'
<1> SUFFICES ASSUME TInv, PortsAreExclusive, OwnPort, [Next]_vars,
                    NEW q \in Pids \ removed', proc'[q].stage # "none"
             PROVE  /\ proc'[q].port \in used'
                    /\ \A i \in Instances :
                         Known(i)' /\ handle'[i].port = proc'[q].port => proc'[q].inst = i
                    /\ \A c \in Tasks :
                         call'[c].pc = "spawn" /\ call'[c].port = proc'[q].port
                           => proc'[q].inst = call'[c].inst
  BY DEF OwnPort, Alive
<1>1. CASE Kept
  BY <1>1 DEF Kept, HandlesKept, SpawnsKept, CoresKept, OwnPort, Known
<1>2. ASSUME NEW c \in Tasks, NEW i \in Instances, Allocated(c, i)
      PROVE  /\ proc'[q].port \in used'
             /\ \A j \in Instances :
                  Known(j)' /\ handle'[j].port = proc'[q].port => proc'[q].inst = j
             /\ \A d \in Tasks :
                  call'[d].pc = "spawn" /\ call'[d].port = proc'[q].port
                    => proc'[q].inst = call'[d].inst
  BY <1>2 DEF Allocated, HandlesKept, SpawnsKept, CoresKept, OwnPort, Known
<1>3. ASSUME NEW c \in Calls, NEW i \in Instances, Remove(c, i)
      PROVE  /\ proc'[q].port \in used'
             /\ \A j \in Instances :
                  Known(j)' /\ handle'[j].port = proc'[q].port => proc'[q].inst = j
             /\ \A d \in Tasks :
                  call'[d].pc = "spawn" /\ call'[d].port = proc'[q].port
                    => proc'[q].inst = call'[d].inst
  <2>1. SpawnsKept(Tasks)
    BY <1>3, AnswerKeeps DEF Remove, Tasks
  <2>2. handle'[i] = None /\ \A j \in Instances \ {i} : handle'[j] = handle[j]
    BY <1>3 DEF Remove, Forget, TInv, TypeOK
  <2>3. q \notin removed /\ Alive(q) /\ proc' = proc /\ proc[q].inst # i
    BY <1>3 DEF Remove, Cores, Alive
  <2>4. proc[q].port \in used'
    BY <1>3, <2>3 DEF Remove, OwnPort
  <2> QED BY <2>1, <2>2, <2>3, <2>4 DEF SpawnsKept, OwnPort, Known
<1>4. ASSUME NEW c \in Tasks, Spawn(c)
      PROVE  /\ proc'[q].port \in used'
             /\ \A j \in Instances :
                  Known(j)' /\ handle'[j].port = proc'[q].port => proc'[q].inst = j
             /\ \A d \in Tasks :
                  call'[d].pc = "spawn" /\ call'[d].port = proc'[q].port
                    => proc'[q].inst = call'[d].inst
  <2> DEFINE i == call[c].inst
  <2>1. i \in Instances /\ call[c].pc = "spawn"
    BY <1>4 DEF Spawn, TInv, CallInv
  <2>2. handle'[i].port = call[c].port /\ \A j \in Instances \ {i} : handle'[j] = handle[j]
    BY <1>4, <2>1 DEF Spawn, TInv, TypeOK
  <2>3. call'[c].pc # "spawn" /\ \A d \in Tasks \ {c} : call'[d] = call[d]
    BY <1>4, AnswerCall DEF Spawn
  <2>4. used' = used /\ removed' = removed
    BY <1>4 DEF Spawn
  <2>5. PICK p \in Pids :
          proc' = [proc EXCEPT ![p] = [stage |-> "starting", inst |-> i, port |-> call[c].port]]
    BY <1>4 DEF Spawn
  <2>6. CASE q = p
    <3>1. proc'[q].inst = i /\ proc'[q].port = call[c].port
      BY <2>5, <2>6 DEF TInv, TypeOK
    <3> QED BY <2>1, <2>2, <2>3, <2>4, <3>1 DEF PortsAreExclusive, Known
  <2>7. CASE q # p
    <3>1. proc'[q] = proc[q] /\ q \notin removed /\ Alive(q)
      BY <2>4, <2>5, <2>7 DEF TInv, TypeOK, Alive
    <3> QED BY <2>1, <2>2, <2>3, <2>4, <3>1 DEF OwnPort, Known
  <2> QED BY <2>6, <2>7
<1>5. CASE PodRestart
  BY <1>5 DEF PodRestart, Dead
<1> QED BY <1>1, <1>2, <1>3, <1>4, <1>5, StepKinds

LEMMA OwnPortInit == Init => OwnPort
  BY DEF Init, OwnPort, Alive, Dead

(* Only the Core of an instance answers on the port of its handle, but for *)
(* one that remove has left behind.                                        *)
THEOREM TrafficIsOwn == Spec => []RoutesToOwnCore
<1>1. OwnPort => RoutesToOwnCore
  BY DEF OwnPort, RoutesToOwnCore, Runs, Serving, Alive
<1> QED
  BY <1>1, TypesInit, TypesStep, PortsInit, PortsStep, OwnPortInit, OwnPortStep, PTL DEF Spec

-----------------------------------------------------------------------------
(* One Core of an instance.                                                *)
LEMMA RaceAlone ==
  ASSUME TInv, NEW c \in Tasks, NEW i \in Instances, Race(c, i), i \notin raced'
  PROVE  i \notin raced /\ \A d \in Tasks \ {c} : ~Busy(d, i)
  BY DEF Race, Busy

LEMMA RaceOthers ==
  ASSUME NEW c \in Tasks, NEW i \in Instances, Race(c, i), NEW j \in Instances \ raced'
  PROVE  j \notin raced
  BY DEF Race

(* A step that gives an instance neither a Core, nor a request that waits, *)
(* nor another handle.                                                     *)
LEMMA Frame ==
  ASSUME NEW j \in Instances, OneCoreOf(j), handle'[j] = handle[j], CoresKept,
         \A d \in Tasks : call'[d].inst = j /\ call'[d].pc \in {"stop", "spawn"}
                            => call'[d] = call[d]
  PROVE  OneCoreOf(j)'
<1>1. Cores(j)' \ removed' \subseteq Cores(j) \ removed
  BY DEF CoresKept, Cores, Alive
<1>2. \A d \in Tasks : Busy(d, j)' => Busy(d, j) /\ call'[d] = call[d]
  BY DEF Busy
<1>3. \A p \in Cores(j)' \ removed' : Known(j)' /\ handle'[j].pid = p
  BY <1>1 DEF OneCoreOf, Known
<1>4. ASSUME NEW d \in Tasks
      PROVE  /\ Busy(d, j)' /\ call'[d].pc = "spawn" => Cores(j)' \ removed' = {}
             /\ Busy(d, j)' /\ call'[d].pc = "stop" => Known(j)' /\ call'[d].pid = handle'[j].pid
  BY <1>1, <1>2 DEF OneCoreOf, Known
<1>5. \A d, e \in Tasks : Busy(d, j)' /\ Busy(e, j)' => d = e
  BY <1>2 DEF OneCoreOf
<1> QED BY <1>3, <1>4, <1>5 DEF OneCoreOf

(* A request that is alone on its instance, and whose instance has no Core *)
(* that lives.                                                             *)
LEMMA Empty ==
  ASSUME NEW i \in Instances, NEW c \in Tasks, Cores(i)' \ removed' = {},
         \A d \in Tasks \ {c} : ~Busy(d, i)', call'[c].pc # "stop"
  PROVE  OneCoreOf(i)'
  BY DEF OneCoreOf, Busy

(* It starts to wait for the Core of the handle.                           *)
LEMMA Waits ==
  ASSUME TInv, NEW i \in Instances, NEW c \in Tasks, OneCoreOf(i), Runs(i),
         NEW op \in {"launch", "restart", "stop"}, Await(c, i, op),
         UNCHANGED <<handle, proc, removed>>, \A d \in Tasks \ {c} : ~Busy(d, i)
  PROVE  OneCoreOf(i)'
<1>1. /\ call'[c].pc = "stop" /\ call'[c].pid = handle[i].pid
      /\ \A d \in Tasks \ {c} : call'[d] = call[d]
  BY AwaitCall
<1>2. \A d \in Tasks \ {c} : ~Busy(d, i)'
  BY <1>1 DEF Busy
<1>3. Cores(i)' \ removed' = Cores(i) \ removed /\ Known(i)' /\ Known(i)
  BY DEF Cores, Alive, Known, Runs
<1>4. \A p \in Cores(i)' \ removed' : Known(i)' /\ handle'[i].pid = p
  BY <1>3 DEF OneCoreOf
<1>5. \A d \in Tasks :
        /\ Busy(d, i)' /\ call'[d].pc = "spawn" => Cores(i)' \ removed' = {}
        /\ Busy(d, i)' /\ call'[d].pc = "stop" => Known(i)' /\ call'[d].pid = handle'[i].pid
  BY <1>1, <1>2, <1>3
<1> QED BY <1>2, <1>4, <1>5 DEF OneCoreOf

(* A step of a request on its instance i leaves the other instances alone. *)
LEMMA Others ==
  ASSUME TInv, NEW c \in Tasks, NEW i \in Instances, CoresKept,
         \A d \in Tasks \ {c} : call'[d] = call[d], call'[c].inst \in {i, None},
         NEW j \in Instances \ {i}, OneCoreOf(j), handle'[j] = handle[j]
  PROVE  OneCoreOf(j)'
<1>1. j # None
  BY WorkerAssumption
<1>2. \A d \in Tasks : call'[d].inst = j => call'[d] = call[d]
  BY <1>1
<1> QED BY <1>2, Frame

LEMMA AllocateOne ==
  ASSUME TInv, OneCore, NEW c \in Tasks, NEW i \in Instances,
         NEW op \in {"launch", "restart", "relaunch"}, NEW preferred,
         Allocate(c, i, op, preferred), CoresKept, Cores(i)' \ removed' = {} \/ i \in raced',
         \A d \in Tasks \ {c} : ~Busy(d, i) \/ i \in raced',
         raced \subseteq raced', \A j \in Instances \ {i} : handle'[j] = handle[j]
  PROVE  OneCore'
<1> SUFFICES ASSUME NEW j \in Instances \ raced' PROVE OneCoreOf(j)'
  BY DEF OneCore
<1>1. /\ \A d \in Tasks \ {c} : call'[d] = call[d]
      /\ call'[c].inst \in {i, None} /\ call'[c].pc # "stop"
  BY AllocateCall
<1>2. CASE j = i
  <2>1. \A d \in Tasks \ {c} : ~Busy(d, i)'
    BY <1>1, <1>2 DEF Busy
  <2> QED BY <1>1, <1>2, <2>1, Empty
<1>3. CASE j # i
  BY <1>1, <1>3, Others DEF OneCore
<1> QED BY <1>2, <1>3

(* An instance whose handle has no living process has no Core.             *)
LEMMA NoCore ==
  ASSUME NEW i \in Instances, OneCoreOf(i), ~Runs(i)
  PROVE  Cores(i) \ removed = {}
  BY DEF OneCoreOf, Runs, Cores

LEMMA OneCoreStep == TInv /\ OneCore /\ [Next]_vars => OneCore'
<1> SUFFICES ASSUME TInv, OneCore, [Next]_vars PROVE OneCore'
  OBVIOUS
<1>0. Calls \subseteq Tasks /\ Boot \in Tasks
  BY DEF Tasks
<1>1. ASSUME NEW c \in Tasks, NEW i \in Instances, Runs(i), Race(c, i),
             NEW op \in {"launch", "restart", "stop"}, Await(c, i, op),
             UNCHANGED <<handle, proc, removed>>
      PROVE  OneCore'
  <2> SUFFICES ASSUME NEW j \in Instances \ raced' PROVE OneCoreOf(j)'
    BY DEF OneCore
  <2>1. OneCoreOf(j)
    BY <1>1, RaceOthers DEF OneCore
  <2>2. CASE j = i
    BY <1>1, <2>1, <2>2, RaceAlone, Waits
  <2>3. CASE j # i
    BY <1>1, <2>1, <2>3, AwaitCall, CoresStay, Others
  <2> QED BY <2>2, <2>3
<1>2. ASSUME NEW c \in Tasks, NEW i \in Instances, ~Runs(i), Race(c, i),
             NEW op \in {"launch", "restart", "relaunch"}, NEW preferred,
             Allocate(c, i, op, preferred), UNCHANGED <<proc, removed>>,
             handle' = handle \/ Forget(i)
      PROVE  OneCore'
  <2>1. Cores(i)' \ removed' = {} \/ i \in raced'
    <3> SUFFICES ASSUME i \notin raced' PROVE Cores(i)' \ removed' = {}
      OBVIOUS
    <3>1. OneCoreOf(i)
      BY <1>2, RaceAlone DEF OneCore
    <3>2. Cores(i) \ removed = {}
      BY <1>2, <3>1, NoCore
    <3> QED BY <1>2, <3>2 DEF Cores, Alive
  <2>2. \A d \in Tasks \ {c} : ~Busy(d, i) \/ i \in raced'
    BY <1>2, RaceAlone
  <2>3. \A j \in Instances \ {i} : handle'[j] = handle[j]
    BY <1>2 DEF Forget, TInv, TypeOK
  <2>4. raced \subseteq raced' /\ CoresKept
    BY <1>2, CoresStay DEF Race
  <2> QED BY <1>2, <2>1, <2>2, <2>3, <2>4, AllocateOne
<1>3. ASSUME NEW c \in Tasks, NEW r \in {"ok", "error"}, Answer(c, r), CoresKept,
             UNCHANGED handle, raced \subseteq raced'
      PROVE  OneCore'
  <2> SUFFICES ASSUME NEW j \in Instances \ raced' PROVE OneCoreOf(j)'
    BY DEF OneCore
  <2>1. OneCoreOf(j)
    BY <1>3 DEF OneCore
  <2>2. \A d \in Tasks : call'[d].inst = j /\ call'[d].pc \in {"stop", "spawn"}
                           => call'[d] = call[d]
    BY <1>3, AnswerCall
  <2> QED BY <1>3, <2>1, <2>2, Frame
<1>4. ASSUME NEW c \in Calls, NEW i \in Instances, Launch(c, i) PROVE OneCore'
  <2>1. CASE Runs(i)
    BY <1>0, <1>1, <1>4, <2>1 DEF Launch
  <2>2. CASE ~Runs(i)
    BY <1>0, <1>2, <1>4, <2>2 DEF Launch
  <2> QED BY <2>1, <2>2
<1>5. ASSUME NEW c \in Calls, NEW i \in Instances, Restart(c, i) PROVE OneCore'
  <2>1. CASE Runs(i)
    BY <1>0, <1>1, <1>5, <2>1 DEF Restart
  <2>2. CASE ~Runs(i)
    BY <1>0, <1>2, <1>5, <2>2 DEF Restart
  <2> QED BY <2>1, <2>2
<1>6. ASSUME NEW c \in Calls, NEW i \in Instances, Stop(c, i) PROVE OneCore'
  <2>1. CASE Runs(i)
    BY <1>0, <1>1, <1>6, <2>1 DEF Stop
  <2>2. CASE ~Runs(i)
    <3>1. \E r \in {"ok", "error"} : Answer(c, r)
      BY <1>6, <2>2 DEF Stop
    <3>2. raced \subseteq raced' /\ CoresKept
      BY <1>6, CoresStay DEF Race, Stop
    <3> QED BY <1>0, <1>3, <1>6, <3>1, <3>2 DEF Stop
  <2> QED BY <2>1, <2>2
<1>7. ASSUME NEW c \in Calls, NEW i \in Instances, Remove(c, i) PROVE OneCore'
  <2> SUFFICES ASSUME NEW j \in Instances \ raced' PROVE OneCoreOf(j)'
    BY DEF OneCore
  <2>1. OneCoreOf(j)
    BY <1>0, <1>7, RaceOthers DEF OneCore, Remove
  <2>2. /\ call'[c].pc # "stop" /\ call'[c].inst = None
        /\ \A d \in Tasks \ {c} : call'[d] = call[d]
    BY <1>0, <1>7, AnswerCall DEF Remove
  <2>3. CASE j = i
    <3>1. Cores(i)' \ removed' = {}
      BY <1>7 DEF Remove, Cores, Alive
    <3>2. \A d \in Tasks \ {c} : ~Busy(d, i)
      BY <1>0, <1>7, <2>3, RaceAlone DEF Remove
    <3>3. \A d \in Tasks \ {c} : ~Busy(d, i)'
      BY <2>2, <3>2 DEF Busy
    <3> QED BY <1>0, <2>2, <2>3, <3>1, <3>3, Empty
  <2>4. CASE j # i
    <3>1. handle'[j] = handle[j]
      BY <1>7, <2>4 DEF Remove, Forget, TInv, TypeOK
    <3>2. CoresKept
      BY <1>7 DEF Remove, CoresKept, Alive
    <3> QED BY <1>0, <2>1, <2>2, <2>4, <3>1, <3>2, Others
  <2> QED BY <2>3, <2>4
<1>8. ASSUME NEW c \in Calls, Done(c) PROVE OneCore'
  <2> SUFFICES ASSUME NEW j \in Instances \ raced' PROVE OneCoreOf(j)'
    BY DEF OneCore
  <2>1. OneCoreOf(j) /\ handle'[j] = handle[j] /\ CoresKept
    BY <1>8, CoresStay DEF OneCore, Done
  <2>2. \A d \in Tasks : call'[d].inst = j /\ call'[d].pc \in {"stop", "spawn"}
                           => call'[d] = call[d]
    BY <1>8 DEF Done, TInv, TypeOK, Idle
  <2> QED BY <2>1, <2>2, Frame
<1>9. ASSUME NEW c \in Tasks, Stopped(c) PROVE OneCore'
  <2>. PICK i \in Instances : i = call[c].inst
    BY <1>9 DEF Stopped, TInv, CallInv
  <2>0. /\ call[c].op \in {"launch", "restart", "stop"}
        /\ raced' = raced /\ Busy(c, i) /\ call[c].pc = "stop"
    BY <1>9 DEF Stopped, TInv, CallInv, Busy
  <2>1. CoresKept
    BY <1>9, DeathKeeps DEF Stopped
  <2>2. CASE call[c].op = "stop"
    <3>1. Answer(c, "ok") /\ UNCHANGED handle
      BY <1>9, <2>2 DEF Stopped
    <3> QED BY <1>3, <2>0, <2>1, <3>1
  <2>3. Cores(i)' \ removed' = {} \/ i \in raced'
    <3> SUFFICES ASSUME i \notin raced', NEW p \in Cores(i)' \ removed' PROVE FALSE
      OBVIOUS
    <3>1. OneCoreOf(i)
      BY <2>0 DEF OneCore
    <3>2. call[c].pid = handle[i].pid
      BY <2>0, <3>1 DEF OneCoreOf
    <3>3. p \in Cores(i) \ removed
      BY <2>1 DEF CoresKept, Cores, Alive
    <3>4. p = call[c].pid
      BY <3>1, <3>2, <3>3 DEF OneCoreOf
    <3>5. proc'[p].stage = "none"
      BY <1>9, <3>3, <3>4 DEF Stopped, TInv, TypeOK, Cores, Dead
    <3> QED BY <3>5 DEF Cores, Alive
  <2>4. \A d \in Tasks \ {c} : ~Busy(d, i) \/ i \in raced'
    BY <2>0 DEF OneCore, OneCoreOf
  <2>5. CASE call[c].op = "restart"
    <3>1. Allocate(c, i, "restart", None) /\ UNCHANGED handle
      BY <1>9, <2>5 DEF Stopped
    <3> QED BY <2>0, <2>1, <2>3, <2>4, <3>1, AllocateOne
  <2>6. CASE call[c].op = "launch"
    <3>1. Allocate(c, i, "launch", None) /\ Forget(i)
      BY <1>9, <2>6 DEF Stopped
    <3>2. \A j \in Instances \ {i} : handle'[j] = handle[j]
      BY <3>1 DEF Forget, TInv, TypeOK
    <3> QED BY <2>0, <2>1, <2>3, <2>4, <3>1, <3>2, AllocateOne
  <2> QED BY <2>0, <2>2, <2>5, <2>6
<1>10. ASSUME NEW c \in Tasks, Spawn(c) PROVE OneCore'
  <2>. PICK i \in Instances : i = call[c].inst
    BY <1>10 DEF Spawn, TInv, CallInv
  <2> SUFFICES ASSUME NEW j \in Instances \ raced' PROVE OneCoreOf(j)'
    BY DEF OneCore
  <2>0. /\ Busy(c, i) /\ call[c].pc = "spawn" /\ call[c].port \in Ports
        /\ raced' = raced /\ removed' = removed
    BY <1>10 DEF Spawn, TInv, CallInv, Busy
  <2>1. OneCoreOf(j)
    BY <2>0 DEF OneCore
  <2>2. /\ call'[c].pc # "stop" /\ call'[c].inst = None
        /\ \A d \in Tasks \ {c} : call'[d] = call[d]
    BY <1>10, AnswerCall DEF Spawn
  <2>3. PICK p \in Pids :
          /\ ~Alive(p)
          /\ proc' = [proc EXCEPT ![p] = [stage |-> "starting", inst |-> i, port |-> call[c].port]]
          /\ handle' = [handle EXCEPT ![i] = [pid |-> p, port |-> call[c].port]]
    BY <1>10 DEF Spawn
  <2>4. \A q \in Pids \ {p} : proc'[q] = proc[q]
    BY <2>3 DEF TInv, TypeOK
  <2>5. proc'[p].inst = i
    BY <2>3 DEF TInv, TypeOK
  <2>6. CASE j = i
    <3>1. Cores(i) \ removed = {}
      BY <2>0, <2>1, <2>6 DEF OneCoreOf
    <3>2. Cores(i)' \ removed' \subseteq {p}
      BY <2>0, <2>4, <3>1 DEF Cores, Alive
    <3>3. handle'[i] = [pid |-> p, port |-> call[c].port]
      BY <2>0, <2>3 DEF TInv, TypeOK
    <3>4. Known(i)' /\ handle'[i].pid = p
      BY <2>0, <3>3, WorkerAssumption DEF Known
    <3>5. \A d \in Tasks : ~Busy(d, i)'
      <4>1. \A d \in Tasks \ {c} : ~Busy(d, i)
        BY <2>0, <2>1, <2>6 DEF OneCoreOf
      <4>2. i # None
        BY <2>0, WorkerAssumption
      <4> QED BY <2>2, <4>1, <4>2 DEF Busy
    <3> QED BY <2>6, <3>2, <3>4, <3>5 DEF OneCoreOf
  <2>7. CASE j # i
    <3>1. handle'[j] = handle[j]
      BY <2>3, <2>7 DEF TInv, TypeOK
    <3>2. Cores(j)' \ removed' \subseteq Cores(j) \ removed
      BY <2>0, <2>4, <2>5, <2>7 DEF Cores, Alive
    <3>3. \A d \in Tasks : Busy(d, j)' => Busy(d, j) /\ call'[d] = call[d]
      BY <2>2, WorkerAssumption DEF Busy
    <3>4. \A q \in Cores(j)' \ removed' : Known(j)' /\ handle'[j].pid = q
      BY <2>1, <3>1, <3>2 DEF OneCoreOf, Known
    <3>5. \A d \in Tasks :
            /\ Busy(d, j)' /\ call'[d].pc = "spawn" => Cores(j)' \ removed' = {}
            /\ Busy(d, j)' /\ call'[d].pc = "stop" => Known(j)' /\ call'[d].pid = handle'[j].pid
      BY <2>1, <3>1, <3>2, <3>3 DEF OneCoreOf, Known
    <3>6. \A d, e \in Tasks : Busy(d, j)' /\ Busy(e, j)' => d = e
      BY <2>1, <3>3 DEF OneCoreOf
    <3> QED BY <3>4, <3>5, <3>6 DEF OneCoreOf
  <2> QED BY <2>6, <2>7
<1>11. ASSUME NEW c \in Tasks, SpawnFails(c) PROVE OneCore'
  BY <1>3, <1>11, CoresStay DEF SpawnFails
<1>12. ASSUME UNCHANGED <<handle, call, raced>>, CoresKept PROVE OneCore'
  BY <1>12, Frame DEF OneCore
<1>13. ASSUME NEW p \in Pids, Bind(p) \/ Exit(p) PROVE OneCore'
  <2>1. CASE proc' = [proc EXCEPT ![p] = Dead] /\ removed' = removed \ {p}
    BY <1>12, <1>13, <2>1, DeathKeeps DEF Bind, Exit
  <2>2. CASE Bind(p) /\ proc' = [proc EXCEPT ![p].stage = "serving"] /\ removed' = removed
    <3>1. CoresKept
      BY <2>2 DEF Bind, CoresKept, Alive, TInv, TypeOK, CoreRecord, Dead
    <3> QED BY <1>12, <2>2, <3>1 DEF Bind
  <2> QED BY <1>13, <2>1, <2>2 DEF Bind, Exit
<1>14. ASSUME NEW i \in Instances, Relaunch(i) PROVE OneCore'
  <2>1. CASE Known(i)
    BY <1>12, <1>14, <2>1, CoresStay DEF Relaunch
  <2>2. CASE ~Known(i)
    BY <1>0, <1>2, <1>14, <2>2 DEF Relaunch, Runs
  <2> QED BY <2>1, <2>2
<1>15. CASE PodRestart
  <2>1. \A i \in Instances : Cores(i)' = {}
    BY <1>15 DEF PodRestart, Cores, Alive, Dead
  <2>2. \A i \in Instances, c \in Tasks : ~Busy(c, i)'
    BY <1>15 DEF PodRestart, Busy, Idle
  <2> QED BY <2>1, <2>2 DEF OneCore, OneCoreOf
<1>16. CASE UNCHANGED vars
  BY <1>12, <1>16, CoresStay DEF vars
<1> QED
  BY <1>4, <1>5, <1>6, <1>7, <1>8, <1>9, <1>10, <1>11, <1>13, <1>14, <1>15, <1>16
     DEF Next, Request, Step

LEMMA OneCoreInit == Init => OneCore
  BY DEF Init, OneCore, OneCoreOf, Cores, Alive, Dead, Busy, Idle

(* Without overlapping requests, and without a Core that remove left       *)
(* behind, an instance never has two Cores.                                *)
THEOREM CoresAreSingle == Spec => []OneCorePerInstance
<1>1. OneCore => OneCorePerInstance
  <2> SUFFICES ASSUME OneCore, NEW i \in Instances, i \notin raced, Cores(i) \cap removed = {}
               PROVE  Cardinality(Cores(i)) <= 1
    BY DEF OneCorePerInstance
  <2>1. Cores(i) \subseteq {handle[i].pid}
    BY DEF OneCore, OneCoreOf
  <2>2. CASE Cores(i) = {}
    BY <2>2, FS_EmptySet
  <2>3. CASE Cores(i) = {handle[i].pid}
    <3>1. Cardinality({handle[i].pid}) = 1
      BY FS_Singleton
    <3> QED BY <2>3, <3>1
  <2> QED BY <2>1, <2>2, <2>3
<1> QED BY <1>1, TypesInit, TypesStep, OneCoreInit, OneCoreStep, PTL DEF Spec

(* What the worker keeps, for every number of instances, requests, ports   *)
(* and processes.                                                          *)
LEMMA WorkerOfFleet == MCSpec => Spec
<1>1. MCInit => Init
  BY DEF MCInit
<1>2. [MCNext]_allVars => [Next]_vars
  BY Zenon DEF MCNext, In, allVars, Next
<1> QED BY <1>1, <1>2, PTL DEF MCSpec, Spec

THEOREM WorkerIsSafe == MCSpec => []WorkerSafe
<1>1. TypeOK /\ PortsAreExclusive /\ RoutesToOwnCore /\ OneCorePerInstance => WorkerSafe
  BY DEF WorkerSafe
<1> QED BY <1>1, WorkerOfFleet, WorkerTypes, PortsExclusive, TrafficIsOwn, CoresAreSingle, PTL

-----------------------------------------------------------------------------
(* The Docker driver.                                                      *)
LEMMA DockerStep ==
  ASSUME [MCNext]_allVars
  PROVE  \/ UNCHANGED dockerVars
         \/ \E c \in DCalls, op \in {"launch", "restart"}, i \in Hosted : BeginDocker(c, op, i)
         \/ \E c \in DCalls, i \in Hosted : StopKnown(c, i) \/ RemoveKnown(c, i)
         \/ \E c \in DTasks : StopEnds(c) \/ RunSucceeds(c) \/ RunFails(c) \/ RmEnds(c) \/ Reply(c)
         \/ \E i \in Hosted : CoreExits(i) \/ RelaunchNext(i)
         \/ WorkerRestarts
BY Zenon DEF MCNext, In, allVars

OpSet == {"none", "launch", "restart", "stop", "remove", "relaunch"}
CommandSet == [pc : {"idle", "ok", "error", "stop", "run", "rm"}, op : OpSet,
               inst : Hosted \cup {Absent}, port : HostPorts \cup {Absent}]

ContainerSet == [state : {"none", "running", "stopped"}, port : HostPorts \cup {Absent}]

DockerTyped ==
  /\ dhandle \in [Hosted -> HostPorts \cup {Absent}] /\ dused \subseteq HostPorts
  /\ dregistry \in [Hosted -> HostPorts \cup {Absent}]
  /\ container \in [Hosted -> ContainerSet] /\ relaunch \subseteq Hosted
  /\ dcall \in [DTasks -> CommandSet]
  /\ \A c \in DTasks : dcall[c].pc \in {"stop", "run", "rm"} =>
       dcall[c].inst \in Hosted /\ dcall[c].port \in HostPorts

(* A port in use has one owner: the handle of an instance, a docker run    *)
(* that waits, or a docker rm that will release it.                        *)
Owning(c) == dcall[c].pc \in {"run", "rm"}

Owners ==
  /\ \A i, j \in Hosted : Launched(i) /\ dhandle[i] = dhandle[j] => i = j
  /\ \A i \in Hosted : Launched(i) => dhandle[i] \in dused
  /\ \A c \in DTasks : Owning(c) =>
       /\ dcall[c].port \in dused
       /\ \A i \in Hosted : dhandle[i] # dcall[c].port
       /\ \A d \in DTasks : Owning(d) /\ dcall[d].port = dcall[c].port => c = d

(* What runs on the port of a handle is the container of that instance.    *)
Routed == \A i, j \in Hosted : Launched(i) /\ Holds(j, dhandle[i]) => i = j

DockerInv == DockerTyped /\ Owners /\ Routed

(* A call moves on, and the others stay.                                   *)
LEMMA ToCommand ==
  ASSUME DockerTyped, NEW c \in DTasks,
         NEW pc \in {"stop", "run", "rm"}, NEW op \in OpSet,
         NEW i \in Hosted, NEW p \in HostPorts, To(c, pc, op, i, p)
  PROVE  /\ dcall' \in [DTasks -> CommandSet]
         /\ dcall'[c].pc = pc /\ dcall'[c].port = p /\ dcall'[c].inst = i
         /\ \A d \in DTasks : d # c => dcall'[d] = dcall[d]
<1> DEFINE y == [pc |-> pc, op |-> op, inst |-> i, port |-> p]
<1>1. y \in CommandSet /\ y.pc = pc /\ y.port = p /\ y.inst = i
  BY DEF CommandSet
<1>2. dcall' = [dcall EXCEPT ![c] = y]
  BY DEF To
<1> HIDE DEF y
<1> QED BY <1>1, <1>2 DEF DockerTyped

LEMMA ReturnCommand ==
  ASSUME DockerTyped, NEW c \in DTasks, NEW r \in {"ok", "error"}, Return(c, r)
  PROVE  /\ dcall' \in [DTasks -> CommandSet]
         /\ dcall'[c].pc \in {"idle", "ok", "error"}
         /\ \A d \in DTasks : d # c => dcall'[d] = dcall[d]
<1> DEFINE y == IF c = Startup THEN Ready ELSE [Ready EXCEPT !.pc = r]
<1>1. Ready \in CommandSet /\ Ready.pc = "idle"
  BY DEF Ready, CommandSet, OpSet
<1>2. [Ready EXCEPT !.pc = r] \in CommandSet /\ [Ready EXCEPT !.pc = r].pc = r
  <2>1. [Ready EXCEPT !.pc = r] = [pc |-> r, op |-> "none", inst |-> Absent, port |-> Absent]
    BY DEF Ready
  <2>2. [pc |-> r, op |-> "none", inst |-> Absent, port |-> Absent] \in CommandSet
    BY DEF CommandSet, OpSet
  <2> QED BY <2>1, <2>2
<1>3. y \in CommandSet /\ y.pc \in {"idle", "ok", "error"}
  BY <1>1, <1>2
<1>4. dcall' = [dcall EXCEPT ![c] = y]
  BY DEF Return
<1> HIDE DEF y
<1> QED BY <1>3, <1>4 DEF DockerTyped

(* docker run is asked for with a port of nobody, or not at all.           *)
LEMMA Asked ==
  ASSUME DockerTyped, Owners, NEW c \in DTasks, ~Owning(c),
         NEW op \in OpSet, NEW i \in Hosted, NEW p0,
         AskRun(c, op, i, p0)
  PROVE  /\ dused \subseteq dused' /\ dused' \subseteq HostPorts
         /\ dcall' \in [DTasks -> CommandSet]
         /\ \A d \in DTasks : d # c => dcall'[d] = dcall[d]
         /\ \/ dcall'[c].pc \in {"idle", "ok", "error"}
            \/ /\ dcall'[c].pc = "run" /\ dcall'[c].inst = i
               /\ dcall'[c].port \in HostPorts \ dused /\ dcall'[c].port \in dused'
<1>1. CASE \E p \in IF p0 \in Bindable THEN {p0} ELSE Bindable :
             dused' = dused \cup {p} /\ To(c, "run", op, i, p)
  <2>1. PICK p \in Bindable : dused' = dused \cup {p} /\ To(c, "run", op, i, p)
    BY <1>1
  <2>2. p \in HostPorts \ dused
    BY <2>1 DEF Bindable
  <2>3. /\ dcall' \in [DTasks -> CommandSet]
        /\ dcall'[c].pc = "run" /\ dcall'[c].port = p /\ dcall'[c].inst = i
        /\ \A d \in DTasks : d # c => dcall'[d] = dcall[d]
    BY <2>1, <2>2, ToCommand
  <2> QED BY <2>1, <2>2, <2>3 DEF DockerTyped
<1>2. CASE Return(c, "error") /\ UNCHANGED dused
  <2>1. /\ dcall' \in [DTasks -> CommandSet]
        /\ dcall'[c].pc \in {"idle", "ok", "error"}
        /\ \A d \in DTasks : d # c => dcall'[d] = dcall[d]
    BY <1>2, ReturnCommand
  <2> QED BY <1>2, <2>1 DEF DockerTyped
<1> QED BY <1>1, <1>2 DEF AskRun

(* The owners, when a command takes a new port or none.                    *)
LEMMA OwnersStay ==
  ASSUME DockerTyped, Owners, NEW c \in DTasks,
         dused \subseteq dused',
         \A d \in DTasks : d # c => dcall'[d] = dcall[d],
         \A i \in Hosted : dhandle'[i] \in {dhandle[i], Absent},
         \/ ~Owning(c)'
         \/ dcall'[c].port \in HostPorts \ dused /\ dcall'[c].port \in dused'
  PROVE  Owners'
<1>0. Absent \notin HostPorts
  BY DockerAssumption
<1>1. \A i, j \in Hosted : dhandle'[i] # Absent /\ dhandle'[i] = dhandle'[j] => i = j
  BY <1>0 DEF Owners, Launched
<1>2. \A i \in Hosted : dhandle'[i] # Absent => dhandle'[i] \in dused'
  BY <1>0 DEF Owners, Launched
<1>3. ASSUME NEW d \in DTasks, Owning(d)'
      PROVE  /\ dcall'[d].port \in dused'
             /\ \A i \in Hosted : dhandle'[i] # dcall'[d].port
             /\ \A e \in DTasks : Owning(e)' /\ dcall'[e].port = dcall'[d].port => d = e
  <2>1. CASE d = c
    <3>1. dcall'[c].port \in HostPorts \ dused /\ dcall'[c].port \in dused'
      BY <1>3, <2>1
    <3>2. \A i \in Hosted : dhandle'[i] # dcall'[c].port
      BY <1>0, <3>1 DEF Owners, Launched
    <3>3. \A e \in DTasks : e # c /\ Owning(e)' => dcall'[e].port \in dused
      BY DEF Owners, Owning
    <3> QED BY <2>1, <3>1, <3>2, <3>3
  <2>2. CASE d # c
    <3>1. dcall'[d] = dcall[d] /\ Owning(d)
      BY <1>3, <2>2 DEF Owning
    <3>2. dcall[d].port \in dused /\ \A i \in Hosted : dhandle[i] # dcall[d].port
      BY <3>1 DEF Owners
    <3>3. \A i \in Hosted : dhandle'[i] # dcall'[d].port
      BY <1>0, <3>1, <3>2 DEF DockerTyped
    <3>4. ASSUME NEW e \in DTasks, Owning(e)', dcall'[e].port = dcall'[d].port PROVE d = e
      <4>1. e # c
        BY <3>1, <3>2, <3>4
      <4>2. Owning(e) /\ dcall[e].port = dcall[d].port
        BY <3>1, <3>4, <4>1 DEF Owning
      <4> QED BY <3>1, <4>2 DEF Owners
    <3> QED BY <3>1, <3>2, <3>3, <3>4
  <2> QED BY <2>1, <2>2
<1> QED BY <1>1, <1>2, <1>3 DEF Owners, Launched

(* The owners, when a command ends and its port is released or not.        *)
LEMMA OwnersLeft ==
  ASSUME DockerTyped, Owners, NEW c \in DTasks, Owning(c), ~Owning(c)',
         dused' \in {dused, dused \ {dcall[c].port}},
         \A d \in DTasks : d # c => dcall'[d] = dcall[d], dhandle' = dhandle
  PROVE  Owners'
<1>1. \A i \in Hosted : dhandle'[i] = dhandle[i] /\ dhandle[i] # dcall[c].port
  BY DEF Owners
<1>2. \A d \in DTasks : Owning(d)' =>
        d # c /\ Owning(d) /\ dcall'[d] = dcall[d] /\ dcall[d].port # dcall[c].port
  BY DEF Owners, Owning
<1>3. \A i \in Hosted : dhandle'[i] # Absent => dhandle'[i] \in dused'
  BY <1>1 DEF Owners, Launched
<1>4. \A d \in DTasks : Owning(d)' =>
        /\ dcall'[d].port \in dused'
        /\ \A i \in Hosted : dhandle'[i] # dcall'[d].port
        /\ \A e \in DTasks : Owning(e)' /\ dcall'[e].port = dcall'[d].port => d = e
  BY <1>1, <1>2 DEF Owners
<1> QED BY <1>1, <1>3, <1>4 DEF Owners, Launched

(* What runs on the ports of handles, when no container starts.            *)
LEMMA RoutedStays ==
  ASSUME DockerTyped, Routed,
         \A i \in Hosted : dhandle'[i] \in {dhandle[i], Absent},
         \A j \in Hosted : container'[j].state = "running" => container'[j] = container[j]
  PROVE  Routed'
BY DEF Routed, Launched, Holds

LEMMA DockerStart == MCInit => DockerInv
<1> SUFFICES ASSUME DockerInit PROVE DockerInv
  BY DEF MCInit
<1>1. DockerTyped
  BY DEF DockerInit, DockerTyped, NotLaunched, ContainerSet, CommandSet, OpSet, Ready
<1>2. \A i \in Hosted : dhandle[i] = Absent
  BY DEF DockerInit
<1>3. \A c \in DTasks : ~Owning(c)
  BY DEF DockerInit, Ready, Owning
<1> QED BY <1>1, <1>2, <1>3 DEF DockerInv, Owners, Routed, Launched

LEMMA StoppedContainer ==
  ASSUME DockerTyped, NEW i \in Hosted,
         container' \in {container, [container EXCEPT ![i].state = "stopped"], [container EXCEPT ![i] = NotLaunched]}
  PROVE  /\ container' \in [Hosted -> ContainerSet]
         /\ \A j \in Hosted : container'[j].state = "running" => container'[j] = container[j]
<1>1. CASE container' = container
  BY <1>1 DEF DockerTyped
<1>2. CASE container' = [container EXCEPT ![i].state = "stopped"]
  <2> DEFINE y == [container[i] EXCEPT !.state = "stopped"]
  <2>1. y \in ContainerSet /\ y.state = "stopped"
    <3>1. container[i] \in ContainerSet
      BY DEF DockerTyped
    <3> QED BY <3>1, Zenon DEF ContainerSet
  <2>2. container' = [container EXCEPT ![i] = y]
    BY <1>2
  <2> HIDE DEF y
  <2> QED BY <2>1, <2>2 DEF DockerTyped
<1>3. CASE container' = [container EXCEPT ![i] = NotLaunched]
  <2>1. NotLaunched \in ContainerSet /\ NotLaunched.state = "none"
    BY DEF NotLaunched, ContainerSet
  <2> QED BY <1>3, <2>1 DEF DockerTyped
<1> QED BY <1>1, <1>2, <1>3

(* The types of the calls, when one moved and the others stay.             *)
LEMMA CommandsTyped ==
  ASSUME DockerTyped, NEW c \in DTasks, dcall' \in [DTasks -> CommandSet],
         \A d \in DTasks : d # c => dcall'[d] = dcall[d],
         dcall'[c].pc \in {"stop", "run", "rm"} => dcall'[c].inst \in Hosted /\ dcall'[c].port \in HostPorts,
         dhandle' \in [Hosted -> HostPorts \cup {Absent}], dused' \subseteq HostPorts,
         dregistry' \in [Hosted -> HostPorts \cup {Absent}],
         container' \in [Hosted -> ContainerSet], relaunch' \subseteq Hosted
  PROVE  DockerTyped'
<1>1. ASSUME NEW d \in DTasks, dcall'[d].pc \in {"stop", "run", "rm"}
      PROVE  dcall'[d].inst \in Hosted /\ dcall'[d].port \in HostPorts
  BY <1>1 DEF DockerTyped
<1> QED BY <1>1 DEF DockerTyped

LEMMA DockerKeeps == DockerInv /\ [MCNext]_allVars => DockerInv'
<1> SUFFICES ASSUME DockerInv, [MCNext]_allVars PROVE DockerInv'
  OBVIOUS
<1>0. DockerTyped /\ Owners /\ Routed
  BY DEF DockerInv
<1>1. /\ dhandle \in [Hosted -> HostPorts \cup {Absent}] /\ dused \subseteq HostPorts
      /\ dregistry \in [Hosted -> HostPorts \cup {Absent}]
      /\ container \in [Hosted -> ContainerSet] /\ relaunch \subseteq Hosted
      /\ dcall \in [DTasks -> CommandSet] /\ Absent \notin HostPorts
  BY <1>0, DockerAssumption DEF DockerTyped
<1>2. \A i \in Hosted : Launched(i) => dhandle[i] \in HostPorts
  BY <1>1 DEF Launched
<1>3. CASE UNCHANGED dockerVars
  BY <1>0, <1>3 DEF dockerVars, DockerInv, DockerTyped, Owners, Routed, Launched, Holds, Owning
<1>4. ASSUME NEW c \in DCalls, NEW op \in {"launch", "restart"}, NEW i \in Hosted, BeginDocker(c, op, i)
      PROVE  DockerInv'
  <2>1. /\ c \in DTasks /\ ~Owning(c) /\ op \in OpSet
        /\ dhandle' = dhandle /\ dregistry' = dregistry /\ container' = container /\ relaunch' = relaunch
    BY <1>4 DEF BeginDocker, DTasks, Owning, OpSet
  <2>2. CASE Launched(i) /\ To(c, "stop", op, i, dhandle[i]) /\ UNCHANGED dused
    <3>1. /\ dcall' \in [DTasks -> CommandSet] /\ \A d \in DTasks : d # c => dcall'[d] = dcall[d]
          /\ dcall'[c].pc = "stop" /\ dcall'[c].inst = i /\ dcall'[c].port = dhandle[i]
      BY <1>0, <1>2, <2>1, <2>2, ToCommand
    <3>2. ~Owning(c)' /\ dused' = dused /\ dhandle[i] \in HostPorts
      BY <1>2, <2>2, <3>1 DEF Owning
    <3>3. Owners' /\ Routed'
      BY <1>0, <2>1, <3>1, <3>2, OwnersStay, RoutedStays
    <3>4. DockerTyped'
      BY <1>0, <1>1, <2>1, <3>1, <3>2, CommandsTyped
    <3> QED BY <3>3, <3>4 DEF DockerInv
  <2>3. CASE AskRun(c, op, i, Absent)
    <3>1. /\ dused \subseteq dused' /\ dused' \subseteq HostPorts
          /\ dcall' \in [DTasks -> CommandSet] /\ \A d \in DTasks : d # c => dcall'[d] = dcall[d]
          /\ \/ dcall'[c].pc \in {"idle", "ok", "error"}
             \/ /\ dcall'[c].pc = "run" /\ dcall'[c].inst = i
                /\ dcall'[c].port \in HostPorts \ dused /\ dcall'[c].port \in dused'
      BY <1>0, <2>1, <2>3, Asked
    <3>2. Owners' /\ Routed'
      BY <1>0, <2>1, <3>1, OwnersStay, RoutedStays DEF Owning
    <3>3. DockerTyped'
      BY <1>0, <1>1, <2>1, <3>1, CommandsTyped
    <3> QED BY <3>2, <3>3 DEF DockerInv
  <2> QED BY <1>4, <2>2, <2>3 DEF BeginDocker
<1>5. ASSUME NEW c \in DCalls, NEW i \in Hosted, StopKnown(c, i) PROVE DockerInv'
  <2>1. /\ c \in DTasks /\ dused' = dused
        /\ dhandle' = dhandle /\ dregistry' = dregistry /\ container' = container /\ relaunch' = relaunch
    BY <1>5 DEF StopKnown, DTasks
  <2>2. /\ dcall' \in [DTasks -> CommandSet] /\ \A d \in DTasks : d # c => dcall'[d] = dcall[d]
        /\ \/ dcall'[c].pc \in {"idle", "ok", "error"}
           \/ dcall'[c].pc = "stop" /\ dcall'[c].inst = i /\ dcall'[c].port \in HostPorts
    <3>1. CASE Launched(i) /\ To(c, "stop", "stop", i, dhandle[i])
      BY <1>0, <1>2, <2>1, <3>1, ToCommand DEF OpSet
    <3>2. CASE Return(c, "error")
      BY <1>0, <2>1, <3>2, ReturnCommand
    <3> QED BY <1>5, <3>1, <3>2 DEF StopKnown
  <2>3. Owners' /\ Routed'
    BY <1>0, <2>1, <2>2, OwnersStay, RoutedStays DEF Owning
  <2>4. DockerTyped'
    BY <1>0, <1>1, <2>1, <2>2, CommandsTyped
  <2> QED BY <2>3, <2>4 DEF DockerInv
<1>6. ASSUME NEW c \in DCalls, NEW i \in Hosted, RemoveKnown(c, i) PROVE DockerInv'
  <2>1. /\ c \in DTasks /\ dused' = dused /\ container' = container /\ relaunch' = relaunch
        /\ dhandle' = [dhandle EXCEPT ![i] = Absent]
        /\ dregistry' \in [Hosted -> HostPorts \cup {Absent}]
    BY <1>1, <1>6 DEF RemoveKnown, DTasks
  <2>2. /\ dhandle' \in [Hosted -> HostPorts \cup {Absent}] /\ dhandle'[i] = Absent
        /\ \A j \in Hosted : dhandle'[j] \in {dhandle[j], Absent}
    BY <1>1, <2>1
  <2>3. CASE Launched(i) /\ To(c, "rm", "remove", i, dhandle[i])
    <3>1. /\ dcall' \in [DTasks -> CommandSet] /\ \A d \in DTasks : d # c => dcall'[d] = dcall[d]
          /\ dcall'[c].pc = "rm" /\ dcall'[c].inst = i /\ dcall'[c].port = dhandle[i]
          /\ dhandle[i] \in HostPorts
      BY <1>0, <1>2, <2>1, <2>3, ToCommand DEF OpSet
    <3>2. DockerTyped'
      BY <1>0, <1>1, <2>1, <2>2, <3>1, CommandsTyped
    <3>3. Routed'
      BY <1>0, <2>1, <2>2, RoutedStays
    <3>4. \A j \in Hosted : dhandle'[j] # dhandle[i]
      BY <1>0, <1>1, <2>1, <2>3, <3>1 DEF Owners, Launched
    <3>5. dhandle[i] \in dused /\ \A d \in DTasks : Owning(d) => dcall[d].port # dhandle[i]
      BY <1>0, <2>3 DEF Owners
    <3>6. \A d \in DTasks : d # c /\ Owning(d)' => Owning(d) /\ dcall'[d] = dcall[d]
      BY <3>1 DEF Owning
    <3>7. \A j, k \in Hosted : dhandle'[j] # Absent /\ dhandle'[j] = dhandle'[k] => j = k
      BY <1>0, <2>1, <2>2 DEF Owners, Launched
    <3>8. \A j \in Hosted : dhandle'[j] # Absent => dhandle'[j] \in dused'
      BY <1>0, <2>1, <2>2 DEF Owners, Launched
    <3>9. ASSUME NEW d \in DTasks, Owning(d)'
          PROVE  /\ dcall'[d].port \in dused'
                 /\ \A j \in Hosted : dhandle'[j] # dcall'[d].port
                 /\ \A e \in DTasks : Owning(e)' /\ dcall'[e].port = dcall'[d].port => d = e
      <4>1. CASE d = c
        BY <2>1, <3>1, <3>4, <3>5, <3>6, <4>1
      <4>2. CASE d # c
        <5>1. Owning(d) /\ dcall'[d] = dcall[d] /\ dcall[d].port \in HostPorts
          BY <1>0, <3>6, <3>9, <4>2 DEF DockerTyped, Owning
        <5>2. dcall[d].port \in dused /\ \A j \in Hosted : dhandle[j] # dcall[d].port
          BY <1>0, <5>1 DEF Owners
        <5>3. \A j \in Hosted : dhandle'[j] # dcall'[d].port
          BY <1>1, <2>2, <5>1, <5>2
        <5>4. ASSUME NEW e \in DTasks, Owning(e)', dcall'[e].port = dcall'[d].port PROVE d = e
          <6>1. e # c
            BY <3>1, <3>5, <5>1, <5>4
          <6>2. Owning(e) /\ dcall[e].port = dcall[d].port
            BY <3>6, <5>1, <5>4, <6>1
          <6> QED BY <1>0, <5>1, <6>2 DEF Owners
        <5> QED BY <2>1, <5>1, <5>2, <5>3, <5>4
      <4> QED BY <4>1, <4>2
    <3>10. Owners'
      BY <3>7, <3>8, <3>9 DEF Owners, Launched
    <3> QED BY <3>2, <3>3, <3>10 DEF DockerInv
  <2>4. CASE Return(c, "ok")
    <3>1. /\ dcall' \in [DTasks -> CommandSet] /\ \A d \in DTasks : d # c => dcall'[d] = dcall[d]
          /\ dcall'[c].pc \in {"idle", "ok", "error"}
      BY <1>0, <2>1, <2>4, ReturnCommand
    <3>2. Owners' /\ Routed'
      BY <1>0, <2>1, <2>2, <3>1, OwnersStay, RoutedStays DEF Owning
    <3>3. DockerTyped'
      BY <1>0, <1>1, <2>1, <2>2, <3>1, CommandsTyped
    <3> QED BY <3>2, <3>3 DEF DockerInv
  <2> QED BY <1>6, <2>3, <2>4 DEF RemoveKnown
<1>7. ASSUME NEW c \in DTasks, StopEnds(c) PROVE DockerInv'
  <2> DEFINE i == dcall[c].inst
             op == dcall[c].op
  <2>1. /\ dcall[c].pc = "stop" /\ i \in Hosted /\ op \in OpSet /\ ~Owning(c)
        /\ dregistry' = dregistry /\ relaunch' = relaunch
    BY <1>0, <1>7 DEF StopEnds, DockerTyped, CommandSet, Owning
  <2>2. PICK fails \in BOOLEAN, halts \in BOOLEAN :
       /\ container' = IF halts /\ container[i].state = "running"
                       THEN [container EXCEPT ![i].state = "stopped"] ELSE container
       /\ CASE op = "stop" -> Return(c, IF fails THEN "error" ELSE "ok") /\ UNCHANGED <<dhandle, dused>>
            [] op = "restart" /\ fails -> Return(c, "error") /\ UNCHANGED <<dhandle, dused>>
            [] OTHER ->
                 /\ AskRun(c, op, i, Absent)
                 /\ dhandle' = IF op = "launch" THEN [dhandle EXCEPT ![i] = Absent] ELSE dhandle
    BY <1>7 DEF StopEnds
  <2> HIDE DEF i
  <2>3. /\ container' \in [Hosted -> ContainerSet]
        /\ \A j \in Hosted : container'[j].state = "running" => container'[j] = container[j]
    BY <1>0, <2>1, <2>2, StoppedContainer
  <2>4. CASE (Return(c, "ok") \/ Return(c, "error")) /\ UNCHANGED <<dhandle, dused>>
    <3>1. /\ dcall' \in [DTasks -> CommandSet] /\ \A d \in DTasks : d # c => dcall'[d] = dcall[d]
          /\ dcall'[c].pc \in {"idle", "ok", "error"} /\ dhandle' = dhandle /\ dused' = dused
      BY <1>0, <2>4, ReturnCommand
    <3>2. Owners' /\ Routed'
      BY <1>0, <2>3, <3>1, OwnersStay, RoutedStays DEF Owning
    <3>3. DockerTyped'
      BY <1>0, <1>1, <2>1, <2>3, <3>1, CommandsTyped
    <3> QED BY <3>2, <3>3 DEF DockerInv
  <2>5. CASE /\ AskRun(c, op, i, Absent)
             /\ dhandle' = IF op = "launch" THEN [dhandle EXCEPT ![i] = Absent] ELSE dhandle
    <3>1. /\ dused \subseteq dused' /\ dused' \subseteq HostPorts
          /\ dcall' \in [DTasks -> CommandSet] /\ \A d \in DTasks : d # c => dcall'[d] = dcall[d]
          /\ \/ dcall'[c].pc \in {"idle", "ok", "error"}
             \/ /\ dcall'[c].pc = "run" /\ dcall'[c].inst = i
                /\ dcall'[c].port \in HostPorts \ dused /\ dcall'[c].port \in dused'
      BY <1>0, <2>1, <2>5, Asked
    <3>2. /\ dhandle' \in [Hosted -> HostPorts \cup {Absent}]
          /\ \A j \in Hosted : dhandle'[j] \in {dhandle[j], Absent}
      BY <1>1, <2>1, <2>5
    <3>3. Owners' /\ Routed'
      BY <1>0, <2>3, <3>1, <3>2, OwnersStay, RoutedStays DEF Owning
    <3>4. DockerTyped'
      BY <1>0, <1>1, <2>1, <2>3, <3>1, <3>2, CommandsTyped
    <3> QED BY <3>3, <3>4 DEF DockerInv
  <2> QED BY <2>2, <2>4, <2>5
<1>8. ASSUME NEW c \in DTasks, RunSucceeds(c) PROVE DockerInv'
  <2> DEFINE i == dcall[c].inst
             p == dcall[c].port
  <2>1. /\ i \in Hosted /\ p \in HostPorts /\ Owning(c) /\ dcall[c].pc = "run"
        /\ \A j \in Hosted : ~Holds(j, p)
        /\ container' = [container EXCEPT ![i] = [state |-> "running", port |-> p]]
        /\ dhandle' = [dhandle EXCEPT ![i] = p]
        /\ dused' = dused /\ relaunch' = relaunch
        /\ Return(c, "ok")
    BY <1>0, <1>8 DEF RunSucceeds, DockerTyped, Owning
  <2>2. dregistry' \in [Hosted -> HostPorts \cup {Absent}]
    BY <1>1, <1>8, <2>1 DEF RunSucceeds
  <2> HIDE DEF i, p
  <2>3. /\ dcall' \in [DTasks -> CommandSet] /\ \A d \in DTasks : d # c => dcall'[d] = dcall[d]
        /\ dcall'[c].pc \in {"idle", "ok", "error"} /\ ~Owning(c)'
    BY <1>0, <2>1, ReturnCommand DEF Owning
  <2>4. [state |-> "running", port |-> p] \in ContainerSet
    BY <2>1 DEF ContainerSet
  <2>5. /\ container' \in [Hosted -> ContainerSet] /\ dhandle' \in [Hosted -> HostPorts \cup {Absent}]
    BY <1>1, <2>1, <2>4
  <2>6. DockerTyped'
    BY <1>0, <1>1, <2>1, <2>2, <2>3, <2>5, CommandsTyped
  <2>7. /\ p \in dused /\ \A j \in Hosted : dhandle[j] # p
        /\ \A d \in DTasks : Owning(d) /\ dcall[d].port = p => d = c
    BY <1>0, <2>1 DEF Owners, p
  <2>8. \A d \in DTasks : Owning(d)' => d # c /\ Owning(d) /\ dcall'[d] = dcall[d] /\ dcall[d].port # p
    BY <2>3, <2>7 DEF Owning
  <2>9. \A j \in Hosted : j # i => dhandle'[j] = dhandle[j] /\ container'[j] = container[j]
    BY <1>1, <2>1
  <2>10. dhandle'[i] = p /\ container'[i].port = p
    BY <1>1, <2>1
  <2>11. Owners'
    <3>1. \A j, k \in Hosted : dhandle'[j] # Absent /\ dhandle'[j] = dhandle'[k] => j = k
      BY <1>0, <2>7, <2>9, <2>10 DEF Owners, Launched
    <3>2. \A j \in Hosted : dhandle'[j] # Absent => dhandle'[j] \in dused'
      BY <1>0, <2>1, <2>7, <2>9, <2>10 DEF Owners, Launched
    <3>3. ASSUME NEW d \in DTasks, Owning(d)'
          PROVE  /\ dcall'[d].port \in dused'
                 /\ \A j \in Hosted : dhandle'[j] # dcall'[d].port
                 /\ \A e \in DTasks : Owning(e)' /\ dcall'[e].port = dcall'[d].port => d = e
      <4>1. Owning(d) /\ dcall'[d] = dcall[d] /\ dcall[d].port # p
        BY <2>8, <3>3
      <4>2. dcall[d].port \in dused /\ \A j \in Hosted : dhandle[j] # dcall[d].port
        BY <1>0, <4>1 DEF Owners
      <4>3. \A e \in DTasks : Owning(e)' /\ dcall'[e].port = dcall'[d].port => d = e
        BY <1>0, <2>8, <4>1 DEF Owners
      <4> QED BY <2>1, <2>9, <2>10, <4>1, <4>2, <4>3
    <3> QED BY <3>1, <3>2, <3>3 DEF Owners, Launched
  <2>12. Routed'
    <3>1. ASSUME NEW j \in Hosted, NEW k \in Hosted, dhandle'[j] # Absent,
                 container'[k].state = "running", container'[k].port = dhandle'[j]
          PROVE  j = k
      <4>1. CASE j = i
        BY <2>1, <2>9, <2>10, <3>1, <4>1 DEF Holds
      <4>2. CASE j # i
        <5>1. dhandle'[j] = dhandle[j] /\ dhandle[j] # p
          BY <2>7, <2>9, <4>2
        <5>2. k # i
          BY <2>10, <3>1, <5>1
        <5> QED BY <1>0, <2>9, <3>1, <5>1, <5>2 DEF Routed, Launched, Holds
      <4> QED BY <4>1, <4>2
    <3> QED BY <3>1 DEF Routed, Launched, Holds
  <2> QED BY <2>6, <2>11, <2>12 DEF DockerInv
<1>9. ASSUME NEW c \in DTasks, RunFails(c) PROVE DockerInv'
  <2> DEFINE i == dcall[c].inst
             p == dcall[c].port
  <2>1. /\ i \in Hosted /\ p \in HostPorts /\ Owning(c) /\ dcall[c].pc = "run"
        /\ dhandle' = dhandle /\ dregistry' = dregistry /\ relaunch' = relaunch
        /\ dused' = dused \ {p} /\ Return(c, "error")
    BY <1>0, <1>9 DEF RunFails, DockerTyped, Owning
  <2>2. PICK got \in {container[i], [state |-> "stopped", port |-> p], [state |-> "running", port |-> p]} :
       container' = [container EXCEPT ![i] = IF container[i].state = "none" THEN got ELSE container[i]]
    BY <1>9 DEF RunFails
  <2>3. /\ p \in dused /\ \A j \in Hosted : dhandle[j] # p
    BY <1>0, <2>1 DEF Owners
  <2>4. dcall[c].port = p
    OBVIOUS
  <2> HIDE DEF i, p
  <2>5. got \in ContainerSet /\ container[i] \in ContainerSet
    BY <1>1, <2>1 DEF ContainerSet
  <2>6. /\ container' \in [Hosted -> ContainerSet]
        /\ \A j \in Hosted : j # i => container'[j] = container[j]
        /\ container'[i].state = "running" => container'[i] = container[i] \/ container'[i].port = p
    BY <1>1, <2>1, <2>2, <2>5
  <2>7. /\ dcall' \in [DTasks -> CommandSet] /\ \A d \in DTasks : d # c => dcall'[d] = dcall[d]
        /\ dcall'[c].pc \in {"idle", "ok", "error"} /\ ~Owning(c)'
    BY <1>0, <2>1, ReturnCommand DEF Owning
  <2>8. DockerTyped'
    BY <1>0, <1>1, <2>1, <2>6, <2>7, CommandsTyped
  <2>9. Owners'
    BY <1>0, <2>1, <2>4, <2>7, OwnersLeft
  <2>10. Routed'
    <3>1. ASSUME NEW j \in Hosted, NEW k \in Hosted, dhandle[j] # Absent,
                 container'[k].state = "running", container'[k].port = dhandle[j]
          PROVE  j = k
      <4>1. container'[k] = container[k]
        BY <2>3, <2>6, <3>1
      <4> QED BY <1>0, <3>1, <4>1 DEF Routed, Launched, Holds
    <3> QED BY <2>1, <3>1 DEF Routed, Launched, Holds
  <2> QED BY <2>8, <2>9, <2>10 DEF DockerInv
<1>10. ASSUME NEW c \in DTasks, RmEnds(c) PROVE DockerInv'
  <2> DEFINE i == dcall[c].inst
             p == dcall[c].port
  <2>1. /\ i \in Hosted /\ p \in HostPorts /\ Owning(c)
        /\ dhandle' = dhandle /\ relaunch' = relaunch /\ dused' = dused \ {p}
    BY <1>0, <1>10 DEF RmEnds, DockerTyped, Owning
  <2>2. PICK fails \in BOOLEAN, goes \in BOOLEAN :
       /\ container' = IF goes THEN [container EXCEPT ![i] = NotLaunched] ELSE container
       /\ dregistry' = IF fails THEN dregistry ELSE [dregistry EXCEPT ![i] = Absent]
       /\ Return(c, IF fails THEN "error" ELSE "ok")
    BY <1>10 DEF RmEnds
  <2>3. dcall[c].port = p
    OBVIOUS
  <2> HIDE DEF i, p
  <2>4. /\ container' \in [Hosted -> ContainerSet]
        /\ \A j \in Hosted : container'[j].state = "running" => container'[j] = container[j]
    BY <1>0, <2>1, <2>2, StoppedContainer
  <2>5. dregistry' \in [Hosted -> HostPorts \cup {Absent}]
    BY <1>1, <2>1, <2>2
  <2>6. /\ dcall' \in [DTasks -> CommandSet] /\ \A d \in DTasks : d # c => dcall'[d] = dcall[d]
        /\ dcall'[c].pc \in {"idle", "ok", "error"} /\ ~Owning(c)'
    <3>1. Return(c, "error") \/ Return(c, "ok")
      BY <2>2
    <3> QED BY <1>0, <3>1, ReturnCommand DEF Owning
  <2>7. DockerTyped'
    BY <1>0, <1>1, <2>1, <2>4, <2>5, <2>6, CommandsTyped
  <2>8. Owners'
    BY <1>0, <2>1, <2>3, <2>6, OwnersLeft
  <2>9. Routed'
    BY <1>0, <2>1, <2>4, RoutedStays
  <2> QED BY <2>7, <2>8, <2>9 DEF DockerInv
<1>11. ASSUME NEW c \in DTasks, Reply(c) PROVE DockerInv'
  <2>1. Ready \in CommandSet /\ Ready.pc = "idle"
    BY DEF Ready, CommandSet, OpSet
  <2>2. /\ dcall' \in [DTasks -> CommandSet] /\ \A d \in DTasks : d # c => dcall'[d] = dcall[d]
        /\ dcall'[c].pc = "idle" /\ UNCHANGED <<dhandle, dused, dregistry, container, relaunch>>
    BY <1>1, <1>11, <2>1 DEF Reply
  <2>3. Owners' /\ Routed'
    BY <1>0, <2>2, OwnersStay, RoutedStays DEF Owning
  <2>4. DockerTyped'
    BY <1>0, <1>1, <2>2, CommandsTyped
  <2> QED BY <2>3, <2>4 DEF DockerInv
<1>12. ASSUME NEW i \in Hosted, CoreExits(i) PROVE DockerInv'
  <2>1. /\ container' = [container EXCEPT ![i].state = "stopped"]
        /\ UNCHANGED <<dhandle, dused, dregistry, dcall, relaunch>>
    BY <1>12 DEF CoreExits
  <2>2. /\ container' \in [Hosted -> ContainerSet]
        /\ \A j \in Hosted : container'[j].state = "running" => container'[j] = container[j]
    BY <1>0, <2>1, StoppedContainer
  <2>3. Routed'
    BY <1>0, <2>1, <2>2, RoutedStays
  <2>4. Owners' /\ DockerTyped'
    BY <1>0, <2>1, <2>2 DEF Owners, DockerTyped, Launched, Owning
  <2> QED BY <2>3, <2>4 DEF DockerInv
<1>13. ASSUME NEW i \in Hosted, RelaunchNext(i) PROVE DockerInv'
  <2>1. /\ Startup \in DTasks /\ ~Owning(Startup) /\ "relaunch" \in OpSet /\ relaunch' = relaunch \ {i}
        /\ dhandle' = dhandle /\ dregistry' = dregistry /\ container' = container
    BY <1>13 DEF RelaunchNext, DTasks, Owning, OpSet
  <2>2. CASE UNCHANGED <<dcall, dused>>
    <3>1. Owners' /\ Routed'
      BY <1>0, <2>1, <2>2 DEF Owners, Routed, Launched, Holds, Owning
    <3>2. DockerTyped'
      BY <1>0, <2>1, <2>2 DEF DockerTyped
    <3> QED BY <3>1, <3>2 DEF DockerInv
  <2>3. CASE AskRun(Startup, "relaunch", i, dregistry[i])
    <3>1. /\ dused \subseteq dused' /\ dused' \subseteq HostPorts
          /\ dcall' \in [DTasks -> CommandSet] /\ \A d \in DTasks : d # Startup => dcall'[d] = dcall[d]
          /\ \/ dcall'[Startup].pc \in {"idle", "ok", "error"}
             \/ /\ dcall'[Startup].pc = "run" /\ dcall'[Startup].inst = i
                /\ dcall'[Startup].port \in HostPorts \ dused /\ dcall'[Startup].port \in dused'
      BY <1>0, <2>1, <2>3, Asked
    <3>2. Owners' /\ Routed'
      BY <1>0, <2>1, <3>1, OwnersStay, RoutedStays DEF Owning
    <3>3. DockerTyped'
      BY <1>0, <1>1, <2>1, <3>1, CommandsTyped
    <3> QED BY <3>2, <3>3 DEF DockerInv
  <2> QED BY <1>13, <2>2, <2>3 DEF RelaunchNext
<1>14. CASE WorkerRestarts
  <2>1. Ready \in CommandSet /\ Ready.pc = "idle"
    BY DEF Ready, CommandSet, OpSet
  <2>2. /\ \A i \in Hosted : dhandle'[i] = Absent
        /\ \A c \in DTasks : dcall'[c] = Ready /\ ~Owning(c)'
        /\ dused' = {} /\ dregistry' = dregistry /\ container' = container
    BY <1>14, <2>1 DEF WorkerRestarts, Owning
  <2>3. DockerTyped'
    BY <1>1, <1>14, <2>1, <2>2 DEF WorkerRestarts, DockerTyped
  <2>4. Owners' /\ Routed'
    BY <2>2 DEF Owners, Routed, Launched
  <2> QED BY <2>3, <2>4 DEF DockerInv
<1> QED BY <1>3, <1>4, <1>5, <1>6, <1>7, <1>8, <1>9, <1>10, <1>11, <1>12, <1>13, <1>14, DockerStep, Zenon

(* Whatever docker commands fail, hang or are forgotten by a restart, and  *)
(* for any number of instances and requests: what answers on the port of a *)
(* handle is the container of that instance, and no two launches hold one  *)
(* port.                                                                   *)
THEOREM DockerIsSafe == MCSpec => []DockerHolds
<1>1. DockerInv => DockerHolds
  <2> SUFFICES ASSUME DockerInv PROVE DockerHolds
    OBVIOUS
  <2>1. DockerTypeOK
    BY DEF DockerInv, DockerTyped, DockerTypeOK, ContainerSet
  <2>2. \A c, d \in DTasks : dcall[c].pc = "run" /\ dcall[d].pc = "run" /\ c # d => dcall[c].port # dcall[d].port
    BY DEF DockerInv, Owners, Owning
  <2> QED BY <2>1, <2>2 DEF DockerInv, Owners, Routed, DockerHolds, DockerRoutesOwn
<1> QED BY <1>1, DockerStart, DockerKeeps, PTL DEF MCSpec

-----------------------------------------------------------------------------
(* The Railway pipeline.                                                   *)
LEMMA RailwayStep ==
  ASSUME [MCNext]_allVars
  PROVE  \/ UNCHANGED railwayVars
         \/ \E j \in RJobs, again \in BOOLEAN : DeployOnRailway(j, again)
         \/ \E j \in RJobs : \/ StopOnRailway(j) \/ RestartOnRailway(j) \/ DeleteOnRailway(j)
         \/ \E j \in RJobs : \/ Prepare(j) \/ EnsureService(j) \/ WriteRef(j) \/ EnsureDomain(j)
                             \/ Configure(j) \/ Trigger(j) \/ Poll(j) \/ CheckHealth(j)
                             \/ ProvisionLinks(j) \/ Conclude(j)
         \/ \E j \in RJobs : Called(j) \/ DeleteService(j) \/ MarkDeleted(j)
         \/ \E s \in Services : ServiceMoves(s)
         \/ ConsoleRestarts
BY Zenon DEF MCNext, In, allVars

PipelineAt == {"service", "ref", "domain", "configure", "trigger", "polling", "health",
               "provisioning", "running", "failing"}
RJobSet == [pc : PipelineAt \cup {"idle", "queued", "stopping", "restarting", "deleting", "tombstone"},
            ref : Services \cup {NoService}]
ServiceStates == {"none", "empty", "deploying", "up", "crashed", "stopped"}
InstSet == [status : {"stopped", "deploying", "starting", "running", "failed", "deleted"},
            ref : Services \cup {NoService}, domain : Services \cup {NoService, Path},
            links : BOOLEAN]

RailTyped ==
  /\ service \in [Services -> ServiceStates] /\ inst \in InstSet
  /\ rjob \in [RJobs -> RJobSet] /\ upset \subseteq {"overlap", "api", "restart"}

Active(j) == rjob[j].pc # "idle"

(* The services that exist are those of a reference, one or none.          *)
Only(ref) == \A s \in Services : Exists(s) <=> s = ref

(* What the only operation under way knows of the service: it is the one of*)
(* the row, but between its creation and the note of it, and gone before   *)
(* the tombstone.                                                          *)
Knows(j) ==
  /\ inst.status # "deleted"
  /\ rjob[j].pc \notin {"ref", "tombstone"} => rjob[j].ref = inst.ref /\ Only(inst.ref)
  /\ rjob[j].pc = "ref" => Only(rjob[j].ref)
  /\ rjob[j].pc = "tombstone" => Only(NoService)

OneService ==
  upset = {} =>
    /\ \A j, k \in RJobs : Active(j) /\ Active(k) => j = k
    /\ \A j \in RJobs : Active(j) => Knows(j)
    /\ (\A j \in RJobs : ~Active(j)) => Only(IF inst.status = "deleted" THEN NoService ELSE inst.ref)

(* Somebody will end what is in progress.                                  *)
Progresses ==
  inst.status = "deploying" /\ "restart" \notin upset => \E j \in RJobs : rjob[j].pc \in PipelineAt

RailInv == RailTyped /\ OneService /\ Progresses

LEMMA RailStart == MCInit => RailInv
<1> SUFFICES ASSUME RailwayInit PROVE RailInv
  BY DEF MCInit
<1>1. /\ \A s \in Services : service[s] = "none"
      /\ inst.status = "stopped" /\ inst.ref = NoService
      /\ \A j \in RJobs : rjob[j].pc = "idle"
      /\ upset = {}
  BY DEF RailwayInit, Off
<1>2. inst \in InstSet
  BY DEF RailwayInit, InstSet
<1>3. RailTyped
  BY <1>1, <1>2 DEF RailwayInit, RailTyped, ServiceStates, RJobSet, Off
<1> QED BY <1>1, <1>3, RailwayAssumption DEF RailInv, OneService, Progresses, Active, Only, Exists

LEMMA RailTypes == RailTyped /\ [MCNext]_allVars => RailTyped'
<1> SUFFICES ASSUME RailTyped, [MCNext]_allVars PROVE RailTyped'
  OBVIOUS
<1>0. /\ service \in [Services -> ServiceStates] /\ inst \in InstSet
      /\ rjob \in [RJobs -> RJobSet] /\ upset \subseteq {"overlap", "api", "restart"}
  BY DEF RailTyped
<1>1. ASSUME NEW v \in {"stopped", "deploying", "starting", "running", "failed", "deleted"}
      PROVE  [inst EXCEPT !.status = v] \in InstSet
  BY <1>0, <1>1, Zenon DEF InstSet
<1>2. ASSUME NEW j \in RJobs,
             NEW pc \in PipelineAt \cup {"idle", "queued", "stopping", "restarting", "deleting", "tombstone"}
      PROVE  [rjob EXCEPT ![j].pc = pc] \in [RJobs -> RJobSet]
  <2> DEFINE y == [rjob[j] EXCEPT !.pc = pc]
  <2>1. rjob[j] \in RJobSet
    BY <1>0
  <2>2. y \in RJobSet
    BY <1>2, <2>1, Zenon DEF RJobSet
  <2> HIDE DEF y
  <2>3. [rjob EXCEPT ![j] = y] \in [RJobs -> RJobSet]
    BY <1>0, <2>2
  <2> QED BY <2>3 DEF y
<1>3. Off \in RJobSet
  BY DEF Off, RJobSet
<1>4. ASSUME NEW j \in RJobs, Over(j) PROVE rjob' \in [RJobs -> RJobSet]
  BY <1>0, <1>3, <1>4 DEF Over
<1>5. ASSUME NEW j \in RJobs,
             NEW pc \in PipelineAt \cup {"idle", "queued", "stopping", "restarting", "deleting", "tombstone"},
             GoesTo(j, pc)
      PROVE  rjob' \in [RJobs -> RJobSet]
  BY <1>2, <1>5 DEF GoesTo
<1>6. ASSUME NEW j \in RJobs, Raises(j)
      PROVE  rjob' \in [RJobs -> RJobSet] /\ upset' \subseteq {"overlap", "api", "restart"}
  BY <1>0, <1>2, <1>6 DEF Raises, GoesTo, PipelineAt
<1>7. ASSUME NEW j \in RJobs, NEW pc \in {"queued", "stopping", "restarting", "deleting"}, Start(j, pc)
      PROVE  RailTyped'
  <2> DEFINE y == [pc |-> pc, ref |-> inst.ref]
  <2>1. y \in RJobSet
    BY <1>0 DEF RJobSet, InstSet
  <2>2. rjob' = [rjob EXCEPT ![j] = y]
    BY <1>7 DEF Start
  <2> HIDE DEF y
  <2>3. rjob' \in [RJobs -> RJobSet]
    BY <1>0, <2>1, <2>2
  <2> QED BY <1>0, <1>7, <2>3 DEF Start, RailTyped
<1>8. ASSUME NEW s \in Services, NEW v \in ServiceStates PROVE [service EXCEPT ![s] = v] \in [Services -> ServiceStates]
  BY <1>0
<1>9. CASE UNCHANGED railwayVars
  BY <1>0, <1>9 DEF railwayVars, RailTyped
<1>10. ASSUME NEW j \in RJobs, NEW again \in BOOLEAN, DeployOnRailway(j, again) PROVE RailTyped'
  BY <1>7, <1>10 DEF DeployOnRailway
<1>11. ASSUME NEW j \in RJobs, StopOnRailway(j) \/ RestartOnRailway(j) \/ DeleteOnRailway(j) PROVE RailTyped'
  BY <1>7, <1>11 DEF StopOnRailway, RestartOnRailway, DeleteOnRailway
<1>12. ASSUME NEW j \in RJobs, Prepare(j) PROVE RailTyped'
  BY <1>0, <1>1, <1>5, <1>12 DEF Prepare, Same, PipelineAt, RailTyped
<1>13. ASSUME NEW j \in RJobs, EnsureService(j) PROVE RailTyped'
  <2>1. inst' = inst
    BY <1>13 DEF EnsureService
  <2>2. CASE GoesTo(j, "domain") /\ Same /\ UNCHANGED service
    BY <1>0, <1>5, <2>1, <2>2 DEF Same, PipelineAt, RailTyped
  <2>3. CASE Raises(j) /\ UNCHANGED service
    BY <1>0, <1>6, <2>1, <2>3 DEF RailTyped
  <2>4. ASSUME NEW s \in Services, CreateService(s), Raises(j) PROVE RailTyped'
    BY <1>0, <1>6, <1>8, <2>1, <2>4 DEF CreateService, ServiceStates, RailTyped
  <2>5. ASSUME NEW s \in Services, CreateService(s),
               rjob' = [rjob EXCEPT ![j].pc = "ref", ![j].ref = s], Same
        PROVE  RailTyped'
    <3> DEFINE y == [rjob[j] EXCEPT !.pc = "ref", !.ref = s]
    <3>1. rjob[j] \in RJobSet
      BY <1>0
    <3>2. y \in RJobSet
      <4>1. "ref" \in PipelineAt \cup {"idle", "queued", "stopping", "restarting", "deleting", "tombstone"}
        BY DEF PipelineAt
      <4>2. s \in Services \cup {NoService}
        OBVIOUS
      <4> QED BY <3>1, <4>1, <4>2, Zenon DEF RJobSet
    <3>3. rjob' = [rjob EXCEPT ![j] = y]
      BY <1>0, <2>5
    <3> HIDE DEF y
    <3>4. rjob' \in [RJobs -> RJobSet]
      BY <1>0, <3>2, <3>3
    <3>5. service' \in [Services -> ServiceStates]
      BY <1>8, <2>5 DEF CreateService, ServiceStates
    <3> QED BY <1>0, <2>1, <2>5, <3>4, <3>5 DEF Same, RailTyped
  <2> QED BY <1>13, <2>2, <2>3, <2>4, <2>5 DEF EnsureService
<1>14. ASSUME NEW j \in RJobs, WriteRef(j) PROVE RailTyped'
  <2>1. rjob[j].ref \in Services \cup {NoService}
    BY <1>0 DEF RJobSet
  <2>2. [inst EXCEPT !.ref = rjob[j].ref] \in InstSet
    BY <1>0, <2>1, Zenon DEF InstSet
  <2> QED BY <1>0, <1>5, <1>14, <2>2 DEF WriteRef, Same, PipelineAt, RailTyped
<1>15. ASSUME NEW j \in RJobs, EnsureDomain(j) PROVE RailTyped'
  <2>1. rjob[j].ref \in Services \cup {NoService, Path}
    BY <1>0 DEF RJobSet
  <2>2. [inst EXCEPT !.domain = rjob[j].ref] \in InstSet
    BY <1>0, <2>1, Zenon DEF InstSet
  <2> QED BY <1>0, <1>5, <1>6, <1>15, <2>2 DEF EnsureDomain, CreateDomain, Same, PipelineAt, RailTyped
<1>16. ASSUME NEW j \in RJobs, Configure(j) PROVE RailTyped'
  BY <1>0, <1>1, <1>5, <1>6, <1>16 DEF Configure, ConfigureService, Same, PipelineAt, RailTyped
<1>17. ASSUME NEW j \in RJobs, Trigger(j) PROVE RailTyped'
  <2>1. service' \in [Services -> ServiceStates]
    BY <1>0, <1>17 DEF Trigger, TriggerDeploy, Exists, ServiceStates
  <2>2. inst' \in InstSet
    BY <1>1, <1>17 DEF Trigger
  <2>3. Raises(j) \/ (GoesTo(j, "polling") /\ Same)
    BY <1>17, Zenon DEF Trigger
  <2> QED BY <1>0, <1>5, <1>6, <2>1, <2>2, <2>3 DEF Same, PipelineAt, RailTyped
<1>18. ASSUME NEW j \in RJobs, Poll(j) PROVE RailTyped'
  BY <1>0, <1>5, <1>6, <1>18 DEF Poll, Same, PipelineAt, RailTyped
<1>19. ASSUME NEW j \in RJobs, CheckHealth(j) PROVE RailTyped'
  <2>1. rjob' \in [RJobs -> RJobSet]
    BY <1>5, <1>19 DEF CheckHealth, PipelineAt
  <2> QED BY <1>0, <1>1, <1>19, <2>1 DEF CheckHealth, Same, RailTyped
<1>20. ASSUME NEW j \in RJobs, ProvisionLinks(j) PROVE RailTyped'
  <2>1. rjob' \in [RJobs -> RJobSet]
    BY <1>5, <1>20 DEF ProvisionLinks, PipelineAt
  <2> QED BY <1>0, <1>20, <2>1 DEF ProvisionLinks, Same, RailTyped
<1>21. ASSUME NEW j \in RJobs, Conclude(j) PROVE RailTyped'
  BY <1>0, <1>1, <1>4, <1>21 DEF Conclude, Same, RailTyped
<1>22. ASSUME NEW j \in RJobs, Called(j) PROVE RailTyped'
  <2>1. rjob' \in [RJobs -> RJobSet]
    BY <1>4, <1>22 DEF Called
  <2>2. service' \in [Services -> ServiceStates]
    BY <1>0, <1>22 DEF Called, StopService, RestartService, Exists, ServiceStates
  <2>3. inst' \in InstSet
    BY <1>0, <1>1, <1>22 DEF Called
  <2>4. upset' \subseteq {"overlap", "api", "restart"}
    BY <1>0, <1>22 DEF Called, Same
  <2> QED BY <2>1, <2>2, <2>3, <2>4 DEF RailTyped
<1>23. ASSUME NEW j \in RJobs, DeleteService(j) PROVE RailTyped'
  <2>1. service' \in [Services -> ServiceStates]
    BY <1>0, <1>23 DEF DeleteService, RemoveService, Exists, ServiceStates
  <2>2. rjob' \in [RJobs -> RJobSet]
    BY <1>4, <1>5, <1>23 DEF DeleteService
  <2> QED BY <1>0, <1>23, <2>1, <2>2 DEF DeleteService, Same, RailTyped
<1>24. ASSUME NEW j \in RJobs, MarkDeleted(j) PROVE RailTyped'
  BY <1>0, <1>1, <1>4, <1>24 DEF MarkDeleted, Same, RailTyped
<1>25. ASSUME NEW s \in Services, ServiceMoves(s) PROVE RailTyped'
  BY <1>0, <1>8, <1>25 DEF ServiceMoves, ServiceStates, RailTyped
<1>26. CASE ConsoleRestarts
  BY <1>0, <1>3, <1>26 DEF ConsoleRestarts, RailTyped
<1> QED BY <1>9, <1>10, <1>11, <1>12, <1>13, <1>14, <1>15, <1>16, <1>17, <1>18, <1>19, <1>20,
           <1>21, <1>22, <1>23, <1>24, <1>25, <1>26, RailwayStep, Zenon

(* The only operation moves on, or ends.                                   *)
LEMMA MovesOn ==
  ASSUME OneService, NEW j \in RJobs, Active(j), upset \subseteq upset',
         \A k \in RJobs : k # j => rjob'[k] = rjob[k],
         upset' = {} /\ Knows(j) =>
           /\ Active(j)' => Knows(j)'
           /\ ~Active(j)' => Only(IF inst.status = "deleted" THEN NoService ELSE inst.ref)'
  PROVE  OneService'
<1> SUFFICES ASSUME upset' = {}
             PROVE  /\ \A i, k \in RJobs : Active(i)' /\ Active(k)' => i = k
                    /\ \A k \in RJobs : Active(k)' => Knows(k)'
                    /\ (\A k \in RJobs : ~Active(k)') =>
                         Only(IF inst.status = "deleted" THEN NoService ELSE inst.ref)'
  BY DEF OneService
<1>1. upset = {}
  OBVIOUS
<1>2. Knows(j) /\ \A k \in RJobs : k # j => ~Active(k)
  BY <1>1 DEF OneService
<1>3. \A k \in RJobs : k # j => ~Active(k)'
  BY <1>2 DEF Active
<1> QED BY <1>2, <1>3

(* Where the services stay, the row keeps its reference and the job its own.*)
Stays(j) ==
  /\ \A s \in Services : Exists(s)' <=> Exists(s)
  /\ inst'.ref = inst.ref /\ rjob'[j].ref = rjob[j].ref

LEMMA KnowsOn ==
  ASSUME NEW j \in RJobs, Knows(j), Stays(j), inst'.status # "deleted",
         rjob[j].pc \notin {"ref", "tombstone"}, rjob'[j].pc \notin {"ref", "tombstone"}
  PROVE  Knows(j)'
BY DEF Knows, Stays, Only

LEMMA GoesOn ==
  ASSUME RailTyped, NEW j \in RJobs, NEW pc, GoesTo(j, pc)
  PROVE  /\ rjob'[j].pc = pc /\ rjob'[j].ref = rjob[j].ref
         /\ \A k \in RJobs : k # j => rjob'[k] = rjob[k]
<1>1. rjob \in [RJobs -> RJobSet] /\ rjob[j] \in RJobSet
  BY DEF RailTyped
<1>2. /\ [rjob[j] EXCEPT !.pc = pc].pc = pc
      /\ [rjob[j] EXCEPT !.pc = pc].ref = rjob[j].ref
  BY <1>1 DEF RJobSet
<1> QED BY <1>1, <1>2 DEF GoesTo

LEMMA OverHere ==
  ASSUME RailTyped, NEW j \in RJobs, Over(j)
  PROVE  ~Active(j)' /\ \A k \in RJobs : k # j => rjob'[k] = rjob[k]
BY DEF RailTyped, Over, Off, Active

LEMMA StatusOnly ==
  ASSUME RailTyped, NEW v, inst' = [inst EXCEPT !.status = v]
  PROVE  inst'.status = v /\ inst'.ref = inst.ref
BY DEF RailTyped, InstSet

(* A request starts on an instance that is not deleted.                    *)
LEMMA Starts ==
  ASSUME RailTyped, OneService, NEW j \in RJobs,
         NEW pc \in {"queued", "stopping", "restarting", "deleting"}, Start(j, pc)
  PROVE  OneService'
<1>1. /\ rjob'[j] = [pc |-> pc, ref |-> inst.ref] /\ service' = service /\ inst' = inst
      /\ \A k \in RJobs : k # j => rjob'[k] = rjob[k]
      /\ inst.status # "deleted" /\ ~Active(j)
  BY DEF Start, RailTyped, Stage, Active
<1>2. CASE AllOff
  <2>1. \A k \in RJobs : ~Active(k)
    BY <1>2 DEF AllOff, Active
  <2>2. ASSUME upset = {} PROVE Knows(j)'
    <3>1. Only(inst.ref)
      BY <1>1, <2>1, <2>2 DEF OneService
    <3> QED BY <1>1, <3>1 DEF Knows, Only, Exists
  <2>3. upset' = upset /\ Active(j)' /\ \A k \in RJobs : k # j => ~Active(k)'
    BY <1>1, <1>2, <2>1 DEF Start, Active
  <2> QED BY <2>2, <2>3 DEF OneService
<1>3. CASE ~AllOff
  BY <1>3 DEF Start, OneService
<1> QED BY <1>2, <1>3

LEMMA OneServiceStep == RailTyped /\ OneService /\ [MCNext]_allVars => OneService'
<1> SUFFICES ASSUME RailTyped, OneService, [MCNext]_allVars PROVE OneService'
  OBVIOUS
<1>9. CASE UNCHANGED railwayVars
  BY <1>9 DEF railwayVars, OneService, Active, Knows, Only, Exists
<1>10. ASSUME NEW j \in RJobs, NEW again \in BOOLEAN, DeployOnRailway(j, again) PROVE OneService'
  BY <1>10, Starts DEF DeployOnRailway
<1>11. ASSUME NEW j \in RJobs, StopOnRailway(j) \/ RestartOnRailway(j) \/ DeleteOnRailway(j) PROVE OneService'
  BY <1>11, Starts DEF StopOnRailway, RestartOnRailway, DeleteOnRailway
(* The steps of a job that leave what exists and the reference.            *)
<1>1. ASSUME NEW j \in RJobs, rjob[j].pc \notin {"idle", "ref", "tombstone"},
             NEW pc \in PipelineAt \ {"ref"}, GoesTo(j, pc), upset \subseteq upset',
             \A s \in Services : Exists(s)' <=> Exists(s),
             inst'.ref = inst.ref, inst'.status \in {inst.status, "deploying"}
      PROVE  OneService'
  <2>1. /\ rjob'[j].pc = pc /\ rjob'[j].ref = rjob[j].ref
        /\ \A k \in RJobs : k # j => rjob'[k] = rjob[k]
    BY <1>1, GoesOn
  <2>2. Active(j) /\ Active(j)' /\ rjob'[j].pc \notin {"ref", "tombstone"}
    BY <1>1, <2>1 DEF Active, PipelineAt
  <2>3. Knows(j) => Knows(j)'
    <3>1. Knows(j) => inst'.status # "deleted"
      BY <1>1 DEF Knows
    <3> QED BY <1>1, <2>1, <2>2, <3>1, KnowsOn DEF Stays
  <2> QED BY <1>1, <2>1, <2>2, <2>3, MovesOn
(* A call that raises leaves nothing to show.                              *)
<1>2. ASSUME NEW j \in RJobs, Raises(j) PROVE OneService'
  BY <1>2 DEF Raises, OneService
<1>12. ASSUME NEW j \in RJobs, Prepare(j) PROVE OneService'
  BY <1>1, <1>12, StatusOnly DEF Prepare, Stage, Same, Exists, PipelineAt
<1>13. ASSUME NEW j \in RJobs, EnsureService(j) PROVE OneService'
  <2>0. inst' = inst /\ rjob[j].pc = "service" /\ Active(j)
    BY <1>13 DEF EnsureService, Stage, Active
  <2>2. CASE GoesTo(j, "domain") /\ Same /\ UNCHANGED service
    BY <1>1, <2>0, <2>2 DEF Same, Exists, PipelineAt
  <2>5. ASSUME NEW s \in Services, CreateService(s), rjob[j].ref = NoService,
               rjob' = [rjob EXCEPT ![j].pc = "ref", ![j].ref = s], Same
        PROVE  OneService'
    <3>1. /\ rjob'[j].pc = "ref" /\ rjob'[j].ref = s
          /\ \A k \in RJobs : k # j => rjob'[k] = rjob[k]
      <4>1. rjob \in [RJobs -> RJobSet] /\ rjob[j] \in RJobSet
        BY DEF RailTyped
      <4>2. /\ [rjob[j] EXCEPT !.pc = "ref", !.ref = s].pc = "ref"
            /\ [rjob[j] EXCEPT !.pc = "ref", !.ref = s].ref = s
        BY <4>1 DEF RJobSet
      <4> QED BY <2>5, <4>1, <4>2
    <3>2. \A t \in Services : Exists(t)' <=> Exists(t) \/ t = s
      BY <2>5 DEF CreateService, Exists, RailTyped
    <3>3. Knows(j) => \A t \in Services : ~Exists(t)
      BY <2>0, <2>5, RailwayAssumption DEF Knows, Only
    <3>4. Knows(j) => Knows(j)'
      BY <2>0, <3>1, <3>2, <3>3 DEF Knows, Only
    <3>5. Active(j)'
      BY <3>1 DEF Active
    <3> QED BY <2>0, <2>5, <3>1, <3>4, <3>5, MovesOn DEF Same
  <2> QED BY <1>2, <1>13, <2>2, <2>5 DEF EnsureService
<1>14. ASSUME NEW j \in RJobs, WriteRef(j) PROVE OneService'
  <2>1. /\ rjob'[j].pc = "domain" /\ rjob'[j].ref = rjob[j].ref
        /\ \A k \in RJobs : k # j => rjob'[k] = rjob[k]
    BY <1>14, GoesOn DEF WriteRef
  <2>2. /\ rjob[j].pc = "ref" /\ Active(j) /\ Active(j)' /\ upset' = upset
        /\ \A s \in Services : Exists(s)' <=> Exists(s)
    BY <1>14, <2>1 DEF WriteRef, Stage, Active, Same, Exists
  <2>3. inst'.ref = rjob[j].ref /\ inst'.status = inst.status
    BY <1>14 DEF WriteRef, RailTyped, InstSet
  <2>4. Knows(j) => Knows(j)'
    BY <2>1, <2>2, <2>3 DEF Knows, Only
  <2> QED BY <2>1, <2>2, <2>4, MovesOn
<1>15. ASSUME NEW j \in RJobs, EnsureDomain(j) PROVE OneService'
  <2>1. inst'.ref = inst.ref /\ inst'.status = inst.status
    BY <1>15 DEF EnsureDomain, CreateDomain, RailTyped, InstSet
  <2> QED BY <1>1, <1>2, <1>15, <2>1 DEF EnsureDomain, Stage, Same, Exists, PipelineAt
<1>16. ASSUME NEW j \in RJobs, Configure(j) PROVE OneService'
  <2>1. inst'.ref = inst.ref /\ inst'.status = "deploying"
    BY <1>16, StatusOnly DEF Configure
  <2> QED BY <1>1, <1>2, <1>16, <2>1 DEF Configure, ConfigureService, Stage, Same, Exists, PipelineAt
<1>17. ASSUME NEW j \in RJobs, Trigger(j) PROVE OneService'
  <2>1. inst'.ref = inst.ref /\ inst'.status = "deploying"
    BY <1>17, StatusOnly DEF Trigger
  <2>2. CASE TriggerDeploy(rjob[j].ref) /\ GoesTo(j, "polling") /\ Same
    <3>1. \A s \in Services : Exists(s)' <=> Exists(s)
      BY <2>2 DEF TriggerDeploy, Exists, RailTyped
    <3> QED BY <1>1, <1>17, <2>1, <2>2, <3>1 DEF Trigger, Stage, Same, PipelineAt
  <2> QED BY <1>2, <1>17, <2>2 DEF Trigger
<1>18. ASSUME NEW j \in RJobs, Poll(j) PROVE OneService'
  BY <1>1, <1>2, <1>18 DEF Poll, Stage, Same, Exists, PipelineAt
<1>19. ASSUME NEW j \in RJobs, CheckHealth(j) PROVE OneService'
  <2>1. inst'.ref = inst.ref /\ inst'.status = "deploying"
    BY <1>19, StatusOnly DEF CheckHealth
  <2>2. GoesTo(j, "provisioning") \/ GoesTo(j, "failing")
    BY <1>19 DEF CheckHealth
  <2> QED BY <1>1, <1>19, <2>1, <2>2 DEF CheckHealth, Stage, Same, Exists, PipelineAt
<1>20. ASSUME NEW j \in RJobs, ProvisionLinks(j) PROVE OneService'
  <2>1. GoesTo(j, "running") \/ GoesTo(j, "failing")
    BY <1>20 DEF ProvisionLinks
  <2> QED BY <1>1, <1>20, <2>1 DEF ProvisionLinks, Stage, Same, Exists, PipelineAt
<1>21. ASSUME NEW j \in RJobs, Conclude(j) PROVE OneService'
  <2>1. inst'.ref = inst.ref /\ inst'.status \in {"running", "failed"} /\ Active(j)
    BY <1>21, StatusOnly DEF Conclude, Active
  <2>2. ~Active(j)' /\ \A k \in RJobs : k # j => rjob'[k] = rjob[k]
    BY <1>21, OverHere DEF Conclude
  <2>3. upset' = upset /\ \A s \in Services : Exists(s)' <=> Exists(s)
    BY <1>21 DEF Conclude, Same, Exists
  <2>4. Knows(j) => Only(IF inst.status = "deleted" THEN NoService ELSE inst.ref)'
    BY <1>21, <2>1, <2>3 DEF Conclude, Knows, Only
  <2> QED BY <2>1, <2>2, <2>3, <2>4, MovesOn
<1>22. ASSUME NEW j \in RJobs, Called(j) PROVE OneService'
  <2>1. Active(j) /\ rjob[j].pc \in {"stopping", "restarting"}
    BY <1>22 DEF Called, Active
  <2>2. ~Active(j)' /\ \A k \in RJobs : k # j => rjob'[k] = rjob[k]
    BY <1>22, OverHere DEF Called
  <2>3. CASE upset' = upset \cup {"api"}
    BY <2>3 DEF OneService
  <2>4. CASE /\ IF rjob[j].pc = "stopping" THEN StopService(rjob[j].ref) ELSE RestartService(rjob[j].ref)
             /\ inst' = [inst EXCEPT !.status = IF rjob[j].pc = "stopping" THEN "stopped" ELSE "starting"]
             /\ Same
    <3>1. inst'.ref = inst.ref /\ inst'.status # "deleted" /\ upset' = upset
      BY <2>4, StatusOnly DEF Same
    <3>2. \A s \in Services : Exists(s)' <=> Exists(s)
      BY <2>1, <2>4 DEF StopService, RestartService, Exists, RailTyped
    <3>3. Knows(j) => Only(IF inst.status = "deleted" THEN NoService ELSE inst.ref)'
      BY <2>1, <3>1, <3>2 DEF Knows, Only
    <3> QED BY <2>1, <2>2, <3>1, <3>3, MovesOn
  <2> QED BY <1>22, <2>3, <2>4 DEF Called
<1>23. ASSUME NEW j \in RJobs, DeleteService(j) PROVE OneService'
  <2>3. CASE upset' = upset \cup {"api"}
    BY <2>3 DEF OneService
  <2>4. CASE RemoveService(rjob[j].ref) /\ GoesTo(j, "tombstone") /\ Same
    <3>3. /\ rjob'[j].pc = "tombstone" /\ rjob'[j].ref = rjob[j].ref
          /\ \A k \in RJobs : k # j => rjob'[k] = rjob[k]
      BY <2>4, GoesOn
    <3>4. rjob[j].pc = "deleting" /\ Active(j) /\ Active(j)' /\ inst' = inst
      BY <1>23, <3>3 DEF DeleteService, Stage, Active
    <3>1. \A s \in Services : Exists(s)' <=> Exists(s) /\ s # rjob[j].ref
      BY <2>4 DEF RemoveService, Exists, RailTyped
    <3>2. Knows(j) => Knows(j)'
      BY <3>3, <3>4, <3>1, RailwayAssumption DEF Knows, Only
    <3> QED BY <3>3, <3>4, <2>4, <3>2, MovesOn DEF Same
  <2> QED BY <1>23, <2>3, <2>4 DEF DeleteService
<1>24. ASSUME NEW j \in RJobs, MarkDeleted(j) PROVE OneService'
  <2>1. inst'.status = "deleted" /\ rjob[j].pc = "tombstone" /\ Active(j) /\ upset' = upset
    BY <1>24, StatusOnly DEF MarkDeleted, Stage, Active, Same
  <2>2. ~Active(j)' /\ \A k \in RJobs : k # j => rjob'[k] = rjob[k]
    BY <1>24, OverHere DEF MarkDeleted
  <2>3. Knows(j) => Only(IF inst.status = "deleted" THEN NoService ELSE inst.ref)'
    BY <1>24, <2>1 DEF MarkDeleted, Knows, Only, Exists
  <2> QED BY <2>1, <2>2, <2>3, MovesOn
<1>25. ASSUME NEW s \in Services, ServiceMoves(s) PROVE OneService'
  <2>1. \A t \in Services : Exists(t)' <=> Exists(t)
    BY <1>25 DEF ServiceMoves, Exists, RailTyped
  <2> QED BY <1>25, <2>1 DEF ServiceMoves, OneService, Active, Knows, Only
<1>26. CASE ConsoleRestarts
  BY <1>26 DEF ConsoleRestarts, OneService
<1> QED BY <1>9, <1>10, <1>11, <1>12, <1>13, <1>14, <1>15, <1>16, <1>17, <1>18, <1>19, <1>20,
           <1>21, <1>22, <1>23, <1>24, <1>25, <1>26, RailwayStep, Zenon

(* In progress is an instance whose pipeline is under way.                 *)
LEMMA ProgressStep == RailTyped /\ Progresses /\ [MCNext]_allVars => Progresses'
<1> SUFFICES ASSUME RailTyped, Progresses, inst'.status = "deploying", "restart" \notin upset',
                    [MCNext]_allVars
             PROVE  \E j \in RJobs : rjob'[j].pc \in PipelineAt
  BY DEF Progresses
<1>1. ASSUME NEW j \in RJobs, NEW pc \in PipelineAt, GoesTo(j, pc)
      PROVE  \E k \in RJobs : rjob'[k].pc \in PipelineAt
  BY <1>1, GoesOn
<1>2. ASSUME NEW j \in RJobs, Raises(j) PROVE \E k \in RJobs : rjob'[k].pc \in PipelineAt
  BY <1>1, <1>2 DEF Raises, PipelineAt
(* A step of something that is not a pipeline leaves the pipelines.        *)
<1>3. ASSUME NEW j \in RJobs, rjob[j].pc \notin PipelineAt, \A k \in RJobs : k # j => rjob'[k] = rjob[k],
             inst.status = "deploying", upset \subseteq upset'
      PROVE  \E k \in RJobs : rjob'[k].pc \in PipelineAt
  BY <1>3 DEF Progresses
<1>9. CASE UNCHANGED railwayVars
  BY <1>9 DEF railwayVars, Progresses
<1>10. ASSUME NEW j \in RJobs, NEW pc, Start(j, pc) PROVE \E k \in RJobs : rjob'[k].pc \in PipelineAt
  <2>1. rjob[j].pc \notin PipelineAt /\ inst' = inst /\ upset \subseteq upset'
    BY <1>10 DEF Start, Stage, PipelineAt
  <2>2. \A k \in RJobs : k # j => rjob'[k] = rjob[k]
    BY <1>10 DEF Start, RailTyped
  <2> QED BY <1>3, <2>1, <2>2
<1>11. ASSUME NEW j \in RJobs, NEW again \in BOOLEAN,
              \/ DeployOnRailway(j, again) \/ StopOnRailway(j) \/ RestartOnRailway(j) \/ DeleteOnRailway(j)
       PROVE  \E k \in RJobs : rjob'[k].pc \in PipelineAt
  BY <1>10, <1>11 DEF DeployOnRailway, StopOnRailway, RestartOnRailway, DeleteOnRailway
<1>12. ASSUME NEW j \in RJobs,
              \/ Prepare(j) \/ EnsureService(j) \/ WriteRef(j) \/ EnsureDomain(j) \/ Configure(j)
              \/ Trigger(j) \/ Poll(j) \/ CheckHealth(j) \/ ProvisionLinks(j)
       PROVE  \E k \in RJobs : rjob'[k].pc \in PipelineAt
  <2>1. \/ \E pc \in PipelineAt : GoesTo(j, pc)
        \/ Raises(j)
        \/ \E s \in Services : rjob' = [rjob EXCEPT ![j].pc = "ref", ![j].ref = s]
    BY <1>12 DEF Prepare, EnsureService, WriteRef, EnsureDomain, Configure, Trigger, Poll,
                 CheckHealth, ProvisionLinks, PipelineAt
  <2>2. ASSUME NEW s \in Services, rjob' = [rjob EXCEPT ![j].pc = "ref", ![j].ref = s]
        PROVE  rjob'[j].pc \in PipelineAt
    <3>1. rjob \in [RJobs -> RJobSet] /\ rjob[j] \in RJobSet
      BY DEF RailTyped
    <3>2. [rjob[j] EXCEPT !.pc = "ref", !.ref = s].pc = "ref"
      BY <3>1 DEF RJobSet
    <3> QED BY <2>2, <3>1, <3>2 DEF PipelineAt
  <2> QED BY <1>1, <1>2, <2>1, <2>2
<1>21. ASSUME NEW j \in RJobs, Conclude(j) \/ MarkDeleted(j) PROVE FALSE
  BY <1>21, StatusOnly DEF Conclude, MarkDeleted
<1>22. ASSUME NEW j \in RJobs, Called(j) PROVE \E k \in RJobs : rjob'[k].pc \in PipelineAt
  <2>1. rjob[j].pc \notin PipelineAt /\ \A k \in RJobs : k # j => rjob'[k] = rjob[k]
    BY <1>22, OverHere DEF Called, PipelineAt
  <2>2. CASE inst' = [inst EXCEPT !.status = IF rjob[j].pc = "stopping" THEN "stopped" ELSE "starting"]
    BY <2>2, StatusOnly
  <2>3. CASE upset' = upset \cup {"api"} /\ UNCHANGED inst
    BY <1>3, <2>1, <2>3
  <2> QED BY <1>22, <2>2, <2>3 DEF Called
<1>23. ASSUME NEW j \in RJobs, DeleteService(j) PROVE \E k \in RJobs : rjob'[k].pc \in PipelineAt
  <2>1. rjob[j].pc \notin PipelineAt /\ \A k \in RJobs : k # j => rjob'[k] = rjob[k]
    BY <1>23, GoesOn, OverHere DEF DeleteService, Stage, PipelineAt
  <2> QED BY <1>3, <1>23, <2>1 DEF DeleteService, Same
<1>25. ASSUME NEW s \in Services, ServiceMoves(s) PROVE \E k \in RJobs : rjob'[k].pc \in PipelineAt
  BY <1>25 DEF ServiceMoves, Progresses
<1>26. CASE ConsoleRestarts
  BY <1>26 DEF ConsoleRestarts
<1> QED BY <1>9, <1>11, <1>12, <1>21, <1>22, <1>23, <1>25, <1>26, RailwayStep, Zenon

LEMMA RailKeeps == RailInv /\ [MCNext]_allVars => RailInv'
BY RailTypes, OneServiceStep, ProgressStep DEF RailInv

(* For any number of requests and services: between operations that did not*)
(* overlap, with no call that failed and no restart, Railway has exactly   *)
(* the service the row names, and none after a delete; and an instance is  *)
(* in progress only while its pipeline runs.                               *)
THEOREM RailwayIsTidy == MCSpec => []RailwayHolds
<1>1. RailInv => RailwayHolds
  <2> SUFFICES ASSUME RailInv PROVE RailwayHolds
    OBVIOUS
  <2>1. ASSUME AllOff PROVE /\ \A j \in RJobs : ~Active(j)
                            /\ \A j \in RJobs : rjob[j].pc \notin PipelineAt
    BY <2>1 DEF AllOff, Active, PipelineAt
  <2>2. ASSUME AllOff, upset = {}
        PROVE  {s \in Services : Exists(s)} = IF inst.status = "deleted" THEN {} ELSE {inst.ref} \ {NoService}
    <3>1. Only(IF inst.status = "deleted" THEN NoService ELSE inst.ref)
      BY <2>1, <2>2 DEF RailInv, OneService
    <3>2. inst.ref \in Services \cup {NoService}
      BY DEF RailInv, RailTyped, InstSet
    <3> QED BY <3>1, <3>2, RailwayAssumption DEF Only
  <2>3. AllOff /\ inst.status = "deploying" => "restart" \in upset
    BY <2>1 DEF RailInv, Progresses
  <2> QED BY <2>2, <2>3 DEF RailwayHolds
<1> QED BY <1>1, RailStart, RailKeeps, PTL DEF MCSpec

-----------------------------------------------------------------------------
(***************************************************************************)
(* Deployment: the life cycle of the one instance Inst in the Console, over*)
(* the worker it calls, where Inst is the only instance: the theorems below*)
(* say Instances = {Inst}.                                                 *)
(***************************************************************************)
(* A step of the composition is a step of the worker, or leaves it as it is*)
LEMMA DeploymentSteps ==
  ASSUME Instances = {Inst}, [DeploymentNext]_deploymentVars
  PROVE  [Next]_vars
<1>1. Calls \subseteq Tasks /\ Inst \in Instances /\ Tasks = Calls \cup {Boot}
  BY DEF Tasks
<1>2. ASSUME NEW j \in Calls, UserRequest(j) \/ JobStep(j)
      PROVE  [Next]_vars
  <2>1. \/ Launch(j, Inst) \/ Stop(j, Inst) \/ Remove(j, Inst) \/ Done(j)
        \/ UNCHANGED vars
    BY Zenon, <1>2 DEF UserRequest, JobStep, Deploy, Redeploy, StopInstance, Delete, Refused,
       Queue, Preparing, PickNode, Starting, LaunchCore, CoreLaunched, CallFails,
       CallLost, Unheard, Probe, Provision, Finish, FinishAgain, InstanceStopped,
       Removed, Tombstone
  <2> QED
    BY Zenon, <1>1, <2>1 DEF Next, Request
<1>3. CASE Worker
  BY Zenon, <1>1, <1>3 DEF Worker, Next
<1>4. CASE ConsoleRestart
  BY Zenon, <1>4 DEF ConsoleRestart, Next
<1>5. CASE UNCHANGED deploymentVars
  BY <1>5 DEF deploymentVars
<1> QED
  BY <1>2, <1>3, <1>4, <1>5 DEF DeploymentNext

(* Of an instance in progress some pipeline is still to write the outcome, *)
(* unless the Console was restarted.                                       *)
PipelineStages == {"preparing", "building", "starting", "launching", "probing",
                   "provisioning", "running", "failing"}

Progressing ==
  status = "deploying" /\ "restart" \notin disturbed =>
    \E j \in Calls : job[j] \in PipelineStages

DTypes ==
  /\ status \in {"stopped", "deploying", "running", "failed", "deleted"}
  /\ job \in [Calls -> PipelineStages \cup {"idle", "asked", "queued", "running2", "failing2",
                                            "stopping", "removing", "deleting"}]
  /\ latest \in [job : Calls \cup {None}, node : BOOLEAN]
  /\ disturbed \subseteq {"overlap", "lost", "restart"}

(* What a step of job j does: it goes on to one of a few stages, and the   *)
(* others stay where they are.                                             *)
LEMMA DGoes ==
  ASSUME DTypes, NEW j \in Calls, NEW pc, Goto(j, pc)
  PROVE  job'[j] = pc /\ \A k \in Calls \ {j} : job'[k] = job[k]
BY DEF Goto, DTypes

LEMMA DTypesKept == DTypes /\ [DeploymentNext]_deploymentVars => DTypes'
<1> SUFFICES ASSUME DTypes, [DeploymentNext]_deploymentVars PROVE DTypes'
  OBVIOUS
<1> DEFINE Stages == PipelineStages \cup {"idle", "asked", "queued", "running2", "failing2",
                                          "stopping", "removing", "deleting"}
<1>1. ASSUME NEW j \in Calls, NEW pc \in Stages, Goto(j, pc)
      PROVE  job' \in [Calls -> Stages]
  BY <1>1 DEF Goto, DTypes
<1>2. CASE Worker
  BY <1>2 DEF Worker, DTypes
<1>3. CASE ConsoleRestart
  <2>1. job' \in [Calls -> Stages]
    BY <1>3 DEF ConsoleRestart
  <2> QED
    BY <1>3, <2>1 DEF ConsoleRestart, DTypes
<1>4. CASE UNCHANGED deploymentVars
  BY <1>4 DEF deploymentVars, DTypes
<1>5. ASSUME NEW j \in Calls, UserRequest(j) PROVE DTypes'
  <2>1. disturbed' \subseteq {"overlap", "lost", "restart"}
    BY <1>5 DEF UserRequest, Deploy, Redeploy, StopInstance, Delete, Begin, DTypes
  <2>2. job' \in [Calls -> Stages]
    <3>1. \E pc \in {"asked", "stopping", "removing", "deleting"} : Goto(j, pc)
      BY <1>5 DEF UserRequest, Deploy, Redeploy, StopInstance, Delete
    <3> QED
      BY <1>1, <3>1
  <2>3. UNCHANGED <<status, latest>>
    BY <1>5 DEF UserRequest, Deploy, Redeploy, StopInstance, Delete
  <2> QED
    BY <2>1, <2>2, <2>3 DEF DTypes
<1>6. ASSUME NEW j \in Calls, JobStep(j) PROVE DTypes'
  <2>1. disturbed' \subseteq {"overlap", "lost", "restart"}
    BY <1>6
    DEF DTypes, JobStep, Refused, Queue, Preparing, PickNode, Starting, LaunchCore,
        CoreLaunched, CallFails, CallLost, Unheard, Probe, Provision, Finish,
        FinishAgain, InstanceStopped, Removed, Tombstone
  <2>2. job' \in [Calls -> Stages]
    <3>1. job' = job \/ \E pc \in Stages : Goto(j, pc)
      BY <1>6
      DEF PipelineStages, JobStep, Refused, Queue, Preparing, PickNode, Starting,
          LaunchCore, CoreLaunched, CallFails, CallLost, Unheard, Probe, Provision,
          Finish, FinishAgain, InstanceStopped, Removed, Tombstone
    <3> QED
      BY <1>1, <3>1 DEF DTypes
  <2>3. status' \in {"stopped", "deploying", "running", "failed", "deleted"}
    BY <1>6
    DEF DTypes, JobStep, Refused, Queue, Preparing, PickNode, Starting, LaunchCore,
        CoreLaunched, CallFails, CallLost, Unheard, Probe, Provision, Finish,
        FinishAgain, InstanceStopped, Removed, Tombstone
  <2>4. latest' \in [job : Calls \cup {None}, node : BOOLEAN]
    <3>1. \/ latest' = latest \/ latest' = [job |-> j, node |-> FALSE]
          \/ latest' = [latest EXCEPT !.node = TRUE]
      BY <1>6
      DEF JobStep, Refused, Queue, Preparing, PickNode, Starting, LaunchCore,
          CoreLaunched, CallFails, CallLost, Unheard, Probe, Provision, Finish,
          FinishAgain, InstanceStopped, Removed, Tombstone
    <3>2. latest \in [job : Calls \cup {None}, node : BOOLEAN]
      BY DEF DTypes
    <3>3. [latest EXCEPT !.node = TRUE] \in [job : Calls \cup {None}, node : BOOLEAN]
      BY <3>2
    <3>4. [job |-> j, node |-> FALSE] \in [job : Calls \cup {None}, node : BOOLEAN]
      OBVIOUS
    <3> QED
      BY <3>1, <3>2, <3>3, <3>4
  <2> QED
    BY <2>1, <2>2, <2>3, <2>4 DEF DTypes
<1> QED
  BY <1>2, <1>3, <1>4, <1>5, <1>6 DEF DeploymentNext

LEMMA ProgressingKept == DTypes /\ Progressing /\ [DeploymentNext]_deploymentVars => Progressing'
<1> SUFFICES ASSUME DTypes, Progressing, [DeploymentNext]_deploymentVars,
                    status' = "deploying", "restart" \notin disturbed'
             PROVE  \E j \in Calls : job'[j] \in PipelineStages
  BY DEF Progressing
<1>1. CASE UNCHANGED <<status, job>> /\ disturbed \subseteq disturbed'
  BY <1>1 DEF Progressing
<1>2. CASE Worker \/ UNCHANGED deploymentVars
  BY <1>1, <1>2 DEF Worker, deploymentVars
<1>3. CASE ConsoleRestart
  BY <1>3 DEF ConsoleRestart
<1>4. ASSUME NEW j \in Calls, NEW pc, Goto(j, pc), status' = status,
             disturbed \subseteq disturbed', pc \in PipelineStages \/ job[j] \notin PipelineStages
      PROVE  \E k \in Calls : job'[k] \in PipelineStages
  <2>1. PICK k \in Calls : job[k] \in PipelineStages
    BY <1>4 DEF Progressing
  <2>2. job'[j] = pc /\ \A i \in Calls \ {j} : job'[i] = job[i]
    BY <1>4, DGoes
  <2> QED
    BY <1>4, <2>1, <2>2
<1>5. ASSUME NEW j \in Calls, UserRequest(j)
      PROVE  \E k \in Calls : job'[k] \in PipelineStages
  <2>1. job[j] = "idle" /\ status' = status /\ disturbed \subseteq disturbed'
    BY <1>5 DEF UserRequest, Deploy, Redeploy, StopInstance, Delete, Begin
  <2>2. \E pc : Goto(j, pc)
    BY <1>5 DEF UserRequest, Deploy, Redeploy, StopInstance, Delete
  <2> QED
    BY <1>4, <2>1, <2>2 DEF PipelineStages
<1>6. ASSUME NEW j \in Calls, JobStep(j)
      PROVE  \E k \in Calls : job'[k] \in PipelineStages
  <2>1. disturbed \subseteq disturbed'
    BY <1>6
    DEF JobStep, Refused, Queue, Preparing, PickNode, Starting, LaunchCore,
        CoreLaunched, CallFails, CallLost, Unheard, Probe, Provision, Finish,
        FinishAgain, InstanceStopped, Removed, Tombstone
  <2>2. \/ Finish(j) \/ FinishAgain(j) \/ InstanceStopped(j) \/ Tombstone(j)
        \/ UNCHANGED <<status, job>>
        \/ \E pc \in PipelineStages : Goto(j, pc)
        \/ job[j] \notin PipelineStages /\ status' = status /\ \E pc : Goto(j, pc)
    BY <1>6
    DEF PipelineStages, JobStep, Refused, Queue, Preparing, PickNode, Starting,
        LaunchCore, CoreLaunched, CallFails, CallLost, Unheard, Probe, Provision,
        Removed
  <2>3. ASSUME NEW pc \in PipelineStages, Goto(j, pc)
        PROVE  \E k \in Calls : job'[k] \in PipelineStages
    BY <2>3, DGoes
  <2>4. ~(Finish(j) \/ FinishAgain(j) \/ InstanceStopped(j) \/ Tombstone(j))
    BY DEF Finish, FinishAgain, InstanceStopped, Tombstone
  <2> QED
    BY <1>1, <1>4, <2>1, <2>2, <2>3, <2>4
<1> QED
  BY <1>2, <1>3, <1>5, <1>6 DEF DeploymentNext

(* Between operations that did not overlap, and did not lose the worker:   *)
(* the Core that is there is the one the worker knows, ...                 *)
OwnCore == Cores(Inst) \subseteq IF Known(Inst) THEN {handle[Inst].pid} ELSE {}

(* ... a removed instance has left nothing that would start it again, ...  *)
GoneFrom == ~Known(Inst) /\ registry[Inst] = None

(* ... the status says so, and the worker has it only if the row of the    *)
(* latest deployment has a node, which is what a delete goes by.           *)
AtRest ==
  /\ status # "deleted" => OwnCore
  /\ status = "stopped" => Cores(Inst) = {}
  /\ status = "running" => Known(Inst)
  /\ status = "deleted" => GoneFrom
  /\ ~latest.node => GoneFrom

(* What a request or pipeline knows of the instance at each of its stages. *)
WaitsFor(j, op) ==
  call[j].pc = "stop" =>
    /\ call[j].op = op /\ call[j].inst = Inst
    /\ Known(Inst) /\ call[j].pid = handle[Inst].pid

KnowsOf(j) ==
  /\ job[j] \notin {"launching", "stopping", "removing"} => call[j].pc = "idle"
  /\ job[j] \in {"asked", "stopping"} => AtRest /\ status # "deleted"
  /\ job[j] \in {"queued", "preparing"} => OwnCore /\ latest.job = j
  /\ job[j] \in PipelineStages => status = "deploying"
  /\ job[j] \in (PipelineStages \ {"preparing"}) \cup {"running2", "failing2"} =>
       OwnCore /\ latest.node
  /\ job[j] \in {"provisioning", "running", "running2"} => Known(Inst)
  /\ job[j] = "running2" => status = "running"
  /\ job[j] = "failing2" => status = "failed"
  /\ job[j] = "launching" =>
       /\ call[j].pc \in {"stop", "spawn", "ok", "error"} /\ WaitsFor(j, "launch")
       /\ call[j].pc = "spawn" => call[j].inst = Inst /\ Cores(Inst) = {}
  /\ job[j] = "stopping" =>
       /\ call[j].pc \in {"stop", "ok", "error"} /\ WaitsFor(j, "stop")
       /\ call[j].pc = "ok" => Cores(Inst) = {}
  /\ job[j] \in {"removing", "deleting"} => GoneFrom
  /\ job[j] = "removing" => call[j].pc = "ok"

(* One operation is under way at most, and the relaunch task is not.       *)
Alone(j) == \A k \in Calls \ {j} : job[k] = "idle" /\ call[k].pc = "idle"

Steady ==
  /\ call[Boot].pc = "idle" /\ todo[Inst] = None
  /\ Known(Inst) => registry[Inst] = handle[Inst].port

Calm ==
  /\ Steady
  /\ \A j \in Calls : KnowsOf(j) /\ (job[j] # "idle" => Alone(j))
  /\ (\A j \in Calls : job[j] = "idle") => AtRest

CalmInv == disturbed = {} => Calm

(* An operation that is alone leaves the rest as it was.                   *)
LEMMA CalmAfter ==
  ASSUME NEW j \in Calls, Alone(j)', Steady', KnowsOf(j)', (job[j] = "idle" => AtRest)'
  PROVE  Calm'
<1>1. ASSUME NEW k \in Calls \ {j} PROVE (KnowsOf(k) /\ job[k] = "idle")'
  <2>1. (job[k] = "idle" /\ call[k].pc = "idle")'
    BY DEF Alone
  <2> QED
    BY <2>1 DEF KnowsOf, PipelineStages
<1>2. (job[j] # "idle" => Alone(j))'
  OBVIOUS
<1> QED
  BY <1>1, <1>2 DEF Calm

LEMMA AloneStays ==
  ASSUME NEW j \in Calls, Alone(j), \A k \in Calls \ {j} : job'[k] = job[k] /\ call'[k] = call[k]
  PROVE  Alone(j)'
BY DEF Alone

(* Where the worker stays as it is, what is said of it stays true.         *)
LEMMA WorldStays ==
  ASSUME UNCHANGED <<handle, registry, proc>>
  PROVE  /\ OwnCore' = OwnCore /\ GoneFrom' = GoneFrom
         /\ Known(Inst)' = Known(Inst) /\ Cores(Inst)' = Cores(Inst)
         /\ handle' = handle /\ registry' = registry
BY Zenon DEF OwnCore, GoneFrom, Known, Cores, Alive

(* A process that does not run is not there: an instance whose Core is not *)
(* the one of its handle has none.                                         *)
LEMMA CoreGone == ASSUME OwnCore, ~Runs(Inst) PROVE Cores(Inst) = {}
<1>1. CASE Known(Inst)
  <2>1. Cores(Inst) \subseteq {handle[Inst].pid} /\ ~Alive(handle[Inst].pid)
    BY <1>1 DEF OwnCore, Runs
  <2> QED
    BY <2>1 DEF Cores
<1>2. CASE ~Known(Inst)
  BY <1>2 DEF OwnCore
<1> QED
  BY <1>1, <1>2

(* The stages at which the worker is not called.                           *)
LEMMA CalmAtConsole ==
  ASSUME TInv, DTypes, Calm, NEW j \in Calls,
         \/ Refused(j) \/ Queue(j) \/ Preparing(j) \/ PickNode(j) \/ Starting(j)
         \/ Probe(j) \/ Provision(j) \/ Finish(j) \/ FinishAgain(j) \/ Tombstone(j)
  PROVE  Calm'
<1>1. UNCHANGED vars /\ \E pc : Goto(j, pc)
  BY Zenon DEF Refused, Queue, Preparing, PickNode, Starting, Probe, Provision,
     Finish, FinishAgain, Tombstone
<1>2. /\ call' = call /\ todo' = todo
      /\ OwnCore' = OwnCore /\ GoneFrom' = GoneFrom
      /\ Known(Inst)' = Known(Inst) /\ Cores(Inst)' = Cores(Inst)
      /\ handle' = handle /\ registry' = registry
  BY <1>1, WorldStays DEF vars
<1>3. /\ job[j] # "idle"
      /\ job[j] \notin {"launching", "stopping", "removing"}
  BY DEF Refused, Queue, Preparing, PickNode, Starting, Probe, Provision,
     Finish, FinishAgain, Tombstone
<1>4. KnowsOf(j) /\ Alone(j) /\ Steady
  BY <1>3 DEF Calm
<1>5. Alone(j)' /\ Steady'
  <2>1. \A k \in Calls \ {j} : job'[k] = job[k]
    BY <1>1, DGoes
  <2> QED
    BY Zenon, <1>2, <1>4, <2>1, AloneStays DEF Steady
<1>6. call'[j].pc = "idle"
  BY <1>2, <1>3, <1>4 DEF KnowsOf
<1>7. ASSUME NEW pc, Goto(j, pc) PROVE job'[j] = pc
  BY <1>7, DGoes
<1> SUFFICES KnowsOf(j)' /\ (job[j] = "idle" => AtRest)'
  BY <1>5, CalmAfter
<1>8. CASE Refused(j)
  <2>1. job[j] = "asked" /\ job'[j] = "idle" /\ UNCHANGED <<status, latest>>
    BY <1>7, <1>8 DEF Refused
  <2>2. AtRest'
    BY <1>2, <1>4, <2>1 DEF KnowsOf, AtRest
  <2> QED
    BY <1>6, <2>1, <2>2 DEF KnowsOf, PipelineStages
<1>9. CASE Queue(j)
  <2>1. job[j] = "asked" /\ job'[j] = "queued" /\ status' = status /\ latest'.job = j
    BY <1>7, <1>9 DEF Queue
  <2>2. OwnCore'
    BY <1>2, <1>4, <2>1 DEF KnowsOf, AtRest
  <2> QED
    BY <1>6, <2>1, <2>2 DEF KnowsOf, PipelineStages
<1>10. CASE Preparing(j)
  <2>1. job[j] = "queued" /\ job'[j] = "preparing" /\ status' = "deploying" /\ latest' = latest
    BY <1>7, <1>10 DEF Preparing
  <2>2. OwnCore' /\ latest'.job = j
    BY <1>2, <1>4, <2>1 DEF KnowsOf
  <2> QED
    BY <1>6, <2>1, <2>2 DEF KnowsOf, PipelineStages
<1>11. CASE PickNode(j)
  <2>1. job[j] = "preparing" /\ job'[j] = "building" /\ status' = status
    BY <1>7, <1>11 DEF PickNode
  <2>2. OwnCore /\ latest.job = j /\ status = "deploying"
    BY <1>4, <2>1 DEF KnowsOf, PipelineStages
  <2>3. latest'.node
    BY <1>11, <2>2 DEF PickNode, DTypes
  <2> QED
    BY <1>2, <1>6, <2>1, <2>2, <2>3 DEF KnowsOf, PipelineStages
<1>12. CASE Starting(j)
  <2>1. job[j] = "building" /\ job'[j] = "starting" /\ status' = "deploying" /\ latest' = latest
    BY <1>7, <1>12 DEF Starting
  <2>2. OwnCore' /\ latest'.node
    BY <1>2, <1>4, <2>1 DEF KnowsOf, PipelineStages
  <2> QED
    BY <1>6, <2>1, <2>2 DEF KnowsOf, PipelineStages
<1>13. CASE Probe(j)
  <2>1. /\ job[j] = "probing" /\ status' = status /\ latest' = latest
        /\ (job'[j] = "provisioning" /\ Runs(Inst)) \/ job'[j] = "failing"
    BY <1>7, <1>13 DEF Probe
  <2>2. Runs(Inst) => Known(Inst)'
    BY <1>2 DEF Runs, Known
  <2>3. OwnCore' /\ latest'.node /\ status' = "deploying"
    BY <1>2, <1>4, <2>1 DEF KnowsOf, PipelineStages
  <2> QED
    BY <1>6, <2>1, <2>2, <2>3 DEF KnowsOf, PipelineStages
<1>14. CASE Provision(j)
  <2>1. /\ job[j] = "provisioning" /\ status' = status /\ latest' = latest
        /\ job'[j] \in {"running", "failing"}
    BY <1>7, <1>14 DEF Provision
  <2>2. OwnCore' /\ latest'.node /\ status' = "deploying" /\ Known(Inst)'
    BY <1>2, <1>4, <2>1 DEF KnowsOf, PipelineStages
  <2> QED
    BY <1>6, <2>1, <2>2 DEF KnowsOf, PipelineStages
<1>15. CASE Finish(j)
  <2>1. /\ job[j] \in {"running", "failing"} /\ latest' = latest
        /\ job'[j] = IF job[j] = "running" THEN "running2" ELSE "failing2"
        /\ status' = IF job[j] = "running" THEN "running" ELSE "failed"
    BY <1>7, <1>15 DEF Finish
  <2>2. OwnCore' /\ latest'.node /\ (job[j] = "running" => Known(Inst)')
    BY <1>2, <1>4, <2>1 DEF KnowsOf, PipelineStages
  <2> QED
    BY <1>6, <2>1, <2>2 DEF KnowsOf, PipelineStages
<1>16. CASE FinishAgain(j)
  <2>1. /\ job[j] \in {"running2", "failing2"} /\ latest' = latest /\ job'[j] = "idle"
        /\ status' = IF job[j] = "running2" THEN "running" ELSE "failed"
    BY <1>7, <1>16 DEF FinishAgain
  <2>2. OwnCore' /\ latest'.node /\ (job[j] = "running2" => Known(Inst)')
    BY <1>2, <1>4, <2>1 DEF KnowsOf, PipelineStages
  <2>3. AtRest'
    BY <2>1, <2>2 DEF AtRest
  <2> QED
    BY <1>6, <2>1, <2>3 DEF KnowsOf, PipelineStages
<1>17. CASE Tombstone(j)
  <2>1. job[j] = "deleting" /\ job'[j] = "idle" /\ status' = "deleted"
    BY <1>7, <1>17 DEF Tombstone
  <2>2. GoneFrom'
    BY <1>2, <1>4, <2>1 DEF KnowsOf
  <2>3. AtRest'
    BY <2>1, <2>2 DEF AtRest
  <2> QED
    BY <1>6, <2>1, <2>3 DEF KnowsOf, PipelineStages
<1> QED
  BY <1>8, <1>9, <1>10, <1>11, <1>12, <1>13, <1>14, <1>15, <1>16, <1>17

(* A request begins between operations: nothing else is under way.         *)
LEMMA CalmAtBegin ==
  ASSUME TInv, DTypes, CalmInv, disturbed' = {}, NEW j \in Calls, NEW lost, Begin(j, lost)
  PROVE  /\ Calm /\ AtRest /\ status # "deleted" /\ Alone(j) /\ call[j].pc = "idle"
         /\ Steady /\ disturbed = {} /\ lost = {}
<1>1. disturbed = {} /\ lost = {} /\ Quiet
  BY DEF Begin
<1>2. \A k \in Calls : job[k] = "idle" /\ call[k].pc = "idle"
  BY <1>1 DEF Quiet
<1>3. Calm /\ status # "deleted"
  BY <1>1 DEF CalmInv, Begin
<1> QED
  BY <1>1, <1>2, <1>3 DEF Calm, Alone

LEMMA CalmAtRequest ==
  ASSUME Instances = {Inst}, TInv, DTypes, CalmInv, disturbed' = {},
         NEW j \in Calls, UserRequest(j)
  PROVE  Calm'
<1>0. j \in Tasks /\ Inst \in Instances /\ Boot \in Tasks /\ j # Boot
  BY WorkerAssumption DEF Tasks
<1>1. UNCHANGED <<status, latest>> /\ \E lost : Begin(j, lost)
  BY DEF UserRequest, Deploy, Redeploy, StopInstance, Delete
<1>2. /\ AtRest /\ status # "deleted" /\ Alone(j) /\ call[j].pc = "idle"
      /\ Steady /\ disturbed = {}
  BY <1>1, CalmAtBegin
<1>3. ASSUME \A d \in Tasks \ {j} : call'[d] = call[d], NEW pc, Goto(j, pc)
      PROVE  Alone(j)' /\ call'[Boot] = call[Boot] /\ job'[j] = pc
  <2>1. job'[j] = pc /\ \A k \in Calls \ {j} : job'[k] = job[k] /\ call'[k] = call[k]
    BY <1>3, DGoes DEF Tasks
  <2> QED
    BY <1>0, <1>2, <1>3, <2>1, AloneStays
<1>4. ASSUME UNCHANGED <<handle, registry, proc, todo>>, call'[Boot] = call[Boot] PROVE Steady'
  BY <1>2, <1>4 DEF Steady, Known
<1>5. CASE Deploy(j) \/ Redeploy(j)
  <2>1. UNCHANGED vars /\ Goto(j, "asked")
    BY <1>5 DEF Deploy, Redeploy
  <2>2. /\ OwnCore' = OwnCore /\ GoneFrom' = GoneFrom
        /\ Known(Inst)' = Known(Inst) /\ Cores(Inst)' = Cores(Inst)
    BY <2>1, WorldStays DEF vars
  <2>3. AtRest' /\ status' # "deleted"
    BY <1>1, <1>2, <2>2 DEF AtRest
  <2>4. call' = call /\ job'[j] = "asked" /\ Alone(j)' /\ Steady'
    BY <1>3, <1>4, <2>1 DEF vars
  <2>5. KnowsOf(j)'
    BY <1>2, <2>3, <2>4 DEF KnowsOf, PipelineStages
  <2> QED
    BY <2>4, <2>5, CalmAfter
<1>6. CASE StopInstance(j)
  <2>1. Stop(j, Inst) /\ Goto(j, "stopping")
    BY <1>6 DEF StopInstance
  <2>2. UNCHANGED <<handle, registry, proc, todo>>
    BY <2>1 DEF Stop
  <2>3. /\ OwnCore' = OwnCore /\ GoneFrom' = GoneFrom
        /\ Known(Inst)' = Known(Inst) /\ Cores(Inst)' = Cores(Inst)
    BY <2>2, WorldStays
  <2>4. AtRest' /\ status' # "deleted"
    BY <1>1, <1>2, <2>3 DEF AtRest
  <2>5. CASE Runs(Inst)
    <3>1. Await(j, Inst, "stop")
      BY <2>1, <2>5 DEF Stop
    <3>2. \A d \in Tasks \ {j} : call'[d] = call[d]
      BY <1>0, <2>5, <3>1, AwaitCall
    <3>3. /\ call'[j].pc = "stop" /\ call'[j].inst = Inst
          /\ call'[j].pid = handle[Inst].pid /\ call'[j].op = "stop"
      BY <1>0, <3>1 DEF Await, TInv, TypeOK, CallRecord, Idle
    <3>4. Known(Inst)' /\ call'[j].pid = handle'[Inst].pid
      BY <2>2, <2>3, <2>5, <3>3 DEF Runs
    <3>5. job'[j] = "stopping" /\ Alone(j)' /\ Steady'
      BY <1>3, <1>4, <2>1, <2>2, <3>2
    <3>6. KnowsOf(j)'
      BY <2>4, <3>3, <3>4, <3>5 DEF KnowsOf, WaitsFor, PipelineStages
    <3> QED
      BY <3>5, <3>6, CalmAfter
  <2>6. CASE ~Runs(Inst)
    <3>1. PICK r \in {"ok", "error"} : Answer(j, r)
      BY <2>1, <2>6 DEF Stop
    <3>2. \A d \in Tasks \ {j} : call'[d] = call[d]
      BY <1>0, <3>1, AnswerCall
    <3>3. call'[j].pc = r
      BY <1>0, <3>1 DEF Answer, TInv, TypeOK, Idle
    <3>4. Cores(Inst)' = {}
      BY <1>2, <2>3, <2>6, CoreGone DEF AtRest
    <3>5. job'[j] = "stopping" /\ Alone(j)' /\ Steady'
      BY <1>3, <1>4, <2>1, <2>2, <3>2
    <3>6. KnowsOf(j)'
      BY <2>4, <3>3, <3>4, <3>5 DEF KnowsOf, WaitsFor, PipelineStages
    <3> QED
      BY <3>5, <3>6, CalmAfter
  <2> QED
    BY <2>5, <2>6
<1>7. CASE Remove(j, Inst) /\ Goto(j, "removing")
  <2>1. /\ Answer(j, "ok") /\ UNCHANGED <<proc, todo>>
        /\ handle' = [handle EXCEPT ![Inst] = None] /\ registry' = [registry EXCEPT ![Inst] = None]
    BY <1>7 DEF Remove, Forget
  <2>2. GoneFrom'
    BY <1>0, <2>1 DEF GoneFrom, Known, TInv, TypeOK
  <2>3. \A d \in Tasks \ {j} : call'[d] = call[d]
    BY <1>0, <2>1, AnswerCall
  <2>4. call'[j].pc = "ok"
    BY <1>0, <2>1 DEF Answer, TInv, TypeOK, Idle
  <2>5. job'[j] = "removing" /\ Alone(j)' /\ call'[Boot] = call[Boot]
    BY <1>3, <1>7, <2>3
  <2>6. Steady'
    BY <1>2, <2>1, <2>2, <2>5 DEF Steady, GoneFrom
  <2>7. KnowsOf(j)'
    BY <2>2, <2>4, <2>5 DEF KnowsOf, PipelineStages
  <2> QED
    BY <2>5, <2>6, <2>7, CalmAfter
<1>8. CASE UNCHANGED vars /\ Goto(j, "deleting") /\ ~latest.node
  <2>1. GoneFrom' = GoneFrom
    BY <1>8, WorldStays DEF vars
  <2>2. GoneFrom'
    BY <1>2, <1>8, <2>1 DEF AtRest
  <2>3. call' = call /\ job'[j] = "deleting" /\ Alone(j)' /\ Steady'
    BY <1>3, <1>4, <1>8 DEF vars
  <2>4. KnowsOf(j)'
    BY <1>2, <2>2, <2>3 DEF KnowsOf, PipelineStages
  <2> QED
    BY <2>3, <2>4, CalmAfter
<1>9. CASE Delete(j)
  <2>1. CASE Remove(j, Inst) /\ Goto(j, "removing")
    BY <1>7, <2>1
  <2>2. CASE /\ Begin(j, IF latest.node THEN {"lost"} ELSE {})
             /\ UNCHANGED vars /\ Goto(j, "deleting")
    <3>1. (IF latest.node THEN {"lost"} ELSE {}) = {}
      BY <2>2, CalmAtBegin
    <3> QED
      BY <1>8, <2>2, <3>1
  <2> QED
    BY <1>9, <2>1, <2>2 DEF Delete
<1> QED
  BY <1>5, <1>6, <1>9 DEF UserRequest

(* The worker is asked to launch.                                          *)
LEMMA CalmAtLaunch ==
  ASSUME Instances = {Inst}, TInv, DTypes, Calm, NEW j \in Calls, LaunchCore(j)
  PROVE  Calm'
<1>0. j \in Tasks /\ Inst \in Instances /\ Boot \in Tasks /\ j # Boot
  BY WorkerAssumption DEF Tasks
<1>1. /\ job[j] = "starting" /\ Launch(j, Inst) /\ Goto(j, "launching")
      /\ UNCHANGED <<status, latest>>
  BY DEF LaunchCore
<1>2. KnowsOf(j) /\ Alone(j) /\ Steady
  BY <1>1 DEF Calm
<1>3. OwnCore /\ latest.node /\ status = "deploying"
  BY <1>1, <1>2 DEF KnowsOf, PipelineStages
<1>4. ASSUME \A d \in Tasks \ {j} : call'[d] = call[d]
      PROVE  Alone(j)' /\ call'[Boot] = call[Boot] /\ job'[j] = "launching"
  <2>1. job'[j] = "launching" /\ \A k \in Calls \ {j} : job'[k] = job[k] /\ call'[k] = call[k]
    BY <1>1, <1>4, DGoes DEF Tasks
  <2> QED
    BY <1>0, <1>2, <1>4, <2>1, AloneStays
<1>5. UNCHANGED <<registry, proc, todo>>
  BY <1>1 DEF Launch
<1>6. CASE Runs(Inst)
  <2>1. Await(j, Inst, "launch") /\ handle' = handle
    BY <1>1, <1>6 DEF Launch
  <2>2. \A d \in Tasks \ {j} : call'[d] = call[d]
    BY <1>0, <1>6, <2>1, AwaitCall
  <2>3. /\ call'[j].pc = "stop" /\ call'[j].inst = Inst
        /\ call'[j].pid = handle[Inst].pid /\ call'[j].op = "launch"
    BY <1>0, <2>1 DEF Await, TInv, TypeOK, CallRecord, Idle
  <2>4. OwnCore' /\ Known(Inst)' /\ call'[j].pid = handle'[Inst].pid
    BY <1>3, <1>5, <1>6, <2>1, <2>3, WorldStays DEF Runs
  <2>5. Steady'
    BY <1>2, <1>4, <1>5, <2>1, <2>2 DEF Steady, Known
  <2>6. KnowsOf(j)'
    BY <1>1, <1>3, <1>4, <2>2, <2>3, <2>4 DEF KnowsOf, WaitsFor, PipelineStages
  <2> QED
    BY <1>4, <2>2, <2>5, <2>6, CalmAfter
<1>7. CASE ~Runs(Inst)
  <2>1. Allocate(j, Inst, "launch", None) /\ handle' = [handle EXCEPT ![Inst] = None]
    BY <1>1, <1>7 DEF Launch, Forget
  <2>2. /\ \A d \in Tasks \ {j} : call'[d] = call[d]
        /\ \/ call'[j].pc = "spawn" /\ call'[j].inst = Inst
           \/ call'[j].pc \in {"idle", "error"}
    BY <1>0, <2>1, AllocateCall
  <2>3. call'[j].pc # "idle"
    BY ZenonT(40), <1>0, <2>1 DEF Allocate, Answer, TInv, TypeOK, Idle
  <2>4. Cores(Inst)' = {}
    <3>1. Cores(Inst)' = Cores(Inst)
      BY Zenon, <1>5 DEF Cores, Alive
    <3> QED
      BY <1>3, <1>7, <3>1, CoreGone
  <2>5. ~Known(Inst)' /\ OwnCore'
    BY <1>0, <2>1, <2>4 DEF Known, OwnCore, TInv, TypeOK
  <2>6. Steady'
    BY <1>2, <1>4, <1>5, <2>2, <2>5 DEF Steady
  <2>7. KnowsOf(j)'
    BY <1>1, <1>3, <1>4, <2>2, <2>3, <2>4, <2>5 DEF KnowsOf, WaitsFor, PipelineStages
  <2> QED
    BY <1>4, <2>2, <2>6, <2>7, CalmAfter
<1> QED
  BY <1>6, <1>7

(* An answer of the worker reaches the request or pipeline.                *)
LEMMA CalmAtAnswer ==
  ASSUME TInv, DTypes, Calm, NEW j \in Calls,
         CoreLaunched(j) \/ CallFails(j) \/ Unheard(j) \/ InstanceStopped(j) \/ Removed(j)
  PROVE  Calm'
<1>0. j \in Tasks /\ Boot \in Tasks /\ j # Boot
  BY WorkerAssumption DEF Tasks
<1>1. Done(j)
  BY DEF CoreLaunched, CallFails, Unheard, InstanceStopped, Removed
<1>2. /\ call'[j].pc = "idle" /\ \A d \in Tasks \ {j} : call'[d] = call[d]
      /\ call[j].pc \in {"ok", "error"}
      /\ UNCHANGED <<handle, registry, proc, todo>>
  BY <1>0, <1>1 DEF Done, Idle, TInv, TypeOK
<1>3. /\ OwnCore' = OwnCore /\ GoneFrom' = GoneFrom
      /\ Known(Inst)' = Known(Inst) /\ Cores(Inst)' = Cores(Inst)
  BY <1>2, WorldStays
<1>4. KnowsOf(j)
  BY DEF Calm
<1>5. job[j] \in {"launching", "stopping", "removing"}
  BY <1>2, <1>4 DEF KnowsOf
<1>6. Alone(j) /\ Steady
  BY <1>5 DEF Calm
<1>7. Steady'
  BY <1>0, <1>2, <1>6 DEF Steady, Known
<1>8. ASSUME NEW pc, Goto(j, pc) PROVE Alone(j)' /\ job'[j] = pc
  <2>1. job'[j] = pc /\ \A k \in Calls \ {j} : job'[k] = job[k] /\ call'[k] = call[k]
    BY <1>2, <1>8, DGoes DEF Tasks
  <2> QED
    BY <1>6, <2>1, AloneStays
<1>9. ASSUME NEW pc, Goto(j, pc), pc \in {"probing", "failing"}, job[j] = "launching",
             status' = "deploying" \/ status' = status, latest' = latest
      PROVE  Calm'
  <2>1. OwnCore' /\ latest'.node /\ status' = "deploying"
    BY <1>3, <1>4, <1>9 DEF KnowsOf, PipelineStages
  <2>2. KnowsOf(j)'
    BY <1>2, <1>8, <1>9, <2>1 DEF KnowsOf, PipelineStages
  <2> QED
    BY <1>7, <1>8, <1>9, <2>2, CalmAfter
<1>10. ASSUME Goto(j, "idle"), AtRest' PROVE Calm'
  <2>1. KnowsOf(j)'
    BY <1>2, <1>8, <1>10 DEF KnowsOf, PipelineStages
  <2> QED
    BY <1>7, <1>8, <1>10, <2>1, CalmAfter
<1>11. CASE CoreLaunched(j)
  BY <1>9, <1>11 DEF CoreLaunched
<1>12. CASE CallFails(j)
  <2>1. CASE job[j] = "launching"
    BY <1>9, <1>12, <2>1 DEF CallFails
  <2>2. CASE job[j] = "stopping"
    <3>1. Goto(j, "idle") /\ status' = status /\ latest' = latest
      BY <1>12, <2>2 DEF CallFails
    <3>2. AtRest'
      BY <1>3, <1>4, <2>2, <3>1 DEF KnowsOf, AtRest
    <3> QED
      BY <1>10, <3>1, <3>2
  <2> QED
    BY <1>12, <2>1, <2>2 DEF CallFails
<1>13. CASE InstanceStopped(j)
  <2>1. /\ job[j] = "stopping" /\ call[j].pc = "ok" /\ Goto(j, "idle")
        /\ status' = "stopped" /\ latest' = latest
    BY <1>13 DEF InstanceStopped
  <2>2. AtRest /\ status # "deleted" /\ Cores(Inst) = {}
    BY <1>4, <2>1 DEF KnowsOf
  <2>3. AtRest'
    BY <1>3, <2>1, <2>2 DEF AtRest
  <2> QED
    BY <1>10, <2>1, <2>3
<1>14. CASE Removed(j)
  <2>1. job[j] = "removing" /\ Goto(j, "deleting")
    BY <1>14 DEF Removed
  <2>2. GoneFrom'
    BY <1>3, <1>4, <2>1 DEF KnowsOf
  <2>3. KnowsOf(j)'
    BY <1>2, <1>8, <2>1, <2>2 DEF KnowsOf, PipelineStages
  <2> QED
    BY <1>7, <1>8, <2>1, <2>3, CalmAfter
<1>15. CASE Unheard(j)
  BY <1>5, <1>15 DEF Unheard
<1> QED
  BY <1>11, <1>12, <1>13, <1>14, <1>15

(* A Core binds its port or ends: the worker has the same Cores or fewer.  *)
LEMMA CalmWithFewer ==
  ASSUME Calm, Cores(Inst)' \subseteq Cores(Inst),
         UNCHANGED <<handle, registry, call, todo, status, job, latest>>
  PROVE  Calm'
<1>1. Known(Inst)' = Known(Inst) /\ GoneFrom' = GoneFrom
  BY Zenon DEF Known, GoneFrom
<1>2. (OwnCore => OwnCore') /\ (Cores(Inst) = {} => Cores(Inst)' = {})
  BY <1>1 DEF OwnCore
<1>3. AtRest => AtRest'
  BY <1>1, <1>2 DEF AtRest
<1>4. Steady'
  BY <1>1 DEF Calm, Steady
<1>5. ASSUME NEW j \in Calls PROVE (KnowsOf(j) /\ (job[j] # "idle" => Alone(j)))'
  <2>1. KnowsOf(j) /\ (job[j] # "idle" => Alone(j))
    BY DEF Calm
  <2>2. KnowsOf(j)'
    BY <1>1, <1>2, <1>3, <2>1 DEF KnowsOf, WaitsFor
  <2> QED
    BY <2>1, <2>2 DEF Alone
<1> QED
  BY <1>3, <1>4, <1>5 DEF Calm

(* The worker goes on with the call of the one operation under way.        *)
LEMMA CalmAtWorker ==
  ASSUME Instances = {Inst}, TInv, DTypes, Calm, NEW c \in Tasks, Step(c),
         UNCHANGED <<status, job, latest>>
  PROVE  Calm'
<1>1. call[c].pc \in {"stop", "spawn"}
  BY DEF Step, Stopped, Spawn, SpawnFails
<1>2. c \in Calls /\ c # Boot /\ Boot \in Tasks /\ Inst \in Instances
  BY <1>1 DEF Calm, Steady, Tasks
<1>3. KnowsOf(c)
  BY <1>2 DEF Calm
<1>4. job[c] \in {"launching", "stopping"} /\ (job[c] = "stopping" => call[c].pc = "stop")
  BY <1>1, <1>3 DEF KnowsOf
<1>5. Alone(c) /\ Steady
  BY <1>2, <1>4 DEF Calm
<1>6. ASSUME \A d \in Tasks \ {c} : call'[d] = call[d]
      PROVE  Alone(c)' /\ call'[Boot] = call[Boot]
  <2>1. \A k \in Calls \ {c} : job'[k] = job[k] /\ call'[k] = call[k]
    BY <1>6 DEF Tasks
  <2> QED
    BY <1>2, <1>5, <1>6, <2>1, AloneStays
<1>7. /\ OwnCore /\ WaitsFor(c, IF job[c] = "launching" THEN "launch" ELSE "stop")
      /\ job[c] = "launching" => latest.node /\ status = "deploying"
      /\ job[c] = "stopping" => AtRest /\ status # "deleted"
  BY <1>3, <1>4 DEF KnowsOf, AtRest, PipelineStages
<1>8. CASE Stopped(c)
  <2>1. /\ call[c].pc = "stop" /\ proc' = [proc EXCEPT ![handle[Inst].pid] = Dead]
        /\ UNCHANGED <<registry, todo>> /\ Known(Inst)
        /\ call[c].inst = Inst
        /\ call[c].op = IF job[c] = "launching" THEN "launch" ELSE "stop"
    BY <1>7, <1>8 DEF Stopped, WaitsFor
  <2>2. Cores(Inst)' = {}
    <3>1. SUFFICES ASSUME NEW p \in Pids, (Alive(p) /\ proc[p].inst = Inst)' PROVE FALSE
      BY DEF Cores
    <3>2. p # handle[Inst].pid
      BY <2>1, <3>1 DEF Alive, Dead, TInv, TypeOK
    <3>3. p \in Cores(Inst)
      BY <2>1, <3>1, <3>2 DEF Cores, Alive, TInv, TypeOK
    <3> QED
      BY <1>7, <2>1, <3>2, <3>3 DEF OwnCore
  <2>3. OwnCore'
    BY <2>2 DEF OwnCore
  <2>4. CASE job[c] = "launching"
    <3>1. Allocate(c, Inst, "launch", None) /\ handle' = [handle EXCEPT ![Inst] = None]
      BY <1>8, <2>1, <2>4 DEF Stopped, Forget
    <3>2. /\ \A d \in Tasks \ {c} : call'[d] = call[d]
          /\ \/ call'[c].pc = "spawn" /\ call'[c].inst = Inst
             \/ call'[c].pc \in {"idle", "error"}
      BY <1>2, <3>1, AllocateCall
    <3>3. call'[c].pc # "idle"
      BY ZenonT(40), <1>2, <3>1 DEF Allocate, Answer, TInv, TypeOK, Idle
    <3>4. ~Known(Inst)'
      BY <1>2, <3>1 DEF Known, TInv, TypeOK
    <3>5. Steady'
      BY <1>5, <1>6, <2>1, <3>2, <3>4 DEF Steady
    <3>6. KnowsOf(c)'
      BY <1>7, <2>2, <2>3, <2>4, <3>2, <3>3 DEF KnowsOf, WaitsFor, PipelineStages
    <3> QED
      BY <1>2, <1>6, <2>4, <3>2, <3>5, <3>6, CalmAfter
  <2>5. CASE job[c] = "stopping"
    <3>1. Answer(c, "ok") /\ handle' = handle
      BY <1>8, <2>1, <2>5 DEF Stopped
    <3>2. \A d \in Tasks \ {c} : call'[d] = call[d]
      BY <3>1, AnswerCall
    <3>3. call'[c].pc = "ok"
      BY <1>2, <3>1 DEF Answer, TInv, TypeOK, Idle
    <3>4. Known(Inst)' = Known(Inst) /\ GoneFrom' = GoneFrom
      BY Zenon, <2>1, <3>1 DEF Known, GoneFrom
    <3>5. Steady'
      BY <1>5, <1>6, <2>1, <3>1, <3>2 DEF Steady, Known
    <3>6. AtRest' /\ status' # "deleted"
      BY <1>7, <2>2, <2>3, <2>5, <3>4 DEF AtRest
    <3>7. KnowsOf(c)'
      BY <2>2, <2>5, <3>3, <3>6 DEF KnowsOf, WaitsFor, PipelineStages
    <3> QED
      BY <1>2, <1>6, <2>5, <3>2, <3>5, <3>7, CalmAfter
  <2> QED
    BY <1>4, <2>4, <2>5
<1>9. CASE Spawn(c)
  <2>1. job[c] = "launching" /\ call[c].pc = "spawn" /\ call[c].inst = Inst /\ Cores(Inst) = {}
    BY <1>3, <1>4, <1>9 DEF Spawn, KnowsOf
  <2>2. PICK p \in Pids :
          /\ proc' = [proc EXCEPT ![p] = [stage |-> "starting", inst |-> Inst,
                                          port |-> call[c].port]]
          /\ handle' = [handle EXCEPT ![Inst] = [pid |-> p, port |-> call[c].port]]
    BY <1>9, <2>1 DEF Spawn
  <2>3. /\ Answer(c, "ok") /\ todo' = todo
        /\ registry' = [registry EXCEPT ![Inst] = call[c].port]
    BY <1>2, <1>9, <2>1 DEF Spawn
  <2>4. \A d \in Tasks \ {c} : call'[d] = call[d]
    BY <2>3, AnswerCall
  <2>5. call'[c].pc = "ok"
    BY <1>2, <2>3 DEF Answer, TInv, TypeOK, Idle
  <2>6. handle'[Inst].pid = p /\ handle'[Inst].port = call[c].port /\ registry'[Inst] = call[c].port
    BY <1>2, <2>2, <2>3 DEF TInv, TypeOK
  <2>7. Cores(Inst)' \subseteq {p}
    <3>1. SUFFICES ASSUME NEW q \in Pids, (Alive(q) /\ proc[q].inst = Inst)', q # p PROVE FALSE
      BY DEF Cores
    <3>2. q \in Cores(Inst)
      BY <2>2, <3>1 DEF Cores, Alive, TInv, TypeOK
    <3> QED
      BY <2>1, <3>2
  <2>8. OwnCore'
    <3>1. Known(Inst)'
      BY <1>2, <1>9, <2>1, <2>2, WorkerAssumption DEF Known, TInv, TypeOK, CallInv
    <3> QED
      BY <2>6, <2>7, <3>1 DEF OwnCore
  <2>9. Steady'
    BY <1>5, <1>6, <2>3, <2>4, <2>6 DEF Steady
  <2>10. KnowsOf(c)'
    BY <1>7, <2>1, <2>5, <2>8 DEF KnowsOf, WaitsFor, PipelineStages
  <2> QED
    BY <1>2, <1>6, <2>1, <2>4, <2>9, <2>10, CalmAfter
<1>10. CASE SpawnFails(c)
  <2>1. Answer(c, "error") /\ UNCHANGED <<handle, registry, proc, todo>> /\ call[c].pc = "spawn"
    BY <1>10 DEF SpawnFails
  <2>2. \A d \in Tasks \ {c} : call'[d] = call[d]
    BY <2>1, AnswerCall
  <2>3. call'[c].pc = "error" /\ job[c] = "launching"
    BY <1>2, <1>4, <2>1 DEF Answer, TInv, TypeOK, Idle
  <2>4. OwnCore'
    BY <1>7, <2>1, WorldStays
  <2>5. Steady'
    BY <1>5, <1>6, <2>1, <2>2 DEF Steady, Known
  <2>6. KnowsOf(c)'
    BY <1>7, <2>3, <2>4 DEF KnowsOf, WaitsFor, PipelineStages
  <2> QED
    BY <1>2, <1>6, <2>2, <2>3, <2>5, <2>6, CalmAfter
<1> QED
  BY <1>8, <1>9, <1>10 DEF Step

LEMMA CalmStep ==
  ASSUME Instances = {Inst}, TInv, DTypes, CalmInv, [DeploymentNext]_deploymentVars
  PROVE  CalmInv'
<1> SUFFICES ASSUME disturbed' = {} PROVE Calm'
  BY DEF CalmInv
<1>0. Inst \in Instances /\ Tasks = Calls \cup {Boot}
  BY DEF Tasks
<1>1. ASSUME disturbed = {} PROVE Calm
  BY <1>1 DEF CalmInv
<1>2. ASSUME NEW j \in Calls, JobStep(j) PROVE Calm'
  <2>1. ~CallLost(j)
    BY DEF CallLost
  <2>2. disturbed = {}
    BY <1>2, <2>1
    DEF JobStep, Refused, Queue, Preparing, PickNode, Starting, LaunchCore,
        CoreLaunched, CallFails, Unheard, Probe, Provision, Finish,
        FinishAgain, InstanceStopped, Removed, Tombstone
  <2> QED
    BY <1>1, <1>2, <2>1, <2>2, CalmAtConsole, CalmAtLaunch, CalmAtAnswer DEF JobStep
<1>3. CASE Worker
  <2>1. Calm /\ UNCHANGED <<status, job, latest>>
    BY <1>1, <1>3 DEF Worker
  <2>2. \/ \E c \in Tasks : Step(c)
        \/ \E p \in Pids : Bind(p) \/ Exit(p)
        \/ Relaunch(Inst)
    BY Zenon, <1>0, <1>3 DEF Worker
  <2>3. ASSUME NEW p \in Pids, Bind(p) \/ Exit(p) PROVE Calm'
    <3>1. UNCHANGED <<handle, registry, call, todo>>
      BY <2>3 DEF Bind, Exit
    <3>2. ASSUME NEW q \in Pids, Alive(q)' PROVE Alive(q) /\ proc'[q].inst = proc[q].inst
      <4>1. CASE proc' = [proc EXCEPT ![p] = Dead]
        BY <3>2, <4>1 DEF Alive, Dead, TInv, TypeOK
      <4>2. CASE proc[p].stage = "starting" /\ proc' = [proc EXCEPT ![p].stage = "serving"]
        BY <3>2, <4>2 DEF Alive, TInv, TypeOK
      <4> QED
        BY <2>3, <4>1, <4>2 DEF Bind, Exit
    <3>3. Cores(Inst)' \subseteq Cores(Inst)
      BY <3>2 DEF Cores
    <3> QED
      BY <2>1, <3>1, <3>3, CalmWithFewer
  <2>4. ~Relaunch(Inst)
    BY <2>1 DEF Relaunch, Calm, Steady
  <2> QED
    BY <2>1, <2>2, <2>3, <2>4, CalmAtWorker
<1>4. CASE ConsoleRestart
  BY <1>4 DEF ConsoleRestart
<1>5. CASE UNCHANGED deploymentVars
  <2>1. Calm /\ UNCHANGED <<handle, registry, proc, call, todo, status, job, latest>>
    BY <1>1, <1>5 DEF deploymentVars, vars
  <2>2. Cores(Inst)' \subseteq Cores(Inst)
    BY <2>1 DEF Cores, Alive
  <2> QED
    BY <2>1, <2>2, CalmWithFewer
<1> QED
  BY <1>2, <1>3, <1>4, <1>5, CalmAtRequest DEF DeploymentNext

DInv == TInv /\ DTypes /\ Progressing /\ CalmInv

LEMMA DInit == ASSUME Instances = {Inst}, DeploymentInit PROVE DInv
<1>1. Init /\ TInv
  BY TypesInit DEF DeploymentInit
<1>2. DTypes /\ Progressing
  BY DEF DeploymentInit, DTypes, Progressing
<1>3. /\ \A c \in Tasks : call[c].pc = "idle"
      /\ handle[Inst] = None /\ registry[Inst] = None /\ todo[Inst] = None
      /\ \A p \in Pids : proc[p].stage = "none"
      /\ status = "stopped" /\ \A j \in Calls : job[j] = "idle"
  BY <1>1 DEF DeploymentInit, Init, Idle, Dead
<1>4. /\ Cores(Inst) = {} /\ ~Known(Inst)
  BY <1>3 DEF Cores, Alive, Known
<1>5. AtRest /\ Steady
  BY <1>3, <1>4 DEF AtRest, OwnCore, GoneFrom, Steady, Tasks
<1>6. \A j \in Calls : KnowsOf(j)
  BY <1>3 DEF KnowsOf, PipelineStages, Tasks
<1> QED
  BY <1>1, <1>2, <1>3, <1>5, <1>6 DEF DInv, CalmInv, Calm

LEMMA DHolds == ASSUME Instances = {Inst}, DInv PROVE DeploymentHolds
<1>1. DeploymentTypeOK
  BY DEF DInv, TInv, DTypes, DeploymentTypeOK, PipelineStages
<1>2. ASSUME Quiet, disturbed = {}
      PROVE  /\ status = "stopped" => Cores(Inst) = {}
             /\ status = "running" => Known(Inst) /\ registry[Inst] = handle[Inst].port
             /\ status = "deleted" => ~Known(Inst) /\ registry[Inst] = None
  <2>1. AtRest /\ Steady
    BY <1>2 DEF DInv, CalmInv, Calm, Quiet
  <2> QED
    BY <2>1 DEF AtRest, Steady, GoneFrom
<1>3. StatusIsTrue
  BY <1>2 DEF StatusIsTrue
<1>4. ProgressEnds
  BY DEF DInv, Progressing, PipelineStages, ProgressEnds, Quiet
<1> QED
  BY <1>1, <1>3, <1>4 DEF DeploymentHolds

LEMMA DStep == ASSUME Instances = {Inst}, DInv, [DeploymentNext]_deploymentVars PROVE DInv' /\ [Next]_vars
<1>1. [Next]_vars
  BY DeploymentSteps DEF DInv
<1>2. TInv'
  BY <1>1, TypesStep DEF DInv
<1>3. DTypes' /\ Progressing'
  BY DTypesKept, ProgressingKept DEF DInv
<1>4. CalmInv'
  BY CalmStep DEF DInv
<1> QED
  BY <1>1, <1>2, <1>3, <1>4 DEF DInv

(* An instance: whatever requests and pipelines overlap, lose the worker or*)
(* fail, it does not stay in progress once they have ended, unless the     *)
(* Console restarted; and when none overlapped or lost the worker, its     *)
(* status tells what the worker has.  Any number of requests, ports and    *)
(* processes.                                                              *)
THEOREM DeploymentIsTrue == ASSUME Instances = {Inst} PROVE DeploymentSpec => []DeploymentHolds
<1>1. DeploymentInit => DInv
  BY DInit
<1>2. DInv /\ [DeploymentNext]_deploymentVars => DInv'
  BY DStep
<1>3. DInv => DeploymentHolds
  BY DHolds
<1> QED
  BY <1>1, <1>2, <1>3, PTL DEF DeploymentSpec

(* The worker inside is WorkerDriver: what is proved of it for any requests*)
(* (WorkerIsSafe) holds with the requests that the Console makes.          *)
THEOREM DeploymentUsesWorker == ASSUME Instances = {Inst} PROVE DeploymentSpec => Spec
<1>1. DeploymentInit => DInv /\ Init
  BY DInit DEF DeploymentInit
<1>2. DInv /\ [DeploymentNext]_deploymentVars => DInv' /\ [Next]_vars
  BY DStep
<1> QED
  BY <1>1, <1>2, PTL DEF DeploymentSpec, Spec
=============================================================================
