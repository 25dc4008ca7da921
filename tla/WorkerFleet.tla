----------------------------- MODULE WorkerFleet -----------------------------
(***************************************************************************)
(* The Console's table of workers: the heartbeats that fill it             *)
(* (routers/internal.py), the administrator who switches a worker off and  *)
(* on (routers/admin.py), and the scheduler that reads it                  *)
(* (services/workers.py). A heartbeat is three statements; what it reports *)
(* was counted before it was sent, and deployments go on meanwhile.        *)
(***************************************************************************)
EXTENDS Naturals, FiniteSets

CONSTANTS
  Workers,      \* the nodes
  DefaultNode,  \* settings.default_worker_node
  RegionOf,     \* the region of each node
  Beats,        \* heartbeats under way
  Capacity,     \* capacity_instances of every node
  StaleAfter,   \* the 60 seconds after which a silent worker is offline
  BeatTime,     \* bound of the model: the time a heartbeat's handler takes
  LastTick, MaxPlaced  \* bounds of the model: time, and deployments in all

ASSUME FleetAssumption ==
  DefaultNode \in Workers /\ {Capacity, StaleAfter, BeatTime, LastTick, MaxPlaced} \subseteq Nat

VARIABLES
  table,    \* the workers table
  beat,     \* heartbeats sent or being handled
  load,     \* instances a node knows
  placing,  \* deployments on their way to a node
  time,
  made,     \* deployments made
  heard,    \* history: when the latest heartbeat written was handled
  since,    \* history: placements on a node that its row does not report: made
            \* or under way since the instances were counted
  swept     \* history: the time of the latest sweep, and who was disabled then

fleetVars == <<table, beat, load, placing, time, made, heard, since, swept>>

NoRow  == [status |-> "none", enabled |-> FALSE, instances |-> 0, last |-> 0]
NoBeat == [pc |-> "idle", node |-> DefaultNode, count |-> 0, at |-> 0, found |-> FALSE, since |-> 0]
Listed(n) == table[n].status # "none"

(* A behaviour explores either the passing of time or placements.          *)
FleetInit ==
  /\ table = [n \in Workers |-> NoRow]
  /\ beat = [b \in Beats |-> NoBeat]
  /\ load = [n \in Workers |-> 0] /\ placing = [n \in Workers |-> 0]
  /\ \/ time = 0 /\ made = MaxPlaced
     \/ time = LastTick /\ made = 0
  /\ heard = [n \in Workers |-> 0]
  /\ since = [n \in Workers |-> 0]
  /\ swept = [time |-> 0, off |-> {}]

-----------------------------------------------------------------------------
(* node_metrics counts the instances, and the heartbeat is posted. One that*)
(* timed out may still be handled when the next comes.                     *)
SendBeat(b, n) ==
  /\ beat[b].pc = "idle"
  /\ beat' = [beat EXCEPT ![b] = [NoBeat EXCEPT !.pc = "sent", !.node = n, !.count = load[n],
                                            !.since = placing[n]]]
  /\ UNCHANGED <<table, load, placing, time, made, heard, since, swept>>

BeatLost(b) ==
  /\ beat[b].pc = "sent"
  /\ beat' = [beat EXCEPT ![b] = NoBeat]
  /\ UNCHANGED <<table, load, placing, time, made, heard, since, swept>>

ReadWorker(b) ==
  /\ beat[b].pc = "sent"
  /\ beat' = [beat EXCEPT ![b].pc = "write", ![b].at = time, ![b].found = Listed(beat[b].node)]
  /\ UNCHANGED <<table, load, placing, time, made, heard, since, swept>>

(* INSERT, or UPDATE of the row: online, whatever it was.                  *)
WriteWorker(b) ==
  LET n == beat[b].node IN
  /\ beat[b].pc = "write"
  /\ beat[b].found \/ ~Listed(n)
  /\ table' = [table EXCEPT ![n] =
       [status |-> "online", enabled |-> beat[b].found => table[n].enabled,
        instances |-> beat[b].count, last |-> beat[b].at]]
  /\ heard' = [heard EXCEPT ![n] = IF @ > beat[b].at THEN @ ELSE beat[b].at]
  /\ since' = [since EXCEPT ![n] = beat[b].since]
  /\ beat' = [beat EXCEPT ![b] = [NoBeat EXCEPT !.pc = "sweep", !.at = beat[b].at]]
  /\ UNCHANGED <<load, placing, time, made, swept>>

(* Two first heartbeats of a node: node_id is UNIQUE, the second fails.    *)
InsertFails(b) ==
  /\ beat[b].pc = "write" /\ ~beat[b].found /\ Listed(beat[b].node)
  /\ beat' = [beat EXCEPT ![b] = NoBeat]
  /\ UNCHANGED <<table, load, placing, time, made, heard, since, swept>>

(* Mutant of Silent: the last heartbeat was a whole window ago.            *)
SilentEarly(n) == Listed(n) /\ table[n].enabled /\ time - table[n].last >= StaleAfter

Silent(n) == Listed(n) /\ table[n].enabled /\ time - table[n].last > StaleAfter

(* Every heartbeat ends with the sweep of the silent workers.              *)
Sweep(b) ==
  /\ beat[b].pc = "sweep"
  /\ table' = [n \in Workers |-> IF Silent(n) THEN [table[n] EXCEPT !.status = "offline"] ELSE table[n]]
  /\ swept' = [time |-> time, off |-> {n \in Workers : ~table[n].enabled}]
  /\ beat' = [beat EXCEPT ![b] = NoBeat]
  /\ UNCHANGED <<load, placing, time, made, heard, since>>

SetEnabled(n, on) ==
  /\ Listed(n) /\ table[n].enabled # on
  /\ table' = [table EXCEPT ![n].enabled = on]
  /\ UNCHANGED <<beat, load, placing, time, made, heard, since, swept>>

-----------------------------------------------------------------------------
(* Mutant of Eligible: a full worker has room.                             *)
EligibleFull(region) ==
  {n \in Workers : /\ table[n].status = "online" /\ table[n].enabled
                   /\ table[n].instances <= Capacity
                   /\ region \in {RegionOf[n], "any"}}

Eligible(region) ==
  {n \in Workers : /\ table[n].status = "online" /\ table[n].enabled
                   /\ table[n].instances < Capacity
                   /\ region \in {RegionOf[n], "any"}}

(* pick_worker: the least loaded; the first row the database returns among *)
(* equals.                                                                 *)
Best(region) ==
  {n \in Eligible(region) : \A m \in Eligible(region) : table[n].instances <= table[m].instances}

(* Without an eligible worker the default node is taken, whatever its row. *)
Pick(region, n) ==
  /\ n \in IF Eligible(region) = {} THEN {DefaultNode} ELSE Best(region)
  /\ made < MaxPlaced /\ made' = made + 1
  /\ placing' = [placing EXCEPT ![n] = @ + 1]
  /\ since' = [since EXCEPT ![n] = @ + 1]
  /\ beat' = [b \in Beats |-> IF beat[b].pc # "idle" /\ beat[b].node = n
                              THEN [beat[b] EXCEPT !.since = @ + 1] ELSE beat[b]]
  /\ UNCHANGED <<table, load, time, heard, swept>>

(* The launch gives the node an instance, or fails.                        *)
Placed(n, ok) ==
  /\ placing[n] > 0
  /\ placing' = [placing EXCEPT ![n] = @ - 1]
  /\ load' = [load EXCEPT ![n] = IF ok THEN @ + 1 ELSE @]
  /\ UNCHANGED <<table, beat, time, made, heard, since, swept>>

Unplaced(n) ==
  /\ load[n] > 0
  /\ load' = [load EXCEPT ![n] = @ - 1]
  /\ UNCHANGED <<table, beat, placing, time, made, heard, since, swept>>

FleetTick ==
  /\ time < LastTick
  /\ \A b \in Beats : beat[b].pc \in {"write", "sweep"} => time - beat[b].at < BeatTime
  /\ time' = time + 1
  /\ UNCHANGED <<table, beat, load, placing, made, heard, since, swept>>

-----------------------------------------------------------------------------
FleetTypeOK ==
  /\ table \in [Workers -> [status : {"none", "online", "offline"}, enabled : BOOLEAN,
                            instances : 0..MaxPlaced, last : 0..LastTick]]
  /\ \A b \in Beats : beat[b].pc \in {"idle", "sent", "write", "sweep"} /\ beat[b].node \in Workers

(* A worker that is heard of is not offline: it takes a silence of a whole *)
(* window, less what the handlers of two heartbeats that overtake each     *)
(* other may move its last_heartbeat back. And a dead one does not stay    *)
(* online past the next heartbeat of anyone, unless it was disabled then.  *)
OfflineMeansSilent ==
  \A n \in Workers :
    /\ table[n].status = "offline" => time + BeatTime > heard[n] + StaleAfter
    /\ table[n].status = "online" /\ table[n].enabled /\ n \notin swept.off
         => table[n].last + StaleAfter + BeatTime >= swept.time

(* A node other than the default one is given more than its capacity only  *)
(* by what its row cannot know: what was on its way when its instances were*)
(* counted, or was placed after, however heartbeats are late and overtake  *)
(* each other.                                                             *)
OvercommitIsBounded ==
  [][\A n \in Workers \ {DefaultNode} :
       placing'[n] > placing[n] => load[n] + placing[n] < Capacity + since[n]]_fleetVars

=============================================================================
