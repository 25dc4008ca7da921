-------------------------- MODULE VolumeEnforcement --------------------------
(***************************************************************************)
(* The volume and time limits of one instance: the Console's row in        *)
(* instance_volume, the loop enforce_all and the requests of the operator  *)
(* (console/api/emunel_console/services/volume.py, routers/instances.py),  *)
(* and the lifetime counter and cap of the Core they reach through the     *)
(* worker (core/emunel_core/app.py; how the Core applies its cap: QuotaGate*)
(* and the overshoot it allows, which is zero here).                       *)
(*                                                                         *)
(* Every query and every call of the Core is an await: the loop and the    *)
(* requests interleave there, each with the values it has read.            *)
(*                                                                         *)
(* Left out: the alerts and the opt-in stop of a Core that cannot be       *)
(* reached (StaleWatch), the activity log, and more than one instance.     *)
(***************************************************************************)
EXTENDS Naturals, FiniteSets

CONSTANTS
  Ops,           \* requests of the operator in flight
  Limits,        \* limits the operator sets, 0 = unlimited
  FirstLimit,    \* the limit the instance starts with
  Margin,        \* _REGRESSION_MARGIN_BYTES
  Resets,        \* TRUE: the operator resets the usage counter
  TimeEdits,     \* TRUE: the operator sends requests with a time limit only
  Losses,        \* TRUE: the Core can lose its state file
  OpsMayFail,    \* TRUE: a call of the Core by a request can fail
  LoopMayFail,   \* TRUE: a call of the Core by the loop can fail
  MaxTotal,      \* bound of the model: bytes the Core counts, and the
                 \* baseline a request may still reset
  MaxSpent       \* bound of the model: bytes relayed in a period

ASSUME VolumeAssumption ==
  /\ Limits \subseteq Nat /\ FirstLimit \in Nat \ {0}
  /\ Margin \in Nat /\ MaxTotal \in Nat /\ MaxSpent \in Nat
  /\ {Resets, TimeEdits, Losses, OpsMayFail, LoopMayFail} \subseteq BOOLEAN

VARIABLES
  row,      \* instance_volume: limit, baseline, cached usage, time limit
  status,   \* instances.status
  core,     \* the Core: running, RuntimeStats.total_bytes, instance_cap_bytes
  loop,     \* enforce_all: where it is and what it has read
  op,       \* requests of the operator: where each is and what it has read
  lost,     \* history: the Core has lost its state file
  spent,    \* history: bytes relayed in the period, until the Core
            \* loses its file
  granted,  \* history: the largest limit so far: a reset does not lower it, for
            \* the cap the Core has may still be that of an earlier limit
  repaired, \* history: what the first repair since the last request lets the
            \* Core count
  overtaken \* history: what was read before a reset has been stored after it

vars == <<row, status, core, loop, op, lost, spent, granted, repaired, overtaken>>
histVars == <<lost, spent, granted, repaired, overtaken>>

Max2(a, b) == IF a >= b THEN a ELSE b

(* Mutant of Minus: no max(0, ...).                                        *)
MinusSigned(a, b) == a - b

Minus(a, b) == IF a >= b THEN a - b ELSE 0

IdleLoop == [pc |-> "sleep", limit |-> 0, baseline |-> 0, cached |-> 0,
             total |-> 0, used |-> 0]
IdleOp == [pc |-> "idle", kind |-> "state", baseline |-> 0, cached |-> 0,
           total |-> 0, cap |-> 0]

Expired == row.expiry = "past"

-----------------------------------------------------------------------------
(* The Core relays a byte: cut off at its cap, 0 = unlimited.              *)
Relay ==
  /\ core.up
  /\ core.cap = 0 \/ core.total < core.cap
  /\ core.total < MaxTotal /\ spent < MaxSpent
  /\ core' = [core EXCEPT !.total = @ + 1]
  /\ spent' = IF lost THEN spent ELSE spent + 1
  /\ UNCHANGED <<row, status, loop, op, lost, granted, repaired, overtaken>>

(* The Core starts again without its state file.                           *)
LoseState ==
  /\ Losses /\ ~lost
  /\ core.up
  /\ core' = [core EXCEPT !.total = 0, !.cap = 0]
  /\ lost' = TRUE
  /\ repaired' = 0
  /\ UNCHANGED <<row, status, loop, op, spent, granted, overtaken>>

TimePasses ==
  /\ row.expiry = "future"
  /\ row' = [row EXCEPT !.expiry = "past"]
  /\ UNCHANGED <<status, core, loop, op, histVars>>

-----------------------------------------------------------------------------
(* enforce_all: the rows of the running instances that have a limit.       *)
Fetch ==
  /\ loop.pc = "sleep"
  /\ status = "running"
  /\ row.limit > 0 \/ row.expiry # "none"
  /\ loop' = [IdleLoop EXCEPT
                !.pc = IF Expired THEN "stop" ELSE IF row.limit > 0 THEN "quota" ELSE "sleep",
                !.limit = row.limit, !.baseline = row.baseline, !.cached = row.cached]
  /\ UNCHANGED <<row, status, core, op, histVars>>

LoopCallFails == LoopMayFail \/ ~core.up

(* Mutant of GetQuota: only a lost cap is noticed.                         *)
GetQuotaLost ==
  /\ loop.pc = "quota"
  /\ \/ /\ core.up
        /\ loop' = [loop EXCEPT !.pc = IF core.cap = 0 THEN "push" ELSE "total"]
     \/ LoopCallFails /\ loop' = [loop EXCEPT !.pc = "total"]
  /\ UNCHANGED <<row, status, core, op, histVars>>

(* _core_quota: a cap that is not baseline + limit has drifted.            *)
GetQuota ==
  /\ loop.pc = "quota"
  /\ \/ /\ core.up
        /\ loop' = [loop EXCEPT !.pc = IF core.cap # loop.baseline + loop.limit
                                       THEN "push" ELSE "total"]
     \/ LoopCallFails /\ loop' = [loop EXCEPT !.pc = "total"]
  /\ UNCHANGED <<row, status, core, op, histVars>>

(* PUT /core/api/quota by the loop, which goes on when it fails.           *)
LoopPut(pc, cap, next) ==
  /\ loop.pc = pc
  /\ loop' = [loop EXCEPT !.pc = next]
  /\ \/ core.up /\ core' = [core EXCEPT !.cap = cap]
     \/ LoopCallFails /\ UNCHANGED core
  /\ UNCHANGED <<row, status, op, lost, spent, granted, overtaken>>

(* Mutant of PushExpected: what was used is granted again.                 *)
PushRenewed ==
  /\ LoopPut("push", loop.baseline + loop.limit + loop.cached, "total")
  /\ UNCHANGED repaired

PushExpected ==
  /\ LoopPut("push", loop.baseline + loop.limit, "total")
  /\ UNCHANGED repaired

(* Mutant of Regressed: a counter that stands still looks wiped.           *)
RegressedOrEqual(used, cached) == cached > Margin /\ used <= cached

(* Live usage far below the cached one: the Core has lost its counter.     *)
Regressed(used, cached) == cached > Margin /\ used + Margin < cached

ReadTotal ==
  /\ loop.pc = "total"
  /\ \/ /\ core.up
        /\ LET used == Minus(core.total, loop.baseline) IN
           loop' = [loop EXCEPT !.total = core.total, !.used = used,
                                !.pc = IF Regressed(used, loop.cached)
                                       THEN "repair" ELSE "write"]
     \/ LoopCallFails /\ loop' = IdleLoop
  /\ UNCHANGED <<row, status, core, op, histVars>>

(* The repair: what was left of the limit is put on top of the new counter,*)
(* and the baseline moves there.                                           *)
PushRepaired ==
  LET cap == loop.total + Minus(loop.limit, loop.cached) IN
  /\ LoopPut("repair", cap, "rebase")
  /\ repaired' = IF repaired = 0 /\ cap > 0 /\ core.up
                 THEN Max2(cap, core.total) ELSE repaired

Rebase ==
  /\ loop.pc = "rebase"
  /\ row' = [row EXCEPT !.baseline = loop.total]
  /\ loop' = [loop EXCEPT !.pc = "write", !.used = loop.cached]
  /\ UNCHANGED <<status, core, op, histVars>>

(* What is stored now was worked out with this baseline.                   *)
StoredFrom(baseline) ==
  /\ overtaken' = (overtaken \/ baseline # row.baseline)
  /\ UNCHANGED <<lost, granted>>

(* Mutant of WriteUsed: the limit must be passed, not reached.             *)
WriteUsedPast ==
  /\ loop.pc = "write"
  /\ row' = [row EXCEPT !.cached = loop.used]
  /\ loop' = [IdleLoop EXCEPT !.pc = IF loop.used > loop.limit THEN "stop" ELSE "sleep"]
  /\ StoredFrom(loop.baseline)
  /\ UNCHANGED <<status, core, op, spent, repaired>>

(* used_cache, and the stop of an instance that has used its volume.       *)
WriteUsed ==
  /\ loop.pc = "write"
  /\ row' = [row EXCEPT !.cached = loop.used]
  /\ loop' = [IdleLoop EXCEPT !.pc = IF loop.used >= loop.limit THEN "stop" ELSE "sleep"]
  /\ StoredFrom(loop.baseline)
  /\ UNCHANGED <<status, core, op, spent, repaired>>

(* stop_instance: the call of the worker, which may fail after it stopped  *)
(* the Core, then the status.                                              *)
StopCore ==
  /\ loop.pc = "stop"
  /\ \/ core' = [core EXCEPT !.up = FALSE] /\ loop' = [loop EXCEPT !.pc = "stopped"]
     \/ /\ LoopMayFail
        /\ \E up \in {core.up, FALSE} : core' = [core EXCEPT !.up = up]
        /\ loop' = IdleLoop
  /\ UNCHANGED <<row, status, op, histVars>>

StopRow ==
  /\ loop.pc = "stopped"
  /\ status' = "stopped"
  /\ loop' = IdleLoop
  /\ UNCHANGED <<row, core, op, histVars>>

-----------------------------------------------------------------------------
(* A request starts with a query, and goes on to the step named.           *)
Start(o, kind, pc) ==
  /\ op[o].pc = "idle"
  /\ op' = [op EXCEPT ![o] = [IdleOp EXCEPT !.pc = pc, !.kind = kind]]

(* PUT /volume: set_limit stores the limit, 0 when the body names none.    *)
StoreLimit(o, kind, n) ==
  /\ Start(o, kind, "pushRead")
  /\ row' = [row EXCEPT !.limit = n]
  /\ granted' = IF n = 0 THEN MaxSpent ELSE Max2(granted, n)
  /\ repaired' = 0
  /\ UNCHANGED <<status, core, loop, lost, spent, overtaken>>

SetLimit(o, n) == n \in Limits /\ StoreLimit(o, "limit", n)

(* PUT /volume with time_limit_days only: the same call of set_limit first,*)
(* for the volume keys that are not there.  set_time_limit follows, as it  *)
(* does for a body with both.                                              *)
SetTime(o) == TimeEdits /\ StoreLimit(o, "time", 0)

StoreTime(o) ==
  /\ TimeEdits
  /\ op[o].pc = "stateRead" /\ op[o].kind \in {"limit", "time"}
  /\ \E e \in {"none", "future"} : row' = [row EXCEPT !.expiry = e]
  /\ op' = [op EXCEPT ![o].kind = "state"]
  /\ UNCHANGED <<status, core, loop, histVars>>

(* POST /volume/reset: reset_usage reads the row ...                       *)
Reset(o) ==
  /\ Resets /\ row.baseline < MaxTotal
  /\ op[o].pc = "idle"
  /\ op' = [op EXCEPT ![o] = [IdleOp EXCEPT !.pc = "resetTotal", !.kind = "reset",
                                            !.baseline = row.baseline,
                                            !.cached = row.cached]]
  /\ UNCHANGED <<row, status, core, loop, histVars>>

OpCallFails == OpsMayFail \/ ~core.up

(* ... and the live counter, or takes the cached usage for it ...          *)
ResetTotal(o) ==
  /\ op[o].pc = "resetTotal"
  /\ \/ core.up /\ op' = [op EXCEPT ![o].pc = "resetWrite",
                                    ![o].total = Max2(op[o].baseline, core.total)]
     \/ OpCallFails /\ op' = [op EXCEPT ![o].pc = "resetWrite",
                                        ![o].total = op[o].baseline + op[o].cached]
  /\ UNCHANGED <<row, status, core, loop, histVars>>

(* ... and stores it: a new accounting period starts.                      *)
ResetWrite(o) ==
  /\ op[o].pc = "resetWrite"
  /\ row' = [row EXCEPT !.baseline = op[o].total, !.cached = 0]
  /\ op' = [op EXCEPT ![o] = [IdleOp EXCEPT !.pc = "pushRead", !.kind = "reset"]]
  /\ spent' = Minus(core.total, op[o].total)
  /\ repaired' = 0
  /\ StoredFrom(op[o].baseline)
  /\ UNCHANGED <<status, core, loop>>

(* push_core_cap reads the row again and sends baseline + limit.           *)
PushRead(o) ==
  /\ op[o].pc = "pushRead"
  /\ op' = [op EXCEPT ![o].pc = "pushPut",
                      ![o].cap = IF row.limit = 0 THEN 0 ELSE row.baseline + row.limit]
  /\ UNCHANGED <<row, status, core, loop, histVars>>

PushPut(o) ==
  /\ op[o].pc = "pushPut"
  /\ op' = [op EXCEPT ![o].cap = 0,
                      ![o].pc = IF op[o].kind = "deploy" THEN "running" ELSE "stateRead"]
  /\ \/ core.up /\ core' = [core EXCEPT !.cap = op[o].cap]
     \/ OpCallFails /\ UNCHANGED core
  /\ UNCHANGED <<row, status, loop, histVars>>

(* get_state, called by GET /volume and at the end of the other requests:  *)
(* the usage it shows is also stored.                                      *)
Show(o) == Start(o, "state", "stateRead") /\ UNCHANGED <<row, status, core, loop, histVars>>

StateRead(o) ==
  /\ op[o].pc = "stateRead" /\ op[o].kind # "time"
  /\ op' = [op EXCEPT ![o].pc = "stateTotal", ![o].baseline = row.baseline]
  /\ UNCHANGED <<row, status, core, loop, histVars>>

StateTotal(o) ==
  /\ op[o].pc = "stateTotal"
  /\ \/ core.up /\ op' = [op EXCEPT ![o].pc = "stateWrite", ![o].total = core.total]
     \/ OpCallFails /\ op' = [op EXCEPT ![o] = IdleOp]
  /\ UNCHANGED <<row, status, core, loop, histVars>>

StateWrite(o) ==
  /\ op[o].pc = "stateWrite"
  /\ row' = [row EXCEPT !.cached = Minus(op[o].total, op[o].baseline)]
  /\ op' = [op EXCEPT ![o] = IdleOp]
  /\ StoredFrom(op[o].baseline)
  /\ UNCHANGED <<status, core, loop, spent, repaired>>

(* POST /deploy: refused by the cached usage and the time limit ...        *)
Deploy(o) ==
  /\ status # "starting"
  /\ row.limit = 0 \/ row.cached < row.limit
  /\ ~Expired
  /\ Start(o, "deploy", "launch")
  /\ UNCHANGED <<row, status, core, loop, histVars>>

(* ... launches the Core with its state file, pushes the cap ...           *)
Launch(o) ==
  /\ op[o].pc = "launch"
  /\ core' = [core EXCEPT !.up = TRUE]
  /\ status' = "starting"
  /\ op' = [op EXCEPT ![o].pc = "pushRead"]
  /\ UNCHANGED <<row, loop, histVars>>

(* ... or fails, and leaves behind what it had started ...                 *)
LaunchFails(o) ==
  /\ op[o].pc = "launch"
  /\ \E up \in {core.up, TRUE} : core' = [core EXCEPT !.up = up]
  /\ status' = "failed"
  /\ op' = [op EXCEPT ![o] = IdleOp]
  /\ UNCHANGED <<row, loop, histVars>>

(* ... and marks the instance running.                                     *)
MarkRunning(o) ==
  /\ op[o].pc = "running"
  /\ status' = "running"
  /\ op' = [op EXCEPT ![o] = IdleOp]
  /\ UNCHANGED <<row, core, loop, histVars>>

-----------------------------------------------------------------------------
Init ==
  /\ row = [limit |-> FirstLimit, baseline |-> 0, cached |-> 0, expiry |-> "none"]
  /\ status = "running"
  /\ core = [up |-> TRUE, total |-> 0, cap |-> FirstLimit]
  /\ loop = IdleLoop
  /\ op = [o \in Ops |-> IdleOp]
  /\ lost = FALSE
  /\ spent = 0
  /\ granted = FirstLimit
  /\ repaired = 0
  /\ overtaken = FALSE

Loop ==
  \/ Fetch \/ GetQuota \/ PushExpected \/ ReadTotal
  \/ PushRepaired \/ Rebase \/ WriteUsed \/ StopCore \/ StopRow

Request(o) ==
  \/ \E n \in Limits : SetLimit(o, n)
  \/ SetTime(o) \/ StoreTime(o)
  \/ Reset(o) \/ ResetTotal(o) \/ ResetWrite(o)
  \/ PushRead(o) \/ PushPut(o)
  \/ Show(o) \/ StateRead(o) \/ StateTotal(o) \/ StateWrite(o)
  \/ Deploy(o) \/ Launch(o) \/ LaunchFails(o) \/ MarkRunning(o)

Next == Relay \/ LoseState \/ TimePasses \/ Loop \/ \E o \in Ops : Request(o)

Spec == Init /\ [][Next]_vars

(* enforcement_loop runs for ever, and a request goes on until it ends.    *)
FairSpec ==
  /\ Spec
  /\ WF_vars(Loop)
  /\ \A o \in Ops : WF_vars(op[o].pc # "idle" /\ Request(o))

-----------------------------------------------------------------------------
TypeOK ==
  /\ row \in [limit : Nat, baseline : Nat, cached : Nat,
              expiry : {"none", "future", "past"}]
  /\ status \in {"running", "stopped", "starting", "failed"}
  /\ core \in [up : BOOLEAN, total : Nat, cap : Nat]
  /\ loop \in [pc : {"sleep", "quota", "push", "total", "repair", "rebase", "write",
                     "stop", "stopped"},
               limit : Nat, baseline : Nat, cached : Nat, total : Nat, used : Nat]
  /\ op \in [Ops -> [pc : {"idle", "resetTotal", "resetWrite", "pushRead", "pushPut",
                           "stateRead", "stateTotal", "stateWrite", "launch", "running"},
                     kind : {"state", "limit", "time", "reset", "deploy"},
                     baseline : Nat, cached : Nat, total : Nat, cap : Nat]]
  /\ lost \in BOOLEAN /\ spent \in Nat /\ granted \in Nat /\ repaired \in Nat
  /\ overtaken \in BOOLEAN

(* No accounting period relays more than the largest limit so far, however *)
(* the loop and the requests, the resets among them, interleave, and       *)
(* whichever of their calls fail: a cap worked out before a reset and sent *)
(* after it is harmless.  Excepted are a Core that has lost its file and a *)
(* usage or a counter read before a reset and stored after it.             *)
QuotaIsNotRenewed == ~lost /\ ~overtaken => spent <= granted

(* reset_usage: "everything transferred so far moves below the baseline":  *)
(* the usage in the row is of the period of its baseline.                  *)
UsageIsOfThePeriod == ~lost => row.baseline + row.cached <= core.total

(* "the cap was recomputed so only the REMAINING allowance survives": once *)
(* the loop has repaired a Core, and until a request changes the limit or  *)
(* resets the usage, the Core does not get past the repaired cap.          *)
RepairHolds == repaired > 0 => core.total <= repaired

(* The repair is for "a wiped Core state file" and for nothing else: no    *)
(* interleaving of edits, resets, deploys, queries and failing calls makes *)
(* a healthy counter look wiped, but for a usage read before a reset and   *)
(* stored after it.                                                        *)
RepairOnlyAfterLoss == [][Rebase => lost \/ overtaken]_vars

(* The loop reconciles drifted caps: however the pushes of the requests    *)
(* fail and race, the Core's cap does not stay wrong for ever.             *)
DriftIsReconciled ==
  []<>(~(status = "running" /\ core.up /\ row.limit > 0)
       \/ core.cap = row.baseline + row.limit)

(* The loop stops capped and expired instances: none stays running beyond  *)
(* its volume or its time for ever.                                        *)
OverdueIsStopped ==
  []<>~(/\ status = "running" /\ core.up
        /\ \/ Expired
           \/ row.limit > 0 /\ core.total >= row.baseline + row.limit)
=============================================================================
