----------------------------- MODULE ConsoleProofs -----------------------------
(***************************************************************************)
(* Proofs about the parts of the Console in MCConsole.  The parts share no *)
(* variable: a step of the Console is a step of one part and leaves the    *)
(* variables of the others as they are, so that what is shown of a part    *)
(* alone holds of the Console.                                             *)
(***************************************************************************)
EXTENDS MCConsole, FiniteSetTheorems, SequenceTheorems, WellFoundedInduction, TLAPS

-----------------------------------------------------------------------------
(* The volume: every step of the Console is one of VolumeEnforcement, or   *)
(* leaves its variables alone.                                             *)
LEMMA VolumeStep == [Next]_consoleVars => [V!Next]_volumeVars
BY Zenon DEF Next, In, consoleVars
RowSet == [limit : Nat, baseline : Nat, cached : Nat, expiry : {"none", "future", "past"}]
CoreSet == [up : BOOLEAN, total : Nat, cap : Nat]
LoopSet == [pc : {"sleep", "quota", "push", "total", "repair", "rebase", "write", "stop", "stopped"},
            limit : Nat, baseline : Nat, cached : Nat, total : Nat, used : Nat]
OpSet == [pc : {"idle", "resetTotal", "resetWrite", "pushRead", "pushPut", "stateRead", "stateTotal",
                "stateWrite", "launch", "running"},
          kind : {"state", "limit", "time", "reset", "deploy"},
          baseline : Nat, cached : Nat, total : Nat, cap : Nat]

(* A cap under which no more than g is relayed.                            *)
Within(c, g) == g >= MaxSpent \/ (c > 0 /\ c <= g)

(* With n bytes on the counter of the Core, a period that begins at b and g*)
(* bytes granted to it: what the row, the loop and a request hold is not   *)
(* ahead of the Core nor of the period, and a cap on its way to the Core   *)
(* grants no more.  Nobody is about to rebase.                             *)
CapWithin(c, b, g) == g >= MaxSpent \/ (c > 0 /\ c <= b + g)

RowReads(w, n, g) == w.baseline + w.cached <= n /\ Within(w.limit, g)

LoopReads(l, b, n, g) ==
  /\ l.baseline <= b /\ l.baseline + l.cached <= n
  /\ l.pc \notin {"repair", "rebase"}
  /\ l.pc = "write" => l.baseline + l.used <= n
  /\ l.pc \in {"quota", "push"} => Within(l.limit, g)

OpReads(y, b, n, g) ==
  /\ y.baseline <= b /\ y.total <= n
  /\ y.pc = "resetTotal" => y.baseline + y.cached <= n
  /\ y.pc = "resetWrite" => y.baseline <= y.total
  /\ y.pc = "pushPut" => CapWithin(y.cap, b, g)

VolumeKept ==
  /\ RowReads(row, core.total, granted) /\ CapWithin(core.cap, row.baseline, granted)
  /\ core.total = row.baseline + spent /\ spent <= granted /\ spent <= MaxSpent
  /\ LoopReads(loop, row.baseline, core.total, granted)
  /\ \A o \in Ops : OpReads(op[o], row.baseline, core.total, granted)

VolumeInv == V!TypeOK /\ (~lost /\ ~overtaken => VolumeKept)

LEMMA VolumeStart == ConsoleInit => VolumeInv
<1> SUFFICES ASSUME V!Init PROVE VolumeInv
  BY DEF ConsoleInit
<1>1. V!TypeOK
  BY ConsoleAssumption DEF V!VolumeAssumption, V!Init, V!TypeOK, V!IdleLoop, V!IdleOp
<1>2. RowReads(row, core.total, granted) /\ CapWithin(core.cap, row.baseline, granted) /\ LoopReads(loop, row.baseline, core.total, granted)
  BY ConsoleAssumption DEF V!VolumeAssumption, V!Init, RowReads, LoopReads, Within, CapWithin, V!IdleLoop
<1>3. \A o \in Ops : OpReads(op[o], row.baseline, core.total, granted)
  BY DEF V!Init, OpReads, V!IdleOp
<1>4. core.total = row.baseline + spent /\ spent <= granted /\ spent <= MaxSpent
  BY ConsoleAssumption DEF V!VolumeAssumption, V!Init
<1> QED BY <1>1, <1>2, <1>3, <1>4 DEF VolumeInv, VolumeKept

LEMMA MinusIsNat ==
  \A a, b \in Nat : V!Minus(a, b) \in Nat /\ V!Minus(a, b) <= a /\ V!Max2(a, b) \in Nat /\ a + b \in Nat
BY DEF V!Minus, V!Max2

OpRecord ==
  [pc : {"idle", "resetTotal", "resetWrite", "pushRead", "pushPut",
         "stateRead", "stateTotal", "stateWrite", "launch", "running"},
   kind : {"state", "limit", "time", "reset", "deploy"},
   baseline : Nat, cached : Nat, total : Nat, cap : Nat]

LEMMA VolumeTypes == V!TypeOK /\ [V!Next]_volumeVars => V!TypeOK'
<1> SUFFICES ASSUME V!TypeOK, [V!Next]_volumeVars PROVE V!TypeOK'
  OBVIOUS
<1> USE ConsoleAssumption DEF V!VolumeAssumption, V!TypeOK, V!histVars
<1>1. CASE V!Relay
  BY <1>1 DEF V!Relay
<1>2. CASE V!LoseState
  BY <1>2 DEF V!LoseState
<1>3. CASE V!TimePasses
  BY <1>3 DEF V!TimePasses
<1>4. CASE V!Fetch
  BY <1>4 DEF V!Fetch, V!Expired, V!IdleLoop
<1>5. CASE V!GetQuota
  BY <1>5 DEF V!GetQuota, V!LoopCallFails
<1>6. CASE V!PushExpected
  BY <1>6 DEF V!PushExpected, V!LoopPut, V!LoopCallFails
<1>7. CASE V!ReadTotal
  <2>1. CASE loop' = V!IdleLoop
    BY <1>7, <2>1 DEF V!ReadTotal, V!IdleLoop
  <2>2. CASE /\ core.up
             /\ LET used == V!Minus(core.total, loop.baseline) IN
                loop' = [loop EXCEPT !.total = core.total, !.used = used,
                                     !.pc = IF V!Regressed(used, loop.cached)
                                            THEN "repair" ELSE "write"]
    <3>1. core.total \in Nat /\ V!Minus(core.total, loop.baseline) \in Nat
      BY MinusIsNat
    <3>2. loop' \in [pc : {"sleep", "quota", "push", "total", "repair", "rebase", "write",
                           "stop", "stopped"},
                     limit : Nat, baseline : Nat, cached : Nat, total : Nat, used : Nat]
      BY <2>2, <3>1, Zenon
    <3> QED BY <1>7, <3>2 DEF V!ReadTotal
  <2> QED BY <1>7, <2>1, <2>2, Zenon DEF V!ReadTotal
<1>8. CASE V!PushRepaired
  BY <1>8 DEF V!PushRepaired, V!LoopPut, V!LoopCallFails, V!Minus, V!Max2
<1>9. CASE V!Rebase
  BY <1>9 DEF V!Rebase
<1>10. CASE V!WriteUsed
  BY <1>10 DEF V!WriteUsed, V!StoredFrom, V!IdleLoop
<1>11. CASE V!StopCore
  <2>1. core' \in [up : BOOLEAN, total : Nat, cap : Nat]
    BY <1>11, Zenon DEF V!StopCore
  <2>2. loop' \in [pc : {"sleep", "quota", "push", "total", "repair", "rebase", "write",
                         "stop", "stopped"},
                   limit : Nat, baseline : Nat, cached : Nat, total : Nat, used : Nat]
    BY <1>11 DEF V!StopCore, V!IdleLoop
  <2> QED BY <1>11, <2>1, <2>2 DEF V!StopCore
<1>12. CASE V!StopRow
  BY <1>12 DEF V!StopRow, V!IdleLoop
<1>13. ASSUME NEW o \in Ops, NEW k \in Limits, V!SetLimit(o, k) PROVE V!TypeOK'
  BY <1>13 DEF V!SetLimit, V!StoreLimit, V!Start, V!IdleOp, V!Max2
<1>14. ASSUME NEW o \in Ops, V!SetTime(o) PROVE V!TypeOK'
  BY <1>14 DEF V!SetTime, V!StoreLimit, V!Start, V!IdleOp, V!Max2
<1>15. ASSUME NEW o \in Ops, V!StoreTime(o) PROVE V!TypeOK'
  BY <1>15 DEF V!StoreTime
<1>16. ASSUME NEW o \in Ops, V!Reset(o) PROVE V!TypeOK'
  BY <1>16 DEF V!Reset, V!IdleOp
<1>17. ASSUME NEW o \in Ops, V!ResetTotal(o) PROVE V!TypeOK'
  BY <1>17 DEF V!ResetTotal, V!OpCallFails, V!Max2
<1>18. ASSUME NEW o \in Ops, V!ResetWrite(o) PROVE V!TypeOK'
  <2>1. /\ op' = [op EXCEPT ![o] = [V!IdleOp EXCEPT !.pc = "pushRead", !.kind = "reset"]]
        /\ row' = [row EXCEPT !.baseline = op[o].total, !.cached = 0]
        /\ spent' = V!Minus(core.total, op[o].total) /\ repaired' = 0
        /\ overtaken' = (overtaken \/ op[o].baseline # row.baseline)
        /\ UNCHANGED <<status, core, loop, lost, granted>>
    BY <1>18, Zenon DEF V!ResetWrite, V!StoredFrom
  <2>2. /\ row' \in [limit : Nat, baseline : Nat, cached : Nat, expiry : {"none", "future", "past"}]
        /\ spent' \in Nat
    BY <2>1, MinusIsNat, ZenonT(60)
  <2>3. op' \in [Ops -> OpRecord]
    <3>1. [V!IdleOp EXCEPT !.pc = "pushRead", !.kind = "reset"] \in OpRecord
      BY DEF V!IdleOp, OpRecord
    <3>2. op \in [Ops -> OpRecord]
      BY DEF OpRecord
    <3> QED BY <2>1, <3>1, <3>2, Zenon
  <2>4. overtaken' \in BOOLEAN
    BY <2>1, Zenon
  <2> HIDE DEF V!VolumeAssumption
  <2> QED BY <2>1, <2>2, <2>3, <2>4 DEF OpRecord
<1>19. ASSUME NEW o \in Ops, V!PushRead(o) PROVE V!TypeOK'
  <2> DEFINE c == IF row.limit = 0 THEN 0 ELSE row.baseline + row.limit
             y == [op[o] EXCEPT !.pc = "pushPut", !.cap = c]
  <2>1. c \in Nat
    BY MinusIsNat, Zenon
  <2>2. op' = [op EXCEPT ![o] = y]
    BY <1>19, Zenon DEF V!PushRead
  <2> HIDE DEF c
  <2>3. y \in OpRecord
    BY <2>1, ZenonT(60) DEF OpRecord
  <2> HIDE DEF y
  <2>4. op' \in [Ops -> OpRecord]
    BY <2>2, <2>3, Zenon DEF OpRecord
  <2> HIDE DEF V!VolumeAssumption
  <2>5. UNCHANGED <<row, status, core, loop, V!histVars>>
    BY <1>19, Zenon DEF V!PushRead
  <2> QED BY <2>4, <2>5 DEF OpRecord
<1>20. ASSUME NEW o \in Ops, V!PushPut(o) PROVE V!TypeOK'
  BY <1>20 DEF V!PushPut, V!OpCallFails
<1>21. ASSUME NEW o \in Ops, V!Show(o) PROVE V!TypeOK'
  BY <1>21 DEF V!Show, V!Start, V!IdleOp
<1>22. ASSUME NEW o \in Ops, V!StateRead(o) PROVE V!TypeOK'
  <2> DEFINE y == [op[o] EXCEPT !.pc = "stateTotal", !.baseline = row.baseline]
  <2>1. op' = [op EXCEPT ![o] = y]
    BY <1>22, Zenon DEF V!StateRead
  <2>2. y \in OpRecord
    BY ZenonT(60) DEF OpRecord
  <2> HIDE DEF y
  <2>3. op' \in [Ops -> OpRecord]
    BY <2>1, <2>2, Zenon DEF OpRecord
  <2> HIDE DEF V!VolumeAssumption
  <2>4. UNCHANGED <<row, status, core, loop, V!histVars>>
    BY <1>22, Zenon DEF V!StateRead
  <2> QED BY <2>3, <2>4 DEF OpRecord
<1>23. ASSUME NEW o \in Ops, V!StateTotal(o) PROVE V!TypeOK'
  BY <1>23 DEF V!StateTotal, V!OpCallFails, V!IdleOp
<1>24. ASSUME NEW o \in Ops, V!StateWrite(o) PROVE V!TypeOK'
  BY <1>24 DEF V!StateWrite, V!StoredFrom, V!Minus, V!IdleOp
<1>25. ASSUME NEW o \in Ops, V!Deploy(o) PROVE V!TypeOK'
  BY <1>25 DEF V!Deploy, V!Start, V!IdleOp, V!Expired
<1>26. ASSUME NEW o \in Ops, V!Launch(o) PROVE V!TypeOK'
  BY <1>26, ZenonT(60) DEF V!Launch
<1>27. ASSUME NEW o \in Ops, V!LaunchFails(o) PROVE V!TypeOK'
  BY <1>27 DEF V!LaunchFails, V!IdleOp
<1>28. ASSUME NEW o \in Ops, V!MarkRunning(o) PROVE V!TypeOK'
  BY <1>28 DEF V!MarkRunning, V!IdleOp
<1>29. CASE UNCHANGED volumeVars
  BY <1>29 DEF volumeVars
<1> QED BY <1>1, <1>2, <1>3, <1>4, <1>5, <1>6, <1>7, <1>8, <1>9, <1>10, <1>11, <1>12, <1>13, <1>14, <1>15, <1>16, <1>17, <1>18, <1>19, <1>20, <1>21, <1>22, <1>23, <1>24, <1>25, <1>26, <1>27, <1>28, <1>29, Zenon DEF V!Next, V!Loop, V!Request

(* A step that leaves counter and grants alone.                            *)
LEMMA KeptFrom ==
  ASSUME VolumeKept, core'.total = core.total, granted' = granted, spent' = spent,
         row'.baseline = row.baseline,
         CapWithin(core'.cap, row.baseline, granted), RowReads(row', core.total, granted),
         LoopReads(loop', row.baseline, core.total, granted),
         \A o \in Ops : OpReads(op'[o], row.baseline, core.total, granted)
  PROVE  VolumeKept'
BY DEF VolumeKept, RowReads, LoopReads, OpReads, Within, CapWithin

LEMMA VolumeActs ==
  ASSUME row \in RowSet, core \in CoreSet, loop \in LoopSet, op \in [Ops -> OpSet],
         spent \in Nat, granted \in Nat, ~lost, ~lost', ~overtaken, ~overtaken', VolumeKept, V!Next
  PROVE  VolumeKept'
<1>1. /\ RowReads(row, core.total, granted) /\ CapWithin(core.cap, row.baseline, granted)
      /\ core.total = row.baseline + spent /\ spent <= granted /\ spent <= MaxSpent
      /\ LoopReads(loop, row.baseline, core.total, granted)
      /\ \A o \in Ops : OpReads(op[o], row.baseline, core.total, granted)
  BY DEF VolumeKept
<1>2. /\ core.total \in Nat /\ core.cap \in Nat
      /\ row.limit \in Nat /\ row.cached \in Nat /\ row.baseline \in Nat
  BY DEF CoreSet, RowSet
<1>3. ASSUME V!TimePasses PROVE VolumeKept'
  <2>1. granted' = granted /\ spent' = spent /\ core' = core /\ loop' = loop /\ op' = op
    BY <1>3, <1>1, SMT DEF V!TimePasses, V!histVars
  <2>2. row'.baseline = row.baseline /\ RowReads(row', core.total, granted)
    BY <1>3, <1>1, <1>2, SMT DEF V!TimePasses, RowSet, RowReads, LoopReads, OpReads, LoopSet, OpSet
  <2> QED BY <1>1, <2>1, <2>2, KeptFrom
<1>4. ASSUME V!Fetch PROVE VolumeKept'
  <2>1. granted' = granted /\ spent' = spent /\ row' = row /\ core' = core /\ op' = op
    BY <1>4, <1>1, SMT DEF V!Fetch, V!Expired, V!IdleLoop, V!histVars
  <2>2. LoopReads(loop', row.baseline, core.total, granted)
    BY <1>4, <1>1, <1>2, SMT DEF V!Fetch, V!Expired, V!IdleLoop, LoopSet, LoopReads, RowReads, Within, CapWithin
  <2> QED BY <1>1, <2>1, <2>2, KeptFrom
<1>5. ASSUME V!GetQuota PROVE VolumeKept'
  <2>1. granted' = granted /\ spent' = spent /\ row' = row /\ core' = core /\ op' = op
    BY <1>5, <1>1, SMT DEF V!GetQuota, V!LoopCallFails, V!histVars
  <2>2. LoopReads(loop', row.baseline, core.total, granted)
    BY <1>5, <1>1, <1>2, SMT DEF V!GetQuota, V!LoopCallFails, LoopSet, LoopReads, RowReads, Within, CapWithin
  <2> QED BY <1>1, <2>1, <2>2, KeptFrom
<1>6. ASSUME V!PushExpected PROVE VolumeKept'
  <2>1. granted' = granted /\ spent' = spent /\ row' = row /\ op' = op
    BY <1>6, <1>1, SMT DEF V!PushExpected, V!LoopPut, V!LoopCallFails, V!histVars
  <2>2. core'.total = core.total /\ CapWithin(core'.cap, row.baseline, granted)
    <3>1. CapWithin(loop.baseline + loop.limit, row.baseline, granted)
      BY <1>6, <1>1, SMT DEF V!PushExpected, V!LoopPut, LoopReads, LoopSet, RowSet, Within, CapWithin
    <3>2. core' = core \/ core' = [core EXCEPT !.cap = loop.baseline + loop.limit]
      BY <1>6, Zenon DEF V!PushExpected, V!LoopPut
    <3> QED BY <1>1, <3>1, <3>2, SMT DEF CoreSet
  <2>3. LoopReads(loop', row.baseline, core.total, granted)
    BY <1>6, <1>1, <1>2, SMT DEF V!PushExpected, V!LoopPut, V!LoopCallFails, LoopSet, LoopReads, RowReads, Within, CapWithin
  <2> QED BY <1>1, <2>1, <2>2, <2>3, KeptFrom
<1>7. ASSUME V!ReadTotal PROVE VolumeKept'
  <2>1. granted' = granted /\ spent' = spent /\ row' = row /\ core' = core /\ op' = op
    BY <1>7, <1>1, SMT DEF V!ReadTotal, V!LoopCallFails, V!IdleLoop, V!Minus, V!histVars
  <2>2. LoopReads(loop', row.baseline, core.total, granted)
    <3>1. CASE loop' = V!IdleLoop
      BY <3>1, <1>2, SMT DEF V!IdleLoop, LoopReads
    <3>2. CASE loop' = [loop EXCEPT !.total = core.total, !.used = V!Minus(core.total, loop.baseline),
                                    !.pc = IF V!Regressed(V!Minus(core.total, loop.baseline), loop.cached)
                                           THEN "repair" ELSE "write"]
      <4>1. /\ loop.baseline \in Nat /\ loop.cached \in Nat
            /\ loop.baseline + V!Minus(core.total, loop.baseline) = core.total
        BY <1>1, <1>2, SMT DEF V!Minus, LoopReads, LoopSet
      <4> DEFINE used == V!Minus(core.total, loop.baseline)
      <4>2. ~V!Regressed(used, loop.cached)
        <5>1. used \in Nat
          BY <1>2, <4>1, MinusIsNat
        <5> HIDE DEF used
        <5>2. loop.baseline + loop.cached <= loop.baseline + used
          BY <1>1, <4>1 DEF LoopReads, used
        <5>3. loop.cached <= used
          BY <4>1, <5>1, <5>2, SMT
        <5> QED BY <4>1, <5>1, <5>3, ConsoleAssumption, SMT DEF V!Regressed, V!VolumeAssumption
      <4>3. loop' = [loop EXCEPT !.total = core.total, !.used = used, !.pc = "write"]
        BY <3>2, <4>2, Zenon
      <4>4. /\ loop'.pc = "write" /\ loop'.used = used
            /\ loop'.baseline = loop.baseline /\ loop'.cached = loop.cached
        BY <4>3, Zenon DEF LoopSet
      <4> HIDE DEF used
      <4>5. loop.baseline + used = core.total
        BY <4>1 DEF used
      <4>6. loop'.baseline + loop'.used <= core.total
        BY <1>2, <4>4, <4>5, SMT
      <4> QED BY <1>1, <1>2, <4>4, <4>6, SMT DEF LoopReads
    <3> QED BY <1>7, <3>1, <3>2, Zenon DEF V!ReadTotal
  <2> QED BY <1>1, <2>1, <2>2, KeptFrom
<1>8. ASSUME V!WriteUsed PROVE VolumeKept'
  <2>1. granted' = granted /\ spent' = spent /\ core' = core /\ op' = op
    BY <1>8, <1>1, SMT DEF V!WriteUsed, V!StoredFrom, V!IdleLoop, V!histVars
  <2>2. row'.baseline = row.baseline /\ RowReads(row', core.total, granted)
    <3>1. loop.baseline = row.baseline
      BY <1>8 DEF V!WriteUsed, V!StoredFrom
    <3>2. row.baseline + loop.used <= core.total
      BY <1>1, <1>8, <3>1 DEF LoopReads, V!WriteUsed
    <3>3. row'.baseline = row.baseline /\ row'.cached = loop.used /\ row'.limit = row.limit
      BY <1>8, Zenon DEF V!WriteUsed, RowSet
    <3> QED BY <1>1, <3>2, <3>3, Zenon DEF RowReads
  <2>3. LoopReads(loop', row.baseline, core.total, granted)
    BY <1>8, <1>1, <1>2, SMT DEF V!WriteUsed, V!IdleLoop, LoopSet, LoopReads, RowReads, Within, CapWithin
  <2> QED BY <1>1, <2>1, <2>2, <2>3, KeptFrom
<1>9. ASSUME V!StopCore PROVE VolumeKept'
  <2>1. granted' = granted /\ spent' = spent /\ row' = row /\ op' = op
    BY <1>9, <1>1, SMT DEF V!StopCore, V!IdleLoop, V!histVars
  <2>2. core'.total = core.total /\ CapWithin(core'.cap, row.baseline, granted)
    BY <1>9, <1>1, <1>2, SMT DEF V!StopCore, V!IdleLoop, CoreSet, Within, CapWithin, OpReads, LoopReads
  <2>3. LoopReads(loop', row.baseline, core.total, granted)
    BY <1>9, <1>1, <1>2, SMT DEF V!StopCore, V!IdleLoop, LoopSet, LoopReads, RowReads, Within, CapWithin
  <2> QED BY <1>1, <2>1, <2>2, <2>3, KeptFrom
<1>10. ASSUME V!StopRow PROVE VolumeKept'
  <2>1. granted' = granted /\ spent' = spent /\ row' = row /\ core' = core /\ op' = op
    BY <1>10, <1>1, SMT DEF V!StopRow, V!IdleLoop, V!histVars
  <2>2. LoopReads(loop', row.baseline, core.total, granted)
    BY <1>10, <1>1, <1>2, SMT DEF V!StopRow, V!IdleLoop, LoopSet, LoopReads, RowReads, Within, CapWithin
  <2> QED BY <1>1, <2>1, <2>2, KeptFrom
<1>11. ASSUME NEW o \in Ops, V!StoreTime(o) PROVE VolumeKept'
  <2>1. granted' = granted /\ spent' = spent /\ core' = core /\ loop' = loop
    BY <1>11, <1>1, SMT DEF V!StoreTime, V!histVars
  <2>2. row'.baseline = row.baseline /\ RowReads(row', core.total, granted)
    BY <1>11, <1>1, <1>2, SMT DEF V!StoreTime, RowSet, RowReads, LoopReads, OpReads, LoopSet, OpSet
  <2>3. \A p \in Ops : OpReads(op'[p], row.baseline, core.total, granted)
    BY <1>11, <1>1, <1>2, SMT DEF V!StoreTime, OpSet, OpReads, RowReads, Within, CapWithin, RowSet
  <2> QED BY <1>1, <2>1, <2>2, <2>3, KeptFrom
<1>12. ASSUME NEW o \in Ops, V!PushRead(o) PROVE VolumeKept'
  <2>1. granted' = granted /\ spent' = spent /\ row' = row /\ core' = core /\ loop' = loop
    BY <1>12, <1>1, SMT DEF V!PushRead, V!histVars
  <2>2. \A p \in Ops : OpReads(op'[p], row.baseline, core.total, granted)
    BY <1>12, <1>1, <1>2, SMT DEF V!PushRead, OpSet, OpReads, RowReads, Within, CapWithin, RowSet
  <2> QED BY <1>1, <2>1, <2>2, KeptFrom
<1>13. ASSUME NEW o \in Ops, V!PushPut(o) PROVE VolumeKept'
  <2>1. granted' = granted /\ spent' = spent /\ row' = row /\ loop' = loop
    BY <1>13, <1>1, SMT DEF V!PushPut, V!OpCallFails, V!histVars
  <2>2. core'.total = core.total /\ CapWithin(core'.cap, row.baseline, granted)
    BY <1>13, <1>1, <1>2, SMT DEF V!PushPut, V!OpCallFails, CoreSet, Within, CapWithin, OpReads, LoopReads
  <2>3. \A p \in Ops : OpReads(op'[p], row.baseline, core.total, granted)
    BY <1>13, <1>1, <1>2, SMT DEF V!PushPut, V!OpCallFails, OpSet, OpReads, RowReads, Within, CapWithin, RowSet
  <2> QED BY <1>1, <2>1, <2>2, <2>3, KeptFrom
<1>14. ASSUME NEW o \in Ops, V!Show(o) PROVE VolumeKept'
  <2>1. granted' = granted /\ spent' = spent /\ row' = row /\ core' = core /\ loop' = loop
    BY <1>14, <1>1, SMT DEF V!Show, V!Start, V!IdleOp, V!histVars
  <2>2. \A p \in Ops : OpReads(op'[p], row.baseline, core.total, granted)
    BY <1>14, <1>1, <1>2, SMT DEF V!Show, V!Start, V!IdleOp, OpSet, OpReads, RowReads, Within, CapWithin, RowSet
  <2> QED BY <1>1, <2>1, <2>2, KeptFrom
<1>15. ASSUME NEW o \in Ops, V!StateRead(o) PROVE VolumeKept'
  <2>1. granted' = granted /\ spent' = spent /\ row' = row /\ core' = core /\ loop' = loop
    BY <1>15, <1>1, SMT DEF V!StateRead, V!histVars
  <2>2. \A p \in Ops : OpReads(op'[p], row.baseline, core.total, granted)
    BY <1>15, <1>1, <1>2, SMT DEF V!StateRead, OpSet, OpReads, RowReads, Within, CapWithin, RowSet
  <2> QED BY <1>1, <2>1, <2>2, KeptFrom
<1>16. ASSUME NEW o \in Ops, V!StateTotal(o) PROVE VolumeKept'
  <2>1. granted' = granted /\ spent' = spent /\ row' = row /\ core' = core /\ loop' = loop
    BY <1>16, <1>1, SMT DEF V!StateTotal, V!OpCallFails, V!IdleOp, V!histVars
  <2>2. \A p \in Ops : OpReads(op'[p], row.baseline, core.total, granted)
    BY <1>16, <1>1, <1>2, SMT DEF V!StateTotal, V!OpCallFails, V!IdleOp, OpSet, OpReads, RowReads, Within, CapWithin, RowSet
  <2> QED BY <1>1, <2>1, <2>2, KeptFrom
<1>17. ASSUME NEW o \in Ops, V!StateWrite(o) PROVE VolumeKept'
  <2>1. granted' = granted /\ spent' = spent /\ core' = core /\ loop' = loop
    BY <1>17, <1>1, SMT DEF V!StateWrite, V!StoredFrom, V!Minus, V!IdleOp, V!histVars
  <2>2. row'.baseline = row.baseline /\ RowReads(row', core.total, granted)
    <3>1. op[o].baseline = row.baseline /\ op[o].total <= core.total /\ op[o].total \in Nat
      BY <1>1, <1>17 DEF V!StateWrite, V!StoredFrom, OpReads, OpSet
    <3>2. /\ row'.baseline = row.baseline /\ row'.limit = row.limit
          /\ row'.cached = V!Minus(op[o].total, row.baseline)
      BY <1>17, <3>1, Zenon DEF V!StateWrite, RowSet
    <3>3. row.baseline \in Nat /\ spent \in Nat
      BY DEF RowSet
    <3>4. row.baseline + V!Minus(op[o].total, row.baseline) <= core.total
      BY <1>1, <1>2, <3>1, <3>3, SMT DEF V!Minus
    <3> QED BY <1>1, <3>2, <3>4, Zenon DEF RowReads
  <2>3. \A p \in Ops : OpReads(op'[p], row.baseline, core.total, granted)
    BY <1>17, <1>1, <1>2, SMT DEF V!StateWrite, V!Minus, V!IdleOp, OpSet, OpReads, RowReads, Within, CapWithin, RowSet
  <2> QED BY <1>1, <2>1, <2>2, <2>3, KeptFrom
<1>18. ASSUME NEW o \in Ops, V!Deploy(o) PROVE VolumeKept'
  <2>1. granted' = granted /\ spent' = spent /\ row' = row /\ core' = core /\ loop' = loop
    BY <1>18, <1>1, SMT DEF V!Deploy, V!Start, V!IdleOp, V!Expired, V!histVars
  <2>2. \A p \in Ops : OpReads(op'[p], row.baseline, core.total, granted)
    BY <1>18, <1>1, <1>2, SMT DEF V!Deploy, V!Start, V!IdleOp, V!Expired, OpSet, OpReads, RowReads, Within, CapWithin, RowSet
  <2> QED BY <1>1, <2>1, <2>2, KeptFrom
<1>19. ASSUME NEW o \in Ops, V!Launch(o) PROVE VolumeKept'
  <2>1. granted' = granted /\ spent' = spent /\ row' = row /\ loop' = loop
    BY <1>19, <1>1, SMT DEF V!Launch, V!histVars
  <2>2. core'.total = core.total /\ CapWithin(core'.cap, row.baseline, granted)
    BY <1>19, <1>1, <1>2, SMT DEF V!Launch, CoreSet, Within, CapWithin, OpReads, LoopReads
  <2>3. \A p \in Ops : OpReads(op'[p], row.baseline, core.total, granted)
    BY <1>19, <1>1, <1>2, SMT DEF V!Launch, OpSet, OpReads, RowReads, Within, CapWithin, RowSet
  <2> QED BY <1>1, <2>1, <2>2, <2>3, KeptFrom
<1>20. ASSUME NEW o \in Ops, V!LaunchFails(o) PROVE VolumeKept'
  <2>1. granted' = granted /\ spent' = spent /\ row' = row /\ loop' = loop
    BY <1>20, <1>1, SMT DEF V!LaunchFails, V!IdleOp, V!histVars
  <2>2. core'.total = core.total /\ CapWithin(core'.cap, row.baseline, granted)
    BY <1>20, <1>1, <1>2, SMT DEF V!LaunchFails, V!IdleOp, CoreSet, Within, CapWithin, OpReads, LoopReads
  <2>3. \A p \in Ops : OpReads(op'[p], row.baseline, core.total, granted)
    BY <1>20, <1>1, <1>2, SMT DEF V!LaunchFails, V!IdleOp, OpSet, OpReads, RowReads, Within, CapWithin, RowSet
  <2> QED BY <1>1, <2>1, <2>2, <2>3, KeptFrom
<1>21. ASSUME NEW o \in Ops, V!MarkRunning(o) PROVE VolumeKept'
  <2>1. granted' = granted /\ spent' = spent /\ row' = row /\ core' = core /\ loop' = loop
    BY <1>21, <1>1, SMT DEF V!MarkRunning, V!IdleOp, V!histVars
  <2>2. \A p \in Ops : OpReads(op'[p], row.baseline, core.total, granted)
    BY <1>21, <1>1, <1>2, SMT DEF V!MarkRunning, V!IdleOp, OpSet, OpReads, RowReads, Within, CapWithin, RowSet
  <2> QED BY <1>1, <2>1, <2>2, KeptFrom
<1>22. ASSUME V!Relay PROVE VolumeKept'
  <2>1. /\ core'.total = core.total + 1 /\ core'.cap = core.cap /\ spent' = spent + 1
        /\ granted' = granted /\ row' = row /\ loop' = loop /\ op' = op
        /\ core.cap = 0 \/ core.total < core.cap
        /\ spent < MaxSpent
    BY <1>22, SMT DEF V!Relay, CoreSet
  <2>2. row.baseline \in Nat /\ core.total + 1 = row.baseline + (spent + 1)
    BY <1>1, <1>2, SMT DEF RowSet
  <2>3. spent + 1 <= granted /\ spent + 1 <= MaxSpent
    BY <1>1, <1>2, <2>1, <2>2, ConsoleAssumption, SMT DEF CapWithin, V!VolumeAssumption
  <2>4. RowReads(row, core.total + 1, granted) /\ LoopReads(loop, row.baseline, core.total + 1, granted)
    BY <1>1, <1>2, SMT DEF RowReads, RowSet, LoopReads, LoopSet
  <2>5. ASSUME NEW o \in Ops PROVE OpReads(op[o], row.baseline, core.total + 1, granted)
    <3>1. /\ op[o].total \in Nat /\ op[o].baseline \in Nat /\ op[o].cached \in Nat
          /\ OpReads(op[o], row.baseline, core.total, granted)
      BY <1>1 DEF OpSet
    <3> QED BY <3>1, <1>2, SMT DEF OpReads
  <2> QED BY <1>1, <2>1, <2>2, <2>3, <2>4, <2>5, Zenon DEF VolumeKept
<1>23. ASSUME NEW o \in Ops, NEW k \in Nat, NEW kind \in {"limit", "time"}, V!StoreLimit(o, kind, k)
       PROVE  VolumeKept'
  <2>1. /\ row'.limit = k /\ row'.baseline = row.baseline /\ row'.cached = row.cached
        /\ core' = core /\ loop' = loop /\ spent' = spent
    BY <1>23, Zenon DEF V!StoreLimit, RowSet
  <2>2. granted' \in Nat /\ (granted' >= MaxSpent \/ (granted' >= granted /\ k > 0 /\ k <= granted'))
    BY <1>23, ConsoleAssumption, SMT DEF V!StoreLimit, V!Max2, V!VolumeAssumption
  <2>3. ASSUME NEW c \in Nat
        PROVE  /\ Within(c, granted) => Within(c, granted')
               /\ CapWithin(c, row.baseline, granted) => CapWithin(c, row.baseline, granted')
    BY <2>2, <2>3, ConsoleAssumption, SMT DEF Within, CapWithin, V!VolumeAssumption, RowSet
  <2>4. Within(k, granted') /\ spent <= granted'
    BY <1>1, <2>2, ConsoleAssumption, SMT DEF Within, V!VolumeAssumption
  <2>5. RowReads(row', core.total, granted') /\ LoopReads(loop, row.baseline, core.total, granted')
    <3>1. loop.limit \in Nat
      BY DEF LoopSet
    <3> QED BY <1>1, <2>1, <2>3, <2>4, <3>1 DEF RowReads, LoopReads
  <2>6. ASSUME NEW p \in Ops PROVE OpReads(op'[p], row.baseline, core.total, granted')
    <3>1. OpReads(op[p], row.baseline, core.total, granted')
      <4>1. op[p].cap \in Nat
        BY DEF OpSet
      <4> QED BY <1>1, <2>3, <4>1 DEF OpReads
    <3>2. p # o => op'[p] = op[p]
      BY <1>23, Zenon DEF V!StoreLimit, V!Start
    <3>3. p = o => op'[p].baseline = 0 /\ op'[p].total = 0 /\ op'[p].pc = "pushRead"
      BY <1>23, Zenon DEF V!StoreLimit, V!Start, V!IdleOp
    <3> QED BY <1>2, <3>1, <3>2, <3>3, SMT DEF OpReads, RowSet
  <2> QED BY <1>1, <1>2, <2>1, <2>3, <2>4, <2>5, <2>6, Zenon DEF VolumeKept
<1>24. ~V!LoseState /\ ~V!PushRepaired /\ ~V!Rebase
  BY <1>1 DEF V!LoseState, V!PushRepaired, V!LoopPut, V!Rebase, LoopReads
<1>25. ASSUME NEW o \in Ops, V!Reset(o) PROVE VolumeKept'
  <2>1. granted' = granted /\ spent' = spent /\ row' = row /\ core' = core /\ loop' = loop
    BY <1>25, <1>1, SMT DEF V!Reset, V!histVars
  <2>2. \A p \in Ops : OpReads(op'[p], row.baseline, core.total, granted)
    BY <1>25, <1>1, <1>2, SMT DEF V!Reset, V!IdleOp, OpSet, OpReads, RowReads, RowSet
  <2> QED BY <1>1, <2>1, <2>2, KeptFrom
<1>28. ASSUME NEW o \in Ops, V!ResetTotal(o) PROVE VolumeKept'
  <2>1. granted' = granted /\ spent' = spent /\ row' = row /\ core' = core /\ loop' = loop
    BY <1>28, <1>1, SMT DEF V!ResetTotal, V!OpCallFails, V!histVars
  <2>2. row.baseline \in Nat /\ row.baseline <= core.total
    BY <1>1, <1>2, SMT DEF RowSet
  <2>3. \A p \in Ops : OpReads(op'[p], row.baseline, core.total, granted)
    BY <1>28, <1>1, <1>2, <2>2, SMT DEF V!ResetTotal, V!OpCallFails, V!Max2, OpSet, OpReads
  <2> QED BY <1>1, <2>1, <2>3, KeptFrom
<1>29. ASSUME NEW o \in Ops, V!ResetWrite(o) PROVE VolumeKept'
  <2> DEFINE b == op[o].total
  <2>1. /\ row'.baseline = b /\ row'.cached = 0 /\ row'.limit = row.limit
        /\ core' = core /\ loop' = loop /\ granted' = granted /\ spent' = V!Minus(core.total, b)
        /\ op[o].baseline = row.baseline /\ op[o].pc = "resetWrite"
        /\ op' = [op EXCEPT ![o] = [V!IdleOp EXCEPT !.pc = "pushRead", !.kind = "reset"]]
    BY <1>29, Zenon DEF V!ResetWrite, V!StoredFrom, RowSet
  <2>2. b \in Nat /\ row.baseline \in Nat /\ row.baseline <= b /\ b <= core.total
    BY <1>1, <2>1 DEF OpSet, RowSet, OpReads
  <2> HIDE DEF b
  <2>3. core.total = b + spent' /\ spent' <= spent
    BY <1>1, <1>2, <2>1, <2>2, SMT DEF V!Minus
  <2>4. RowReads(row', core.total, granted)
    BY <1>1, <1>2, <2>1, <2>2, SMT DEF RowReads
  <2>5. CapWithin(core.cap, b, granted) /\ LoopReads(loop, b, core.total, granted)
    BY <1>1, <1>2, <2>2, SMT DEF CapWithin, LoopReads, LoopSet
  <2>6. ASSUME NEW p \in Ops PROVE OpReads(op'[p], b, core.total, granted)
    <3>1. OpReads(op[p], b, core.total, granted)
      <4>1. OpReads(op[p], row.baseline, core.total, granted) /\ op[p].baseline \in Nat /\ op[p].cap \in Nat
        BY <1>1 DEF OpSet
      <4> QED BY <2>2, <4>1, SMT DEF OpReads, CapWithin
    <3>2. p # o => op'[p] = op[p]
      BY <2>1, Zenon
    <3>3. p = o => op'[p].baseline = 0 /\ op'[p].total = 0 /\ op'[p].pc = "pushRead"
      BY <2>1, Zenon DEF V!IdleOp
    <3> QED BY <1>2, <2>2, <3>1, <3>2, <3>3, SMT DEF OpReads
  <2>7. spent' <= granted /\ spent' <= MaxSpent
    <3>1. spent' \in Nat
      BY <1>2, <2>1, <2>2, MinusIsNat
    <3> QED BY <1>1, <2>3, <3>1, ConsoleAssumption, SMT DEF V!VolumeAssumption
  <2> QED BY <1>1, <2>1, <2>3, <2>4, <2>5, <2>6, <2>7, Zenon DEF VolumeKept
<1>26. ASSUME NEW o \in Ops, NEW k \in Limits, V!SetLimit(o, k) PROVE VolumeKept'
  BY <1>23, <1>26, ConsoleAssumption DEF V!SetLimit, V!VolumeAssumption
<1>27. ASSUME NEW o \in Ops, V!SetTime(o) PROVE VolumeKept'
  BY <1>23, <1>27 DEF V!SetTime
<1> QED
  BY <1>3, <1>4, <1>5, <1>6, <1>7, <1>8, <1>9, <1>10, <1>11, <1>12, <1>13, <1>14, <1>15, <1>16, <1>17,
     <1>18, <1>19, <1>20, <1>21, <1>22, <1>24, <1>25, <1>26, <1>27, <1>28, <1>29, Zenon DEF V!Next, V!Loop, V!Request

LEMMA VolumeKeeps ==
  ASSUME VolumeInv, [V!Next]_volumeVars
  PROVE  VolumeInv'
<1>1. V!TypeOK /\ V!TypeOK'
  BY VolumeTypes, Zenon DEF VolumeInv
<1>2. /\ row \in RowSet /\ core \in CoreSet /\ loop \in LoopSet /\ op \in [Ops -> OpSet]
      /\ spent \in Nat /\ granted \in Nat
  BY <1>1, Zenon DEF V!TypeOK, RowSet, CoreSet, LoopSet, OpSet
<1>3. CASE UNCHANGED volumeVars
  BY <1>1, <1>3, Zenon DEF volumeVars, VolumeInv, VolumeKept
<1>4. CASE V!Next /\ ~lost' /\ ~overtaken'
  <2>1. ~lost
    BY <1>1, <1>4, Zenon DEF V!TypeOK, V!Next, V!Relay, V!LoseState, V!TimePasses, V!Loop, V!Request, V!histVars,
       V!Fetch, V!GetQuota, V!PushExpected, V!ReadTotal, V!PushRepaired, V!Rebase, V!WriteUsed, V!StopCore, V!StopRow,
       V!SetLimit, V!SetTime, V!StoreTime, V!Reset, V!ResetTotal, V!ResetWrite, V!PushRead, V!PushPut, V!Show,
       V!StateRead, V!StateTotal, V!StateWrite, V!Deploy, V!Launch, V!LaunchFails, V!MarkRunning, V!StoreLimit, V!LoopPut, V!StoredFrom
  <2>2. ~overtaken
    BY <1>1, <1>4, Zenon DEF V!TypeOK, V!Next, V!Relay, V!LoseState, V!TimePasses, V!Loop, V!Request, V!histVars,
       V!Fetch, V!GetQuota, V!PushExpected, V!ReadTotal, V!PushRepaired, V!Rebase, V!WriteUsed, V!StopCore, V!StopRow,
       V!SetLimit, V!SetTime, V!StoreTime, V!Reset, V!ResetTotal, V!ResetWrite, V!PushRead, V!PushPut, V!Show,
       V!StateRead, V!StateTotal, V!StateWrite, V!Deploy, V!Launch, V!LaunchFails, V!MarkRunning, V!StoreLimit, V!LoopPut, V!StoredFrom
  <2> QED BY <1>1, <1>2, <1>4, <2>1, <2>2, VolumeActs, Zenon DEF VolumeInv
<1> QED BY <1>1, <1>3, <1>4, Zenon DEF VolumeInv

-----------------------------------------------------------------------------
(* The watch over silent Cores.                                            *)
LEMMA StaleStep ==
  ASSUME [Next]_consoleVars
  PROVE  \/ UNCHANGED staleVars
         \/ \E w \in [running : BOOLEAN, limit : {"cap", "time", "none"}] : OwnerEdits(w)
         \/ MinutePasses \/ LoopLooks \/ TimeIsOver \/ UsageRead \/ NoteStale
         \/ \E ok \in BOOLEAN : Alert(ok)
         \/ \E stopped \in BOOLEAN, told \in BOOLEAN : Judge(stopped, told)
BY Zenon DEF Next, In, consoleVars

(* An entry begins after the last reading; its alert is set before it is   *)
(* written, and at once when there are misses enough.                      *)
EntryKept(e, b, pc) ==
  /\ ~e.on => e.misses = 0 /\ ~e.alerted
  /\ e.on => b.since <= e.first /\ e.first <= minute /\ e.misses >= 1
  /\ e.misses >= AlertAfter => e.alerted
  /\ b.alerts = 0 \/ (b.alerts = 1 /\ e.alerted)
  /\ pc = "alerting" => e.alerted /\ b.alerts = 0

StaleInv ==
  /\ minute \in Nat
  /\ stale \in [on : BOOLEAN, misses : Nat, first : Nat, alerted : BOOLEAN]
  /\ blind \in [since : Nat, alerts : Nat] /\ blind.since <= minute
  /\ check \in [pc : {"idle", "reading", "alerting", "judging"}, due : BOOLEAN]
  /\ EntryKept(stale, blind, check.pc)

LEMMA StaleStart == ConsoleInit => StaleInv
BY StaleAssumption, SMT DEF ConsoleInit, StaleInit, StaleInv, NoWatch, EntryKept

LEMMA StaleKeeps == StaleInv /\ [Next]_consoleVars => StaleInv'
<1> SUFFICES ASSUME StaleInv, [Next]_consoleVars PROVE StaleInv'
  OBVIOUS
<1> USE StaleAssumption DEF StaleInv, EntryKept, LoopAt, GoOn, Drop, NoWatch, Seen
<1>1. CASE UNCHANGED staleVars
  BY <1>1 DEF staleVars
<1>2. ASSUME NEW w, OwnerEdits(w) PROVE StaleInv'
  BY <1>2 DEF OwnerEdits
<1>3. CASE MinutePasses
  BY <1>3 DEF MinutePasses
<1>4. CASE LoopLooks
  <2>1. CASE watched.limit = "cap"
    BY <1>4, <2>1 DEF LoopLooks
  <2>2. CASE watched.limit # "cap"
    <3>1. Drop /\ blind' = Seen /\ UNCHANGED <<check, minute>> /\ check.pc = "idle"
      BY <1>4, <2>2, Zenon DEF LoopLooks
    <3> QED BY <3>1
  <2> QED BY <2>1, <2>2
<1>5. CASE TimeIsOver
  BY <1>5 DEF TimeIsOver
<1>6. CASE UsageRead
  BY <1>6 DEF UsageRead
<1>7. CASE NoteStale
  <2> DEFINE entry == IF stale.on THEN stale ELSE [NoWatch EXCEPT !.on = TRUE, !.first = minute]
             more  == IF entry.misses = AlertAfter THEN AlertAfter ELSE entry.misses + 1
             alarm == more >= AlertAfter /\ ~entry.alerted
  <2>1. /\ stale' = [entry EXCEPT !.misses = more, !.alerted = @ \/ alarm]
        /\ check' = [pc  |-> IF alarm THEN "alerting" ELSE "judging",
                     due |-> StopAfter > 0 /\ minute - entry.first >= StopAfter]
        /\ UNCHANGED <<watched, minute, blind>>
    BY <1>7, Zenon DEF NoteStale
  <2>2. /\ entry \in [on : BOOLEAN, misses : Nat, first : Nat, alerted : BOOLEAN]
        /\ entry.on /\ blind.since <= entry.first /\ entry.first <= minute
        /\ entry.alerted => stale.alerted
        /\ stale.on => entry = stale
        /\ ~stale.on => entry.misses = 0 /\ ~entry.alerted
    <3>1. CASE stale.on
      BY <3>1
    <3>2. CASE ~stale.on
      <4>1. entry = [on |-> TRUE, misses |-> 0, first |-> minute, alerted |-> FALSE]
        BY <3>2, Zenon
      <4> HIDE DEF entry
      <4> QED BY <3>2, <4>1
    <3> QED BY <3>1, <3>2
  <2>3. more \in Nat /\ more >= 1 /\ alarm \in BOOLEAN
    BY <2>2, SMT
  <2>4. blind.alerts = 0 \/ (blind.alerts = 1 /\ stale.on /\ entry.alerted)
    BY <2>2, SMT
  <2> HIDE DEF entry, more
  <2>5. /\ stale' \in [on : BOOLEAN, misses : Nat, first : Nat, alerted : BOOLEAN]
        /\ stale'.on = entry.on /\ stale'.first = entry.first /\ stale'.misses = more
        /\ stale'.alerted = (entry.alerted \/ alarm)
    BY ONLY <2>1, <2>2, <2>3, Zenon
  <2>6. check' \in [pc : {"idle", "reading", "alerting", "judging"}, due : BOOLEAN]
    BY <2>1, Zenon
  <2>7. check'.pc = "alerting" <=> alarm
    BY <2>1, Zenon
  <2> QED BY <2>1, <2>2, <2>3, <2>4, <2>5, <2>6, <2>7, SMT
<1>8. ASSUME NEW ok \in BOOLEAN, Alert(ok) PROVE StaleInv'
  BY <1>8 DEF Alert
<1>9. ASSUME NEW stopped \in BOOLEAN, NEW told \in BOOLEAN, Judge(stopped, told) PROVE StaleInv'
  <2>1. check' = [pc |-> "idle", due |-> FALSE] /\ UNCHANGED minute
    BY <1>9, Zenon DEF Judge
  <2>2. CASE Drop /\ blind' = Seen
    BY <2>1, <2>2
  <2>3. CASE UNCHANGED <<stale, blind>>
    BY <2>1, <2>3
  <2> QED BY <1>9, <2>2, <2>3, Zenon DEF Judge
<1> QED
  BY <1>1, <1>2, <1>3, <1>4, <1>5, <1>6, <1>7, <1>8, <1>9, StaleStep

LEMMA StaleInvHolds == StaleInv => StaleHolds
BY DEF StaleInv, EntryKept, StaleHolds

(* However requests, resets among them, failing calls and the loop         *)
(* interleave, and wherever the Core loses its file: until it does, and    *)
(* until a usage or a counter read before a reset is stored after it, a    *)
(* period relays no more than the largest limit so far and no counter is   *)
(* rebased.  Of an outage one alert is written, once enough readings       *)
(* failed since the last that worked.                                      *)
THEOREM EnforcementIsKept == Spec => EnforcementHolds
<1>1. ConsoleInit => VolumeInv /\ StaleInv
  BY VolumeStart, StaleStart
<1>2. VolumeInv /\ StaleInv /\ [Next]_consoleVars => VolumeInv' /\ StaleInv'
  BY VolumeStep, VolumeKeeps, StaleKeeps
<1>3. VolumeInv /\ StaleInv => V!QuotaIsNotRenewed /\ StaleHolds
  BY StaleInvHolds DEF VolumeInv, VolumeKept, V!QuotaIsNotRenewed
<1>4. VolumeInv => [V!Rebase => lost \/ overtaken]_volumeVars
  BY DEF VolumeInv, VolumeKept, LoopReads, V!Rebase
<1> QED BY <1>1, <1>2, <1>3, <1>4, PTL DEF Spec, EnforcementHolds

-----------------------------------------------------------------------------
(* The fleet.                                                              *)
LEMMA FleetStep ==
  ASSUME [Next]_consoleVars
  PROVE  \/ UNCHANGED fleetVars
         \/ \E b \in Beats, n \in Workers : SendBeat(b, n)
         \/ \E b \in Beats : \/ BeatLost(b) \/ ReadWorker(b) \/ WriteWorker(b)
                             \/ InsertFails(b) \/ Sweep(b)
         \/ \E n \in Workers, on \in BOOLEAN : SetEnabled(n, on)
         \/ \E r \in RegionsAsked, n \in Workers : Pick(r, n)
         \/ \E n \in Workers, ok \in BOOLEAN : Placed(n, ok)
         \/ \E n \in Workers : Unplaced(n)
         \/ FleetTick
BY Zenon DEF Next, In, consoleVars

TableSet == [status : {"none", "online", "offline"}, enabled : BOOLEAN, instances : Nat, last : Nat]
BeatSet == [pc : {"idle", "sent", "write", "sweep"}, node : Workers, count : Nat, at : Nat,
            found : BOOLEAN, since : Nat]

FleetTyped ==
  /\ table \in [Workers -> TableSet]
  /\ beat \in [Beats -> BeatSet]
  /\ load \in [Workers -> Nat] /\ placing \in [Workers -> Nat] /\ since \in [Workers -> Nat]
  /\ heard \in [Workers -> Nat]
  /\ time \in Nat /\ made \in Nat
  /\ swept \in [time : Nat, off : SUBSET Workers]

LEMMA FleetTypes == FleetTyped /\ [Next]_consoleVars => FleetTyped'
<1> SUFFICES ASSUME FleetTyped, [Next]_consoleVars PROVE FleetTyped'
  OBVIOUS
<1> USE FleetAssumption DEF FleetTyped, TableSet, BeatSet, NoBeat, Listed
<1>1. CASE UNCHANGED fleetVars
  BY <1>1 DEF fleetVars
<1>2. ASSUME NEW b \in Beats, NEW n \in Workers, SendBeat(b, n) PROVE FleetTyped'
  BY <1>2 DEF SendBeat
<1>3. ASSUME NEW b \in Beats, BeatLost(b) PROVE FleetTyped'
  BY <1>3 DEF BeatLost
<1>4. ASSUME NEW b \in Beats, ReadWorker(b) PROVE FleetTyped'
  <2> DEFINE f == table[beat[b].node].status # "none"
             y == [beat[b] EXCEPT !.pc = "write", !.at = time, !.found = f]
  <2>1. f \in BOOLEAN /\ time \in Nat /\ beat[b] \in BeatSet
    BY Zenon
  <2>2. beat' = [beat EXCEPT ![b] = y]
    BY <1>4, Zenon DEF ReadWorker
  <2> HIDE DEF f
  <2>3. y \in BeatSet
    BY ONLY <2>1, Zenon DEF BeatSet
  <2> HIDE DEF y
  <2>4. beat' \in [Beats -> BeatSet]
    BY <2>2, <2>3, Zenon
  <2> QED BY <1>4, <2>4, Zenon DEF ReadWorker
<1>5. ASSUME NEW b \in Beats, WriteWorker(b) PROVE FleetTyped'
  BY <1>5 DEF WriteWorker
<1>6. ASSUME NEW b \in Beats, InsertFails(b) PROVE FleetTyped'
  BY <1>6 DEF InsertFails
<1>7. ASSUME NEW b \in Beats, Sweep(b) PROVE FleetTyped'
  <2>1. table' \in [Workers -> TableSet]
    <3>1. ASSUME NEW n \in Workers PROVE [table[n] EXCEPT !.status = "offline"] \in TableSet
      OBVIOUS
    <3> QED BY <1>7, <3>1, Zenon DEF Sweep
  <2>2. NoBeat \in BeatSet
    OBVIOUS
  <2>3. beat' \in [Beats -> BeatSet]
    BY <1>7, <2>2, Zenon DEF Sweep
  <2>4. swept' \in [time : Nat, off : SUBSET Workers]
    BY <1>7 DEF Sweep
  <2> QED BY <1>7, <2>1, <2>3, <2>4, Zenon DEF Sweep
<1>8. ASSUME NEW n \in Workers, NEW on \in BOOLEAN, SetEnabled(n, on) PROVE FleetTyped'
  BY <1>8 DEF SetEnabled
<1>9. ASSUME NEW r \in RegionsAsked, NEW n \in Workers, Pick(r, n) PROVE FleetTyped'
  <2>1. made + 1 \in Nat /\ placing[n] + 1 \in Nat /\ since[n] + 1 \in Nat
    OBVIOUS
  <2>2. made' \in Nat /\ placing' \in [Workers -> Nat] /\ since' \in [Workers -> Nat]
    BY <1>9, <2>1, Zenon DEF Pick
  <2>3. ASSUME NEW b \in Beats PROVE [beat[b] EXCEPT !.since = @ + 1] \in BeatSet
    <3> DEFINE k == beat[b].since + 1
    <3>1. beat[b] \in BeatSet
      BY Zenon
    <3>2. k \in Nat
      OBVIOUS
    <3> HIDE DEF k
    <3>3. [beat[b] EXCEPT !.since = k] \in BeatSet
      BY ONLY <3>1, <3>2, Zenon DEF BeatSet
    <3> QED BY <3>3 DEF k
  <2>4. beat' \in [Beats -> BeatSet]
    BY <1>9, <2>3, Zenon DEF Pick
  <2> QED BY <1>9, <2>2, <2>4, Zenon DEF Pick
<1>10. ASSUME NEW n \in Workers, NEW ok \in BOOLEAN, Placed(n, ok) PROVE FleetTyped'
  BY <1>10 DEF Placed
<1>11. ASSUME NEW n \in Workers, Unplaced(n) PROVE FleetTyped'
  BY <1>11 DEF Unplaced
<1>12. CASE FleetTick
  BY <1>12 DEF FleetTick
<1> QED
  BY <1>1, <1>2, <1>3, <1>4, <1>5, <1>6, <1>7, <1>8, <1>9, <1>10, <1>11, <1>12, FleetStep, Zenon

(* What a heartbeat reports, and when it was read.                         *)
BeatKept(y) ==
  /\ y.at <= time
  /\ y.pc \in {"write", "sweep"} => time <= y.at + BeatTime
  /\ y.pc \in {"sent", "write"} =>
       load[y.node] + placing[y.node] <= y.count + y.since /\ y.count <= MaxPlaced

NodeKept(n) ==
  /\ load[n] + placing[n] <= made
  /\ load[n] + placing[n] <= table[n].instances + since[n] /\ table[n].instances <= MaxPlaced
  /\ table[n].last <= time /\ heard[n] <= table[n].last + BeatTime /\ heard[n] <= time
  /\ table[n].status = "offline" => time + BeatTime > heard[n] + StaleAfter
  /\ table[n].status = "online" /\ n \notin swept.off
       => table[n].last + StaleAfter + BeatTime >= swept.time

FleetInv ==
  /\ FleetTyped /\ made <= MaxPlaced /\ time <= LastTick /\ swept.time <= time
  /\ \A n \in Workers : NodeKept(n)
  /\ \A b \in Beats : BeatKept(beat[b])

LEMMA FleetStart == ConsoleInit => FleetInv
<1> SUFFICES ASSUME FleetInit PROVE FleetInv
  BY DEF ConsoleInit
<1> USE FleetAssumption
<1>1. FleetTyped
  BY DEF FleetInit, FleetTyped, TableSet, BeatSet, NoBeat, NoRow
<1>2. made <= MaxPlaced /\ time <= LastTick /\ swept.time <= time
  BY DEF FleetInit
<1>3. \A n \in Workers : NodeKept(n)
  BY DEF FleetInit, NodeKept, NoRow
<1>4. \A b \in Beats : BeatKept(beat[b])
  BY DEF FleetInit, BeatKept, NoBeat
<1> QED BY <1>1, <1>2, <1>3, <1>4 DEF FleetInv

LEMMA FleetKeeps == FleetInv /\ [Next]_consoleVars => FleetInv'
<1> SUFFICES ASSUME FleetInv, [Next]_consoleVars PROVE FleetInv'
  OBVIOUS
<1>1. FleetTyped /\ FleetTyped'
  BY FleetTypes DEF FleetInv
<1> DEFINE Held == /\ made' <= MaxPlaced /\ time' <= LastTick /\ swept'.time <= time'
                   /\ \A n \in Workers : NodeKept(n)'
                   /\ \A b \in Beats : BeatKept(beat[b])'
<1> USE FleetAssumption DEF FleetInv, FleetTyped, TableSet, BeatSet, NoBeat, Listed, BeatKept, NodeKept
<1>2. CASE UNCHANGED fleetVars
  BY <1>2 DEF fleetVars
<1>3. ASSUME NEW b \in Beats, NEW n \in Workers, SendBeat(b, n) PROVE Held
  BY <1>3 DEF SendBeat
<1>4. ASSUME NEW b \in Beats, BeatLost(b) PROVE Held
  BY <1>4 DEF BeatLost
<1>5. ASSUME NEW b \in Beats, ReadWorker(b) PROVE Held
  BY <1>5 DEF ReadWorker
<1>6. ASSUME NEW b \in Beats, WriteWorker(b) PROVE Held
  <2>0. PICK m \in Workers : m = beat[b].node
    OBVIOUS
  <2>1. /\ beat[b].pc = "write" /\ beat[b].at \in Nat
        /\ beat[b].count \in Nat /\ beat[b].since \in Nat
    BY <1>6 DEF WriteWorker
  <2>2. BeatKept(beat[b])
    BY DEF FleetInv
  <2>3. /\ UNCHANGED <<load, placing, time, made, swept>>
        /\ table'[m].status = "online" /\ table'[m].instances = beat[b].count
        /\ table'[m].last = beat[b].at /\ since'[m] = beat[b].since
        /\ heard'[m] = IF heard[m] > beat[b].at THEN heard[m] ELSE beat[b].at
    BY <1>6, <2>0, <2>1, SMT DEF WriteWorker
  <2>4. \A n \in Workers : n # m => /\ table'[n] = table[n] /\ since'[n] = since[n] /\ heard'[n] = heard[n]
    BY <1>6, <2>0, <2>1, SMT DEF WriteWorker
  <2>5. \A c \in Beats : c # b => beat'[c] = beat[c]
    BY <1>6, Zenon DEF WriteWorker
  <2>6. beat'[b].pc = "sweep" /\ beat'[b].at = beat[b].at
    BY <1>6, Zenon DEF WriteWorker
  <2>7. NodeKept(m)'
    <3>1. load[m] \in Nat /\ placing[m] \in Nat /\ heard[m] \in Nat /\ table[m].last \in Nat /\ NodeKept(m)
      BY <2>1 DEF FleetInv
    <3>2. load[m] + placing[m] <= beat[b].count + beat[b].since /\ beat[b].count <= MaxPlaced
          /\ beat[b].at <= time /\ time <= beat[b].at + BeatTime
      BY <2>0, <2>1, <2>2
    <3>3. /\ time \in Nat /\ swept.time \in Nat /\ swept.time <= time /\ MaxPlaced \in Nat
          /\ heard[m] <= time /\ load[m] + placing[m] <= made
          /\ BeatTime \in Nat /\ StaleAfter \in Nat
      BY <3>1
    <3> QED BY ONLY <2>1, <2>3, <3>1, <3>2, <3>3, SMT DEF NodeKept
  <2>8. \A n \in Workers : NodeKept(n)'
    <3> SUFFICES ASSUME NEW n \in Workers, n # m PROVE NodeKept(n)'
      BY <2>7
    <3>1. NodeKept(n)
      BY DEF FleetInv
    <3> QED BY ONLY <2>3, <2>4, <3>1, n # m, NodeKept(n) DEF NodeKept
  <2>9. ASSUME NEW c \in Beats PROVE BeatKept(beat[c])'
    <3>1. CASE c = b
      BY ONLY <2>1, <2>2, <2>3, <2>6, <3>1 DEF BeatKept
    <3>2. CASE c # b
      <4>1. beat'[c] = beat[c] /\ BeatKept(beat[c])
        BY <2>5, <3>2 DEF FleetInv
      <4> QED BY ONLY <2>3, <4>1 DEF BeatKept
    <3> QED BY <3>1, <3>2
  <2> QED BY <2>3, <2>8, <2>9
<1>7. ASSUME NEW b \in Beats, InsertFails(b) PROVE Held
  BY <1>7 DEF InsertFails
<1>8. ASSUME NEW b \in Beats, Sweep(b) PROVE Held
  BY <1>8 DEF Sweep, Silent
<1>9. ASSUME NEW n \in Workers, NEW on \in BOOLEAN, SetEnabled(n, on) PROVE Held
  BY <1>9 DEF SetEnabled
<1>10. ASSUME NEW r \in RegionsAsked, NEW n \in Workers, Pick(r, n) PROVE Held
  BY <1>10 DEF Pick
<1>11. ASSUME NEW n \in Workers, NEW ok \in BOOLEAN, Placed(n, ok) PROVE Held
  BY <1>11 DEF Placed
<1>12. ASSUME NEW n \in Workers, Unplaced(n) PROVE Held
  BY <1>12 DEF Unplaced
<1>13. CASE FleetTick
  BY <1>13 DEF FleetTick
<1> HIDE DEF FleetTyped, TableSet, BeatSet, BeatKept, NodeKept
<1> QED
  BY <1>1, <1>2, <1>3, <1>4, <1>5, <1>6, <1>7, <1>8, <1>9, <1>10, <1>11, <1>12, <1>13, FleetStep, Zenon

LEMMA FleetTypesHold == FleetInv => FleetTypeOK
<1> SUFFICES ASSUME FleetInv PROVE FleetTypeOK
  OBVIOUS
<1>1. ASSUME NEW n \in Workers PROVE table[n].instances \in 0..MaxPlaced /\ table[n].last \in 0..LastTick
  <2>1. NodeKept(n) /\ table[n].instances \in Nat /\ table[n].last \in Nat
    BY DEF FleetInv, FleetTyped, TableSet
  <2> QED BY <2>1, FleetAssumption, SMT DEF NodeKept, FleetInv, FleetTyped
<1>2. table \in [Workers -> [status : {"none", "online", "offline"}, enabled : BOOLEAN,
                             instances : 0..MaxPlaced, last : 0..LastTick]]
  BY <1>1, SMT DEF FleetInv, FleetTyped, TableSet
<1>3. \A b \in Beats : beat[b].pc \in {"idle", "sent", "write", "sweep"} /\ beat[b].node \in Workers
  BY DEF FleetInv, FleetTyped, BeatSet
<1> QED BY <1>2, <1>3 DEF FleetTypeOK

LEMMA OfflineIsSilent == FleetInv => OfflineMeansSilent
BY DEF FleetInv, NodeKept, OfflineMeansSilent

(* A node's placements rise by Pick only, which looked at its row.         *)
LEMMA PlacementsBounded ==
  ASSUME FleetInv, [Next]_consoleVars
  PROVE  \A n \in Workers \ {DefaultNode} :
           placing'[n] > placing[n] => load[n] + placing[n] < Capacity + since[n]
<1> SUFFICES ASSUME NEW n \in Workers \ {DefaultNode}, placing'[n] > placing[n]
             PROVE  load[n] + placing[n] < Capacity + since[n]
  OBVIOUS
<1>1. FleetTyped /\ NodeKept(n)
  BY DEF FleetInv
<1>2. PICK r \in RegionsAsked, m \in Workers : Pick(r, m)
  <2>1. placing[n] \in Nat /\ placing \in [Workers -> Nat]
    BY <1>1 DEF FleetTyped
  <2>2. placing' # placing
    BY <2>1
  <2>3. ASSUME NEW m \in Workers, NEW ok \in BOOLEAN, Placed(m, ok) PROVE placing'[n] <= placing[n]
    BY <2>1, <2>3 DEF Placed
  <2>4. \A m \in Workers, ok \in BOOLEAN : ~Placed(m, ok)
    <3> SUFFICES ASSUME NEW m \in Workers, NEW ok \in BOOLEAN, Placed(m, ok) PROVE FALSE
      OBVIOUS
    <3>1. placing'[n] <= placing[n] /\ placing'[n] \in Nat
      BY <2>1, <2>3, FleetTypes DEF FleetInv, FleetTyped
    <3> QED BY <2>1, <3>1, SMT
  <2> QED BY <2>2, <2>4, FleetStep, Zenon DEF fleetVars, SendBeat, BeatLost, ReadWorker, WriteWorker,
              InsertFails, Sweep, SetEnabled, Unplaced, FleetTick
<1>3. m = n
  BY <1>1, <1>2, SMT DEF Pick, FleetTyped
<1>4. table[n].instances < Capacity
  <2>1. n \in IF Eligible(r) = {} THEN {DefaultNode} ELSE Best(r)
    BY <1>2, <1>3, Zenon DEF Pick
  <2>2. n \in Best(r)
    BY <2>1
  <2> QED BY <2>2, Zenon DEF Best, Eligible
<1>5. /\ load[n] \in Nat /\ placing[n] \in Nat /\ since[n] \in Nat /\ table[n].instances \in Nat
      /\ load[n] + placing[n] <= table[n].instances + since[n]
  BY <1>1 DEF FleetTyped, TableSet, NodeKept
<1> QED BY <1>4, <1>5, FleetAssumption, SMT

(* Whatever heartbeats are lost, late or overtake each other: a worker is  *)
(* offline after a silence only, a dead one is not online past the next    *)
(* heartbeat of anyone, and a node is given more than its capacity only by *)
(* what its row cannot know.                                               *)
THEOREM FleetIsTold == Spec => FleetHolds
<1>1. ConsoleInit => FleetInv
  BY FleetStart
<1>2. FleetInv /\ [Next]_consoleVars => FleetInv'
  BY FleetKeeps
<1>3. FleetInv => OfflineMeansSilent
  BY OfflineIsSilent
<1>4. FleetInv /\ [Next]_consoleVars =>
        [\A n \in Workers \ {DefaultNode} :
           placing'[n] > placing[n] => load[n] + placing[n] < Capacity + since[n]]_fleetVars
  BY PlacementsBounded
<1> QED BY <1>1, <1>2, <1>3, <1>4, PTL DEF Spec, FleetHolds, OvercommitIsBounded
-----------------------------------------------------------------------------
(* The accounts.                                                           *)
LEMMA AccountsStep ==
  ASSUME [Next]_consoleVars
  PROVE  \/ UNCHANGED accountVars
         \/ \E v \in SignIns, u \in Locals : PasswordSignIn(v, u)
         \/ \E s \in OauthStates : BeginOauth(s)
         \/ \E v \in SignIns, s \in OauthStates : Callback(v, s)
         \/ \E v \in SignIns : \/ ExchangeFails(v) \/ Promote(v) \/ InsertSession(v)
                               \/ TrimSessions(v)
         \/ \E v \in SignIns, u \in Githubs : Upsert(v, u)
         \/ \E r \in rows : Logout(r)
         \/ \E r \in rows, u \in Accounts : DisableUser(r, u) \/ EnableUser(r, u)
         \/ SweepSessions
         \/ \E r \in rows, u \in Accounts, f \in BOOLEAN : SetAdmin(r, u, f)
BY Zenon DEF Next, In, consoleVars

UserSet == [admin : BOOLEAN, disabled : BOOLEAN]
RowOf == [id : SignIns, user : Accounts, at : Nat]
SignInSet == [at : {"idle", "exchange", "promote", "insert", "trim", "done", "refused"},
              user : Accounts \cup {Nobody}, state : OauthStates \cup {Nobody}, made : Nat]
PatchSet == [user : Accounts \cup {Nobody}, seen : SUBSET SignIns]

(* No step removes an account, or gives one a row of another form.         *)
UsersTyped == DOMAIN users \subseteq Accounts /\ users \in [DOMAIN users -> UserSet]

LEMMA UsersTypes == UsersTyped /\ [Next]_consoleVars => UsersTyped'
<1> SUFFICES ASSUME UsersTyped, [Next]_consoleVars PROVE UsersTyped'
  OBVIOUS
<1> USE DEF UsersTyped
<1>1. CASE users' = users
  BY <1>1
<1>2. ASSUME NEW u, NEW b \in BOOLEAN,
             \/ users' = [users EXCEPT ![u].admin = b]
             \/ users' = [users EXCEPT ![u].disabled = b]
      PROVE  UsersTyped'
  <2>1. DOMAIN users' = DOMAIN users
    BY <1>2
  <2>2. ASSUME NEW x \in DOMAIN users PROVE users'[x] \in UserSet
    BY <1>2 DEF UserSet
  <2>3. users' = [x \in DOMAIN users' |-> users'[x]]
    BY <1>2
  <2> QED BY <2>1, <2>2, <2>3
<1>3. ASSUME NEW v \in SignIns, NEW u \in Githubs, Upsert(v, u) PROVE UsersTyped'
  <2> DEFINE row1 == IF u \in DOMAIN users THEN users[u] ELSE [admin |-> FALSE, disabled |-> FALSE]
  <2>1. row1 \in UserSet
    BY DEF UserSet
  <2>2. users' = [x \in DOMAIN users \cup {u} |-> IF x = u THEN row1 ELSE users[x]]
    BY <1>3, Zenon DEF Upsert
  <2>3. u \in Accounts
    BY DEF Accounts
  <2> HIDE DEF row1
  <2> QED BY <2>1, <2>2, <2>3
<1>4. ASSUME NEW v \in SignIns, Promote(v) PROVE UsersTyped'
  BY <1>2, <1>4, Zenon DEF Promote
<1>5. ASSUME NEW r, NEW u, DisableUser(r, u) \/ EnableUser(r, u) PROVE UsersTyped'
  BY <1>2, <1>5, Zenon DEF DisableUser, EnableUser
<1>6. ASSUME NEW r, NEW u, NEW f \in BOOLEAN, SetAdmin(r, u, f) PROVE UsersTyped'
  BY <1>2, <1>6, Zenon DEF SetAdmin
<1> HIDE DEF UsersTyped
<1>7. CASE UNCHANGED accountVars
  BY <1>1, <1>7, Zenon DEF accountVars
<1>8. ASSUME NEW v \in SignIns, NEW u \in Locals, PasswordSignIn(v, u) PROVE UsersTyped'
  BY <1>1, <1>8, Zenon DEF PasswordSignIn
<1>9. ASSUME NEW s, BeginOauth(s) PROVE UsersTyped'
  BY <1>1, <1>9, Zenon DEF BeginOauth
<1>10. ASSUME NEW v, NEW s, Callback(v, s) PROVE UsersTyped'
  BY <1>1, <1>10, Zenon DEF Callback
<1>11. ASSUME NEW v, ExchangeFails(v) \/ InsertSession(v) \/ TrimSessions(v) PROVE UsersTyped'
  BY <1>1, <1>11, Zenon DEF ExchangeFails, InsertSession, TrimSessions
<1>12. ASSUME NEW r, Logout(r) \/ SweepSessions PROVE UsersTyped'
  BY <1>1, <1>12, Zenon DEF Logout, SweepSessions
<1> QED BY <1>3, <1>4, <1>5, <1>6, <1>7, <1>8, <1>9, <1>10, <1>11, <1>12, AccountsStep, Zenon

LEMMA LeastNatural ==
  ASSUME NEW U, U \subseteq Nat, U # {}
  PROVE  \E m \in U : \A k \in U : m <= k
<1> DEFINE R == {ss \in Nat \X Nat : ss[1] < ss[2]}
<1>1. IsWellFoundedOn(R, Nat)
  BY NatLessThanWellFounded DEF OpToRel
<1>2. PICK m \in U : \A k \in U : ~(<<k, m>> \in R)
  BY <1>1, WFMin
<1>3. ASSUME NEW k \in U PROVE m <= k
  <2>1. <<k, m>> \in Nat \X Nat /\ ~(<<k, m>> \in R)
    BY <1>2
  <2>2. ~(k < m)
    BY <2>1
  <2> QED BY <2>2
<1> QED BY <1>3

(* Rows of one account, no two of one time: those with fewer than k newer  *)
(* ones are k at most, and whoever is not among them has k newer ones that *)
(* are.                                                                    *)
Above(S, r) == {o \in S : o.at > r.at}
Newest(S, k) == {r \in S : Cardinality(Above(S, r)) < k}

LEMMA NewestAreFew ==
  ASSUME NEW S, IsFiniteSet(S), \A r \in S : r.at \in Nat,
         \A r, o \in S : r.at = o.at => r = o, NEW k \in Nat \ {0}
  PROVE  Cardinality(Newest(S, k)) <= k
<1> DEFINE T == Newest(S, k)
<1>1. T \subseteq S
  BY DEF Newest
<1>2. IsFiniteSet(T)
  BY <1>1, FS_Subset
<1>3. CASE T = {}
  BY <1>3, FS_EmptySet
<1>4. CASE T # {}
  <2> DEFINE U == {r.at : r \in T}
  <2>1. U \subseteq Nat /\ U # {}
    BY <1>1, <1>4
  <2>2. PICK n \in U : \A x \in U : n <= x
    BY <2>1, LeastNatural
  <2>3. PICK m \in T : m.at = n
    BY <2>2
  <2>4. ASSUME NEW r \in T \ {m} PROVE r \in Above(S, m)
    <3>1. r.at \in U /\ r \in S /\ m \in S /\ r # m
      BY <1>1
    <3>2. n <= r.at /\ r.at # m.at
      BY <2>2, <3>1
    <3>3. r.at \in Nat /\ m.at \in Nat
      BY <3>1
    <3> QED BY <2>3, <3>1, <3>2, <3>3 DEF Above
  <2> DEFINE A == Above(S, m)
             B == T \ {m}
  <2>5. Cardinality(A) < k /\ A \subseteq S /\ B \subseteq A
    BY <2>4 DEF Newest, Above
  <2> HIDE DEF T
  <2>6. IsFiniteSet(A) /\ IsFiniteSet(B) /\ Cardinality(B) = Cardinality(T) - 1
    BY <1>2, <2>3, <2>5, FS_Subset, FS_RemoveElement
  <2> HIDE DEF A, B
  <2>7. Cardinality(B) <= Cardinality(A)
    BY <2>5, <2>6, FS_Subset
  <2>8. Cardinality(A) \in Nat /\ Cardinality(B) \in Nat /\ Cardinality(T) \in Nat
    BY <1>2, <2>6, FS_CardinalityType
  <2>9. Cardinality(T) <= k
    BY <2>5, <2>6, <2>7, <2>8
  <2> QED BY <2>9 DEF T
<1> QED BY <1>3, <1>4

LEMMA NewestAreKept ==
  ASSUME NEW S, IsFiniteSet(S), \A r \in S : r.at \in Nat,
         NEW last \in Nat, \A r \in S : r.at <= last,
         NEW k \in Nat \ {0}, NEW r \in S, r \notin Newest(S, k)
  PROVE  Cardinality(Above(Newest(S, k), r)) >= k
<1> DEFINE T == Newest(S, k)
           N == S \ T
           U == {last - x.at : x \in N}
<1>1. r \in N /\ N \subseteq S /\ T \subseteq S
  BY DEF Newest
<1> HIDE DEF T
<1>2. U \subseteq Nat /\ U # {}
  BY <1>1
<1>3. PICK n \in U : \A x \in U : n <= x
  BY <1>2, LeastNatural
<1>4. PICK m \in N : n = last - m.at
  BY <1>3
<1>5. ASSUME NEW o \in Above(S, m) PROVE o \in Above(T, r)
  <2>1. o \in S /\ m \in S /\ o.at > m.at
    BY <1>1 DEF Above
  <2>2. o.at \in Nat /\ m.at \in Nat /\ r.at \in Nat /\ r \in N
    BY <1>1, <2>1
  <2>3. last - r.at \in U
    BY <2>2
  <2>4. n <= last - r.at
    BY <1>3, <2>3
  <2>5. o.at > r.at
    BY <1>4, <2>1, <2>2, <2>4
  <2>6. CASE o \in N
    <3>1. last - o.at \in U
      BY <2>6
    <3>2. n <= last - o.at
      BY <1>3, <3>1
    <3> QED BY <1>4, <2>1, <2>2, <3>2
  <2> QED BY <2>1, <2>5, <2>6 DEF Above
<1> DEFINE A == Above(S, m)
           B == Above(T, r)
<1>6. A \subseteq B /\ B \subseteq S /\ A \subseteq S
  BY <1>1, <1>5 DEF Above
<1>7. ~(Cardinality(A) < k)
  BY <1>4 DEF T, Newest
<1> HIDE DEF A, B
<1>8. IsFiniteSet(B) /\ IsFiniteSet(A)
  BY <1>6, FS_Subset
<1>9. Cardinality(A) <= Cardinality(B) /\ Cardinality(A) \in Nat /\ Cardinality(B) \in Nat
  BY <1>6, <1>8, FS_Subset, FS_CardinalityType
<1>10. Cardinality(B) >= k
  BY <1>7, <1>9
<1> QED BY <1>10 DEF B, T

-----------------------------------------------------------------------------
AccountsTyped ==
  /\ UsersTyped /\ rows \subseteq RowOf /\ IsFiniteSet(rows) /\ oauth \subseteq OauthStates
  /\ signIn \in [SignIns -> SignInSet] /\ clock \in Nat
  /\ disable \in PatchSet /\ ended \subseteq SignIns

Stayed(v) == signIn[v].at \in {"trim", "done"}

(* The time of a sign-in is its own and so is the state it used up; a row  *)
(* is that of the sign-in it is named for.                                 *)
SignInKept(v) ==
  /\ signIn[v].at \in {"idle", "exchange", "promote", "refused"} => signIn[v].made = 0
  /\ signIn[v].at \in {"insert", "trim", "done"} => signIn[v].made \in 1..clock
  /\ signIn[v].at \in {"promote", "insert", "trim", "done"} => signIn[v].user \in Accounts
  /\ signIn[v].at = "idle" => signIn[v].state = Nobody
  /\ signIn[v].state \notin oauth

SignInsApart(v, w) ==
  /\ signIn[v].made = signIn[w].made => signIn[v].made = 0
  /\ signIn[v].state = signIn[w].state => signIn[v].state = Nobody

RowKept(r) == Stayed(r.id) /\ r.user = signIn[r.id].user /\ r.at = signIn[r.id].made

(* What a PATCH found were sessions of the account it disables; once it is *)
(* over they are gone.                                                     *)
PatchKept ==
  /\ \A v \in disable.seen : Stayed(v) /\ signIn[v].user = disable.user
  /\ \A v \in ended : Stayed(v)
  /\ DisableEndsSessions

Late(u) == {v \in SignIns : signIn[v].at = "trim" /\ signIn[v].user = u}

AccountsInv ==
  /\ AccountsTyped
  /\ \A v \in SignIns : SignInKept(v)
  /\ \A v, w \in SignIns : v # w => SignInsApart(v, w)
  /\ \A r \in rows : RowKept(r)
  /\ PatchKept
  /\ SessionsCapped

(* The sign-ins that got a time are as many as the clock has ticked.       *)
Timed == {v \in SignIns : signIn[v].made > 0}
ClockCounts == clock = Cardinality(Timed)

LEMMA AccountsStart == ConsoleInit => AccountsInv /\ ClockCounts
<1> SUFFICES ASSUME AccountsInit PROVE AccountsInv /\ ClockCounts
  BY DEF ConsoleInit
<1> USE AccountsAssumption
<1>1. AccountsTyped
  BY FS_EmptySet DEF AccountsInit, AccountsTyped, UsersTyped, UserSet, SignInSet, PatchSet, NoPatch, Idle, Accounts
<1>2. rows = {} /\ oauth = {} /\ clock = 0 /\ disable.seen = {} /\ ended = {}
  BY DEF AccountsInit, NoPatch
<1>3. \A v \in SignIns : signIn[v].at = "idle" /\ signIn[v].made = 0 /\ signIn[v].state = Nobody
  BY DEF AccountsInit, Idle
<1>4. \A v \in SignIns : SignInKept(v)
  BY <1>2, <1>3 DEF SignInKept
<1>5. \A v, w \in SignIns : v # w => SignInsApart(v, w)
  BY <1>3 DEF SignInsApart
<1>6. PatchKept
  BY <1>2 DEF PatchKept, DisableEndsSessions
<1>7. SessionsCapped
  <2>1. ASSUME NEW u \in Accounts PROVE Cardinality(Of(u)) <= SessionCap + Cardinality(Late(u))
    <3>1. Of(u) = {} /\ Late(u) = {}
      BY <1>2, <1>3 DEF Of, Late
    <3>2. Cardinality(Of(u)) = 0 /\ Cardinality(Late(u)) = 0
      BY <3>1, FS_EmptySet
    <3> QED BY <3>2
  <2> QED BY <2>1 DEF SessionsCapped, Late
<1>8. ClockCounts
  <2>1. Timed = {}
    BY <1>3 DEF Timed
  <2> QED BY <1>2, <2>1, FS_EmptySet DEF ClockCounts
<1>9. \A r \in rows : RowKept(r)
  BY <1>2
<1> QED BY <1>1, <1>4, <1>5, <1>6, <1>7, <1>8, <1>9 DEF AccountsInv

(* A sign-in that is let in.                                               *)
LEMMA GrantKeeps ==
  ASSUME AccountsInv, ClockCounts, UsersTyped', NEW v \in SignIns, NEW u \in Accounts, Granted(v, u),
         signIn[v].at \in {"idle", "exchange", "promote"},
         UNCHANGED <<rows, oauth, disable, ended>>
  PROVE  AccountsInv' /\ ClockCounts'
<1> DEFINE y == [signIn[v] EXCEPT !.at = "insert", !.user = u, !.made = clock + 1]
<1>1. signIn' = [signIn EXCEPT ![v] = y] /\ clock' = clock + 1
  BY Zenon DEF Granted
<1>2. AccountsTyped /\ signIn[v] \in SignInSet /\ clock \in Nat /\ clock + 1 \in Nat
  BY DEF AccountsInv, AccountsTyped
<1>3. y \in SignInSet
  BY ONLY <1>2, Zenon DEF SignInSet
<1>4. /\ y.at = "insert" /\ y.user = u /\ y.made = clock + 1 /\ y.state = signIn[v].state
  BY ONLY <1>2, Zenon DEF SignInSet
<1> HIDE DEF y
<1>5. signIn' \in [SignIns -> SignInSet] /\ signIn'[v] = y
  BY <1>1, <1>2, <1>3 DEF AccountsTyped
<1>6. \A w \in SignIns : w # v => signIn'[w] = signIn[w]
  BY <1>1, <1>2 DEF AccountsTyped
<1>7. AccountsTyped'
  BY <1>1, <1>2, <1>5 DEF AccountsTyped
<1>8. /\ signIn[v].made = 0 /\ ~Stayed(v)
      /\ \A w \in SignIns : signIn[w].made <= clock /\ signIn[w].made \in Nat
  BY <1>2 DEF AccountsInv, SignInKept, Stayed, AccountsTyped, SignInSet
<1>9. ASSUME NEW w \in SignIns PROVE SignInKept(w)'
  <2>1. SignInKept(w) /\ clock \in Nat
    BY <1>2 DEF AccountsInv
  <2>2. CASE w = v
    BY <1>1, <1>4, <1>5, <2>1, <2>2 DEF SignInKept
  <2>3. CASE w # v
    BY <1>1, <1>6, <2>1, <2>3 DEF SignInKept
  <2> QED BY <2>2, <2>3
<1>10. ASSUME NEW w \in SignIns, NEW x \in SignIns, w # x PROVE SignInsApart(w, x)'
  <2>1. SignInsApart(w, x) /\ signIn[w].made <= clock /\ signIn[x].made <= clock
    BY <1>8, <1>10 DEF AccountsInv
  <2>2. clock \in Nat /\ signIn[w].made \in Nat /\ signIn[x].made \in Nat
    BY <1>2, <1>8
  <2>3. CASE w = v
    BY <1>4, <1>5, <1>6, <1>10, <2>1, <2>2, <2>3 DEF SignInsApart
  <2>4. CASE x = v
    BY <1>4, <1>5, <1>6, <1>10, <2>1, <2>2, <2>4 DEF SignInsApart
  <2>5. CASE w # v /\ x # v
    BY <1>6, <2>1, <2>5 DEF SignInsApart
  <2> QED BY <2>3, <2>4, <2>5
<1>11. \A w \in SignIns : Stayed(w) => w # v /\ signIn'[w] = signIn[w]
  BY <1>6, <1>8
<1>12. \A r \in rows' : RowKept(r)'
  <2>1. ASSUME NEW r \in rows PROVE RowKept(r)'
    <3>1. RowKept(r) /\ r.id \in SignIns
      BY <1>2 DEF AccountsInv, AccountsTyped, RowOf
    <3> QED BY <1>11, <3>1 DEF RowKept, Stayed
  <2> QED BY <2>1
<1>13. PatchKept'
  <2>1. PatchKept /\ disable.seen \subseteq SignIns /\ ended \subseteq SignIns
    BY <1>2 DEF AccountsInv, AccountsTyped, PatchSet
  <2> QED BY <1>11, <2>1 DEF PatchKept, Stayed, DisableEndsSessions
<1>14. SessionsCapped'
  <2>1. ASSUME NEW w \in Accounts PROVE Late(w)' = Late(w)
    BY <1>4, <1>5, <1>6, <1>8 DEF Late, Stayed
  <2>2. \A w \in Accounts : Of(w)' = Of(w)
    BY DEF Of
  <2> QED BY <2>1, <2>2, Zenon DEF AccountsInv, SessionsCapped, Late
<1>15. ClockCounts'
  <2>1. Timed' = Timed \cup {v} /\ v \notin Timed
    BY <1>1, <1>2, <1>4, <1>5, <1>6, <1>8 DEF Timed
  <2>2. IsFiniteSet(Timed)
    BY AccountsAssumption, FS_Subset DEF Timed
  <2>3. Cardinality(Timed \cup {v}) = Cardinality(Timed) + 1
    BY <2>1, <2>2, FS_AddElement
  <2> QED BY <1>1, <2>1, <2>3 DEF ClockCounts
<1> QED BY <1>7, <1>9, <1>10, <1>12, <1>13, <1>14, <1>15 DEF AccountsInv

(* A sign-in that goes on, or is refused, before it gets a time.           *)
LEMMA MoveKeeps ==
  ASSUME AccountsInv, ClockCounts, UsersTyped', NEW v \in SignIns, NEW y \in SignInSet,
         signIn' = [signIn EXCEPT ![v] = y], signIn[v].at \in {"idle", "exchange"},
         y.made = 0, y.at \in {"exchange", "promote", "refused"},
         y.at = "promote" => y.user \in Accounts,
         y.state \notin oauth', oauth' \subseteq oauth,
         \A w \in SignIns : w # v /\ y.state = signIn[w].state => y.state = Nobody,
         UNCHANGED <<rows, clock, disable, ended>>
  PROVE  AccountsInv' /\ ClockCounts'
<1>1. AccountsTyped /\ clock \in Nat
  BY DEF AccountsInv, AccountsTyped
<1>2. signIn' \in [SignIns -> SignInSet] /\ signIn'[v] = y
  BY <1>1 DEF AccountsTyped
<1>3. \A w \in SignIns : w # v => signIn'[w] = signIn[w]
  BY <1>1 DEF AccountsTyped
<1>4. AccountsTyped'
  BY <1>1, <1>2 DEF AccountsTyped
<1>5. signIn[v].made = 0 /\ ~Stayed(v)
  BY <1>1 DEF AccountsInv, SignInKept, Stayed, AccountsTyped
<1>6. ASSUME NEW w \in SignIns PROVE SignInKept(w)'
  <2>1. SignInKept(w)
    BY DEF AccountsInv
  <2>2. CASE w = v
    BY <1>2, <2>2 DEF SignInKept
  <2>3. CASE w # v
    BY <1>3, <2>1, <2>3 DEF SignInKept
  <2> QED BY <2>2, <2>3
<1>7. ASSUME NEW w \in SignIns, NEW x \in SignIns, w # x PROVE SignInsApart(w, x)'
  <2>1. SignInsApart(w, x)
    BY <1>7 DEF AccountsInv
  <2>2. CASE w = v
    BY <1>2, <1>3, <1>7, <2>2 DEF SignInsApart
  <2>3. CASE x = v
    BY <1>2, <1>3, <1>7, <2>3 DEF SignInsApart
  <2>4. CASE w # v /\ x # v
    BY <1>3, <2>1, <2>4 DEF SignInsApart
  <2> QED BY <2>2, <2>3, <2>4
<1>8. \A w \in SignIns : Stayed(w) => w # v /\ signIn'[w] = signIn[w]
  BY <1>3, <1>5
<1>9. \A r \in rows' : RowKept(r)'
  <2>1. ASSUME NEW r \in rows PROVE RowKept(r)'
    <3>1. RowKept(r) /\ r.id \in SignIns
      BY <1>1 DEF AccountsInv, AccountsTyped, RowOf
    <3> QED BY <1>8, <3>1 DEF RowKept, Stayed
  <2> QED BY <2>1
<1>10. PatchKept'
  <2>1. PatchKept /\ disable.seen \subseteq SignIns /\ ended \subseteq SignIns
    BY <1>1 DEF AccountsInv, AccountsTyped, PatchSet
  <2> QED BY <1>8, <2>1 DEF PatchKept, Stayed, DisableEndsSessions
<1>11. SessionsCapped'
  <2>1. ASSUME NEW w \in Accounts PROVE Late(w)' = Late(w)
    BY <1>2, <1>3, <1>5 DEF Late, Stayed
  <2>2. \A w \in Accounts : Of(w)' = Of(w)
    BY DEF Of
  <2> QED BY <2>1, <2>2, Zenon DEF AccountsInv, SessionsCapped, Late
<1>12. ClockCounts'
  <2>1. Timed' = Timed
    BY <1>2, <1>3, <1>5 DEF Timed
  <2> QED BY <2>1 DEF ClockCounts
<1> QED BY <1>4, <1>6, <1>7, <1>9, <1>10, <1>11, <1>12 DEF AccountsInv

(* What touches no sign-in, and adds no session.                           *)
LEMMA RowsFall ==
  ASSUME AccountsInv, ClockCounts, UsersTyped', rows' \subseteq rows,
         oauth' \subseteq OauthStates, \A v \in SignIns : signIn[v].state \notin oauth',
         disable' \in PatchSet, ended' \subseteq SignIns, PatchKept',
         UNCHANGED <<signIn, clock>>
  PROVE  AccountsInv' /\ ClockCounts'
<1>1. AccountsTyped
  BY DEF AccountsInv
<1>2. AccountsTyped'
  BY <1>1, FS_Subset DEF AccountsTyped
<1>3. \A v \in SignIns : SignInKept(v)'
  BY DEF AccountsInv, SignInKept
<1>4. \A v, w \in SignIns : v # w => SignInsApart(v, w)'
  BY DEF AccountsInv, SignInsApart
<1>5. \A r \in rows' : RowKept(r)'
  BY DEF AccountsInv, RowKept, Stayed
<1>6. rows' \in SUBSET rows /\ IsFiniteSet(rows) /\ IsFiniteSet(rows')
  BY <1>1, FS_Subset DEF AccountsTyped
<1>7. ASSUME NEW u \in Accounts PROVE Cardinality(Of(u)') <= SessionCap + Cardinality(Late(u)')
  <2> DEFINE A == Of(u)
             B == Of(u)'
             C == Late(u)
  <2>1. B \subseteq A /\ A \subseteq rows /\ Late(u)' = C /\ C \subseteq SignIns
    BY DEF Of, Late
  <2>2. Cardinality(A) <= SessionCap + Cardinality(C)
    BY DEF AccountsInv, SessionsCapped, Late
  <2> HIDE DEF A, B, C
  <2>3. IsFiniteSet(A) /\ IsFiniteSet(C)
    BY <1>6, <2>1, AccountsAssumption, FS_Subset
  <2>4. Cardinality(B) <= Cardinality(A) /\ Cardinality(B) \in Nat /\ Cardinality(A) \in Nat
    BY <2>1, <2>3, FS_Subset, FS_CardinalityType
  <2>5. Cardinality(C) \in Nat /\ SessionCap \in Nat
    BY <2>3, FS_CardinalityType, AccountsAssumption
  <2>6. Cardinality(B) <= SessionCap + Cardinality(C)
    BY <2>2, <2>4, <2>5
  <2> QED BY <2>1, <2>6 DEF B
<1>8. SessionsCapped'
  BY <1>7, Zenon DEF SessionsCapped, Late
<1>9. AccountsTyped'
  BY <1>2
<1>10. ClockCounts'
  BY DEF ClockCounts, Timed
<1> QED BY <1>3, <1>4, <1>5, <1>8, <1>9, <1>10 DEF AccountsInv

(* The INSERT of a session.                                                *)
LEMMA InsertKeeps ==
  ASSUME AccountsInv, ClockCounts, UsersTyped', NEW v \in SignIns, InsertSession(v)
  PROVE  AccountsInv' /\ ClockCounts'
<1> DEFINE y == [signIn[v] EXCEPT !.at = "trim"]
           new == [id |-> v, user |-> signIn[v].user, at |-> signIn[v].made]
<1>1. /\ AccountsTyped /\ signIn[v] \in SignInSet /\ SignInKept(v) /\ signIn[v].at = "insert"
      /\ rows' = rows \cup {new} /\ signIn' = [signIn EXCEPT ![v] = y]
      /\ UNCHANGED <<users, oauth, clock, disable, ended>>
  BY DEF AccountsInv, AccountsTyped, InsertSession, Move
<1>2. /\ y \in SignInSet /\ y.at = "trim" /\ y.user = signIn[v].user /\ y.made = signIn[v].made
      /\ y.state = signIn[v].state
  BY ONLY <1>1, Zenon DEF SignInSet
<1>3. signIn[v].user \in Accounts /\ signIn[v].made \in 1..clock /\ clock \in Nat
  BY <1>1 DEF SignInKept, AccountsTyped
<1>4. new \in RowOf /\ new.id = v /\ new.user = signIn[v].user /\ new.at = signIn[v].made
  BY <1>3 DEF RowOf
<1> HIDE DEF y, new
<1>5. signIn' \in [SignIns -> SignInSet] /\ signIn'[v] = y
  BY <1>1, <1>2 DEF AccountsTyped
<1>6. \A w \in SignIns : w # v => signIn'[w] = signIn[w]
  BY <1>1 DEF AccountsTyped
<1>7. AccountsTyped'
  <2>1. IsFiniteSet(rows \cup {new})
    BY <1>1, FS_AddElement DEF AccountsTyped
  <2> QED BY <1>1, <1>4, <1>5, <2>1 DEF AccountsTyped
<1>8. ASSUME NEW w \in SignIns PROVE SignInKept(w)'
  <2>1. SignInKept(w) /\ signIn[v].at = "insert"
    BY <1>1 DEF AccountsInv
  <2>2. CASE w = v
    BY <1>1, <1>2, <1>3, <1>5, <2>1, <2>2 DEF SignInKept
  <2>3. CASE w # v
    BY <1>1, <1>6, <2>1, <2>3 DEF SignInKept
  <2> QED BY <2>2, <2>3
<1>9. ASSUME NEW w \in SignIns, NEW x \in SignIns, w # x PROVE SignInsApart(w, x)'
  <2>1. SignInsApart(w, x)
    BY <1>9 DEF AccountsInv
  <2>2. \A z \in SignIns : signIn'[z].made = signIn[z].made /\ signIn'[z].state = signIn[z].state
    BY <1>2, <1>5, <1>6
  <2> QED BY <2>1, <2>2 DEF SignInsApart
<1>10. \A w \in SignIns : Stayed(w) => w # v /\ signIn'[w] = signIn[w]
  BY <1>1, <1>6 DEF Stayed
<1>11. \A r \in rows' : RowKept(r)'
  <2>1. ASSUME NEW r \in rows PROVE RowKept(r)'
    <3>1. RowKept(r) /\ r.id \in SignIns
      BY <1>1 DEF AccountsInv, AccountsTyped, RowOf
    <3> QED BY <1>10, <3>1 DEF RowKept, Stayed
  <2>2. ASSUME NEW r \in rows', r \notin rows PROVE RowKept(r)'
    <3>1. r.id = v /\ r.user = signIn[v].user /\ r.at = signIn[v].made
      BY <1>1, <1>4, <2>2
    <3> QED BY <1>2, <1>5, <3>1 DEF RowKept, Stayed
  <2> QED BY <2>1, <2>2
<1>12. PatchKept'
  <2>1. PatchKept /\ disable.seen \subseteq SignIns /\ ended \subseteq SignIns
    BY <1>1 DEF AccountsInv, AccountsTyped, PatchSet
  <2>2. new.id \notin ended
    BY <1>4, <1>10, <2>1 DEF PatchKept
  <2> QED BY <1>1, <1>10, <2>1, <2>2 DEF PatchKept, Stayed, DisableEndsSessions
<1>13. ASSUME NEW u \in Accounts PROVE Cardinality(Of(u)') <= SessionCap + Cardinality(Late(u)')
  <2> DEFINE A == Of(u)
             B == Of(u)'
             C == Late(u)
             D == Late(u)'
  <2>1. A \subseteq rows /\ C \subseteq SignIns /\ D \subseteq SignIns
    BY DEF Of, Late
  <2>2. Cardinality(A) <= SessionCap + Cardinality(C)
    BY DEF AccountsInv, SessionsCapped, Late
  <2>3. CASE u # signIn[v].user
    <3>1. B = A
      BY <1>1, <1>4, <2>3 DEF Of
    <3>2. D = C
      BY <1>1, <1>2, <1>5, <1>6, <2>3 DEF Late
    <3> QED BY <2>2, <3>1, <3>2
  <2>4. CASE u = signIn[v].user
    <3>1. B = A \cup {new}
      BY <1>1, <1>4, <2>4 DEF Of
    <3>2. D = C \cup {v} /\ v \notin C
      BY <1>1, <1>2, <1>5, <1>6, <2>4 DEF Late
    <3> HIDE DEF A, B, C, D
    <3>3. IsFiniteSet(A) /\ IsFiniteSet(C)
      BY <1>1, <2>1, AccountsAssumption, FS_Subset DEF AccountsTyped
    <3>4. /\ Cardinality(A \cup {new}) <= Cardinality(A) + 1
          /\ Cardinality(A \cup {new}) \in Nat
          /\ Cardinality(C \cup {v}) = Cardinality(C) + 1
      <4>1. Cardinality(A) \in Nat
        BY <3>3, FS_CardinalityType
      <4>2. IsFiniteSet(A \cup {new}) /\ Cardinality(A \cup {new}) \in {Cardinality(A), Cardinality(A) + 1}
        BY <3>3, FS_AddElement
      <4>3. Cardinality(C \cup {v}) = Cardinality(C) + 1
        BY <3>2, <3>3, FS_AddElement
      <4> QED BY <4>1, <4>2, <4>3
    <3>5. Cardinality(A) \in Nat /\ Cardinality(C) \in Nat /\ SessionCap \in Nat
      BY <3>3, FS_CardinalityType, AccountsAssumption
    <3>6. Cardinality(B) <= SessionCap + Cardinality(D)
      BY <2>2, <3>1, <3>2, <3>4, <3>5
    <3> QED BY <3>6 DEF B, D
  <2> QED BY <2>3, <2>4
<1>14. SessionsCapped'
  BY <1>13, Zenon DEF SessionsCapped, Late
<1>15. ClockCounts'
  <2>1. Timed' = Timed
    BY <1>2, <1>5, <1>6 DEF Timed
  <2> QED BY <1>1, <2>1 DEF ClockCounts
<1> QED BY <1>7, <1>8, <1>9, <1>11, <1>12, <1>14, <1>15 DEF AccountsInv

(* The rows of one account are apart in time.                              *)
LEMMA RowsOf ==
  ASSUME AccountsInv, NEW u
  PROVE  /\ IsFiniteSet(Of(u)) /\ Of(u) \subseteq rows /\ Kept(u) = Newest(Of(u), SessionCap)
         /\ \A r \in Of(u) : r.at \in Nat /\ r.at <= clock
         /\ \A r, o \in Of(u) : r.at = o.at => r = o
<1>1. Of(u) \subseteq rows /\ IsFiniteSet(rows) /\ rows \subseteq RowOf
  BY DEF Of, AccountsInv, AccountsTyped
<1>2. IsFiniteSet(Of(u))
  BY <1>1, FS_Subset
<1>3. Kept(u) = Newest(Of(u), SessionCap)
  BY Zenon DEF Kept, Newest, Above
<1>4. ASSUME NEW r \in Of(u) PROVE r.at \in 1..clock /\ r.at = signIn[r.id].made /\ r.id \in SignIns
  <2>1. RowKept(r) /\ r.id \in SignIns
    BY <1>1 DEF AccountsInv, RowOf
  <2>2. SignInKept(r.id)
    BY <2>1 DEF AccountsInv
  <2> QED BY <2>1, <2>2 DEF RowKept, SignInKept, Stayed
<1>5. clock \in Nat
  BY DEF AccountsInv, AccountsTyped
<1>6. ASSUME NEW r \in Of(u), NEW o \in Of(u), r.at = o.at PROVE r = o
  <2>1. CASE r.id # o.id
    <3>1. SignInsApart(r.id, o.id)
      BY <1>4, <2>1 DEF AccountsInv
    <3>2. signIn[r.id].made = signIn[o.id].made /\ signIn[r.id].made \in 1..clock
      BY <1>4, <1>6
    <3> QED BY <1>5, <3>1, <3>2 DEF SignInsApart
  <2>2. CASE r.id = o.id
    <3>1. r \in RowOf /\ o \in RowOf /\ r.user = u /\ o.user = u
      BY <1>1 DEF Of
    <3> QED BY <1>6, <2>2, <3>1 DEF RowOf
  <2> QED BY <2>1, <2>2
<1> QED BY <1>1, <1>2, <1>3, <1>4, <1>5, <1>6

(* The DELETE of what is over the cap.                                     *)
LEMMA TrimKeeps ==
  ASSUME AccountsInv, ClockCounts, UsersTyped', NEW v \in SignIns, TrimSessions(v)
  PROVE  AccountsInv' /\ ClockCounts'
<1> DEFINE y == [signIn[v] EXCEPT !.at = "done"]
<1>0. PICK a : a = signIn[v].user
  OBVIOUS
<1>1. /\ AccountsTyped /\ signIn[v] \in SignInSet /\ SignInKept(v) /\ signIn[v].at = "trim"
      /\ rows' = (rows \ Of(a)) \cup Kept(a) /\ signIn' = [signIn EXCEPT ![v] = y]
      /\ UNCHANGED <<users, oauth, clock, disable, ended>>
  BY <1>0 DEF AccountsInv, AccountsTyped, TrimSessions, Move
<1>2. /\ y \in SignInSet /\ y.at = "done" /\ y.user = signIn[v].user /\ y.made = signIn[v].made
      /\ y.state = signIn[v].state
  BY ONLY <1>1, Zenon DEF SignInSet
<1>3. Kept(a) \subseteq Of(a) /\ Of(a) \subseteq rows
  BY DEF Kept, Of
<1> HIDE DEF y
<1>4. rows' \in SUBSET rows
  BY <1>1, <1>3
<1>5. signIn' \in [SignIns -> SignInSet] /\ signIn'[v] = y
  BY <1>1, <1>2 DEF AccountsTyped
<1>6. \A w \in SignIns : w # v => signIn'[w] = signIn[w]
  BY <1>1 DEF AccountsTyped
<1>7. AccountsTyped'
  <2>1. IsFiniteSet(rows')
    BY <1>1, <1>4, FS_Subset DEF AccountsTyped
  <2> QED BY <1>1, <1>4, <1>5, <2>1 DEF AccountsTyped
<1>8. \A w \in SignIns : /\ signIn'[w].made = signIn[w].made /\ signIn'[w].state = signIn[w].state
                         /\ signIn'[w].user = signIn[w].user
                         /\ Stayed(w) => Stayed(w)'
                         /\ ~Stayed(w) => signIn'[w] = signIn[w]
  BY <1>1, <1>2, <1>5, <1>6 DEF Stayed
<1>9. ASSUME NEW w \in SignIns PROVE SignInKept(w)'
  <2>1. SignInKept(w)
    BY DEF AccountsInv
  <2>2. CASE w = v
    BY <1>1, <1>2, <1>5, <2>2 DEF SignInKept
  <2>3. CASE w # v
    BY <1>1, <1>6, <2>1, <2>3 DEF SignInKept
  <2> QED BY <2>2, <2>3
<1>10. ASSUME NEW w \in SignIns, NEW x \in SignIns, w # x PROVE SignInsApart(w, x)'
  <2>1. SignInsApart(w, x)
    BY <1>10 DEF AccountsInv
  <2> QED BY <1>8, <2>1 DEF SignInsApart
<1>11. \A r \in rows' : RowKept(r)'
  <2>1. ASSUME NEW r \in rows PROVE RowKept(r)'
    <3>1. RowKept(r) /\ r.id \in SignIns
      BY <1>1 DEF AccountsInv, AccountsTyped, RowOf
    <3>2. Stayed(r.id)'
      BY <1>8, <3>1 DEF RowKept
    <3> QED BY <1>8, <3>1, <3>2 DEF RowKept
  <2> QED BY <1>4, <2>1
<1>12. PatchKept'
  <2>1. PatchKept /\ disable.seen \subseteq SignIns /\ ended \subseteq SignIns
    BY <1>1 DEF AccountsInv, AccountsTyped, PatchSet
  <2>2. \A w \in disable.seen : Stayed(w)' /\ signIn'[w].user = disable.user
    BY <1>8, <2>1 DEF PatchKept
  <2>3. \A w \in ended : Stayed(w)'
    BY <1>8, <2>1 DEF PatchKept
  <2>4. DisableEndsSessions'
    BY <1>1, <1>4, <2>1 DEF PatchKept, DisableEndsSessions
  <2> QED BY <1>1, <2>2, <2>3, <2>4 DEF PatchKept
<1>13. ASSUME NEW u \in Accounts PROVE Cardinality(Of(u)') <= SessionCap + Cardinality(Late(u)')
  <2> DEFINE A == Of(u)
             B == Of(u)'
             C == Late(u)
             D == Late(u)'
  <2>1. A \subseteq rows /\ C \subseteq SignIns /\ D \subseteq SignIns
    BY DEF Of, Late
  <2>2. Cardinality(A) <= SessionCap + Cardinality(C)
    BY DEF AccountsInv, SessionsCapped, Late
  <2>3. CASE u # a
    <3>1. B = A
      BY <1>1, <2>3 DEF Of, Kept
    <3>2. D = C
      BY <1>0, <1>1, <1>2, <1>5, <1>6, <2>3 DEF Late
    <3> QED BY <2>2, <3>1, <3>2
  <2>4. CASE u = a
    <3>1. B = Newest(A, SessionCap)
      <4>1. B = Kept(u)
        BY <1>1, <2>4 DEF Of, Kept
      <4> QED BY <4>1, RowsOf
    <3> HIDE DEF A, B, C, D
    <3>2. SessionCap \in Nat \ {0} /\ SessionCap \in Nat
      BY AccountsAssumption
    <3>3. Cardinality(Newest(A, SessionCap)) <= SessionCap
      BY <3>2, RowsOf, NewestAreFew DEF A
    <3>4. IsFiniteSet(B) /\ IsFiniteSet(D)
      <4>1. IsFiniteSet(A) /\ B \subseteq A
        BY <3>1, RowsOf DEF Newest, A
      <4> QED BY <2>1, <4>1, AccountsAssumption, FS_Subset
    <3>5. Cardinality(B) \in Nat /\ Cardinality(D) \in Nat
      BY <3>4, FS_CardinalityType
    <3>6. Cardinality(B) <= SessionCap + Cardinality(D)
      BY <3>1, <3>2, <3>3, <3>5
    <3> QED BY <3>6 DEF B, D
  <2> QED BY <2>3, <2>4
<1>14. SessionsCapped'
  BY <1>13, Zenon DEF SessionsCapped, Late
<1>15. ClockCounts'
  <2>1. Timed' = Timed
    BY <1>8 DEF Timed
  <2> QED BY <1>1, <2>1 DEF ClockCounts
<1> QED BY <1>7, <1>9, <1>10, <1>11, <1>12, <1>14, <1>15 DEF AccountsInv

LEMMA AccountsKeep ==
  AccountsInv /\ ClockCounts /\ [Next]_consoleVars => AccountsInv' /\ ClockCounts'
<1> SUFFICES ASSUME AccountsInv, ClockCounts, [Next]_consoleVars PROVE AccountsInv' /\ ClockCounts'
  OBVIOUS
<1> USE AccountsAssumption
<1>1. AccountsTyped /\ UsersTyped /\ UsersTyped'
  BY UsersTypes DEF AccountsInv, AccountsTyped
<1>2. /\ oauth \subseteq OauthStates /\ disable \in PatchSet /\ ended \subseteq SignIns /\ PatchKept
      /\ \A v \in SignIns : signIn[v].state \notin oauth
      /\ \A v \in SignIns : signIn[v] \in SignInSet
  BY <1>1 DEF AccountsInv, AccountsTyped, SignInKept
<1>3. ASSUME UNCHANGED <<signIn, clock, disable, ended>>, rows' \subseteq rows, oauth' \subseteq OauthStates,
             \A v \in SignIns : signIn[v].state \notin oauth'
      PROVE  AccountsInv' /\ ClockCounts'
  <2>1. PatchKept'
    BY <1>2, <1>3 DEF PatchKept, Stayed, DisableEndsSessions
  <2> QED BY <1>1, <1>2, <1>3, <2>1, RowsFall
<1>4. CASE UNCHANGED accountVars
  BY <1>2, <1>3, <1>4 DEF accountVars
<1>5. ASSUME NEW v \in SignIns, NEW u \in Locals, PasswordSignIn(v, u)
      PROVE  AccountsInv' /\ ClockCounts'
  <2>1. u \in Accounts
    BY DEF Accounts
  <2> QED BY <1>1, <1>5, <2>1, GrantKeeps DEF PasswordSignIn
<1>6. ASSUME NEW s \in OauthStates, BeginOauth(s) PROVE AccountsInv' /\ ClockCounts'
  <2>1. oauth' \subseteq OauthStates /\ \A v \in SignIns : signIn[v].state \notin oauth'
    BY <1>2, <1>6 DEF BeginOauth
  <2> QED BY <1>3, <1>6, <2>1 DEF BeginOauth
<1>7. ASSUME NEW v \in SignIns, NEW s \in OauthStates, Callback(v, s)
      PROVE  AccountsInv' /\ ClockCounts'
  <2> DEFINE y == [signIn[v] EXCEPT !.at = "exchange", !.state = s]
  <2>1. signIn' = [signIn EXCEPT ![v] = y] /\ signIn[v].at = "idle" /\ signIn[v] \in SignInSet
    BY <1>2, <1>7, Zenon DEF Callback
  <2>2. y \in SignInSet /\ y.at = "exchange" /\ y.state = s /\ y.made = signIn[v].made
    BY ONLY <2>1, Zenon DEF SignInSet
  <2> HIDE DEF y
  <2>3. signIn[v].made = 0
    BY <2>1 DEF AccountsInv, SignInKept
  <2>4. s \in oauth /\ oauth' = oauth \ {s} /\ UNCHANGED <<rows, clock, disable, ended>>
    BY <1>7 DEF Callback, Consumed
  <2>5. \A w \in SignIns : signIn[w].state # s
    BY <1>2, <2>4
  <2> QED BY <1>1, <2>1, <2>2, <2>3, <2>4, <2>5, MoveKeeps
<1>8. ASSUME NEW v \in SignIns, NEW b, signIn' = [signIn EXCEPT ![v].at = "refused"] \/
               (b \in Accounts /\ signIn' = [signIn EXCEPT ![v] = [@ EXCEPT !.at = "promote", !.user = b]]),
             signIn[v].at = "exchange", UNCHANGED <<rows, oauth, clock, disable, ended>>
      PROVE  AccountsInv' /\ ClockCounts'
  <2>1. signIn[v] \in SignInSet
    BY <1>2
  <2>2. PICK y : /\ y = [signIn[v] EXCEPT !.at = "refused"] \/
                    (b \in Accounts /\ y = [signIn[v] EXCEPT !.at = "promote", !.user = b])
                 /\ signIn' = [signIn EXCEPT ![v] = y]
    BY <1>8, Zenon
  <2>3. /\ y \in SignInSet /\ y.state = signIn[v].state /\ y.made = signIn[v].made
        /\ y.at \in {"promote", "refused"}
        /\ y.at = "promote" => y.user \in Accounts
    <3>1. CASE y = [signIn[v] EXCEPT !.at = "refused"]
      BY ONLY <2>1, <3>1, Zenon DEF SignInSet
    <3>2. CASE b \in Accounts /\ y = [signIn[v] EXCEPT !.at = "promote", !.user = b]
      BY ONLY <2>1, <3>2, Zenon DEF SignInSet
    <3> QED BY <2>2, <3>1, <3>2
  <2>4. signIn[v].made = 0 /\ signIn[v].state \notin oauth
    BY <1>8 DEF AccountsInv, SignInKept
  <2>5. \A w \in SignIns : w # v /\ y.state = signIn[w].state => y.state = Nobody
    BY <2>3 DEF AccountsInv, SignInsApart
  <2> QED BY <1>1, <1>8, <2>2, <2>3, <2>4, <2>5, MoveKeeps
<1>9. ASSUME NEW v \in SignIns, ExchangeFails(v) PROVE AccountsInv' /\ ClockCounts'
  BY <1>8, <1>9, Zenon DEF ExchangeFails, Move
<1>10. ASSUME NEW v \in SignIns, NEW u \in Githubs, Upsert(v, u) PROVE AccountsInv' /\ ClockCounts'
  <2>1. u \in Accounts
    BY DEF Accounts
  <2>2. /\ signIn[v].at = "exchange" /\ UNCHANGED <<rows, oauth, disable, ended>>
        /\ \/ Move(v, "refused") /\ UNCHANGED clock
           \/ /\ signIn' = [signIn EXCEPT ![v] = [@ EXCEPT !.at = "promote", !.user = u]]
              /\ UNCHANGED clock
           \/ Granted(v, u)
    BY <1>10, Zenon DEF Upsert
  <2>3. CASE Granted(v, u)
    BY <1>1, <2>1, <2>2, <2>3, GrantKeeps
  <2>4. CASE ~Granted(v, u)
    BY <1>8, <2>1, <2>2, <2>4, Zenon DEF Move
  <2> QED BY <2>3, <2>4
<1>11. ASSUME NEW v \in SignIns, Promote(v) PROVE AccountsInv' /\ ClockCounts'
  <2>1. PICK u : u = signIn[v].user
    OBVIOUS
  <2>2. u \in Accounts
    BY <1>11, <2>1 DEF Promote, AccountsInv, SignInKept
  <2>3. Granted(v, u)
    BY <1>11, <2>1, Zenon DEF Promote
  <2>4. signIn[v].at = "promote" /\ UNCHANGED <<rows, oauth, disable, ended>>
    BY <1>11, Zenon DEF Promote
  <2> QED BY <1>1, <2>2, <2>3, <2>4, GrantKeeps
<1>12. ASSUME NEW v \in SignIns, InsertSession(v) PROVE AccountsInv' /\ ClockCounts'
  BY <1>1, <1>12, InsertKeeps
<1>13. ASSUME NEW v \in SignIns, TrimSessions(v) PROVE AccountsInv' /\ ClockCounts'
  BY <1>1, <1>13, TrimKeeps
<1>14. ASSUME NEW r \in rows, Logout(r) PROVE AccountsInv' /\ ClockCounts'
  BY <1>2, <1>3, <1>14 DEF Logout
<1>15. ASSUME NEW r \in rows, NEW u \in Accounts, DisableUser(r, u)
       PROVE  AccountsInv' /\ ClockCounts'
  <2>1. /\ disable' = [user |-> u, seen |-> {o.id : o \in Of(u)}]
        /\ UNCHANGED <<rows, oauth, signIn, clock, ended>>
    BY <1>15 DEF DisableUser
  <2>2. \A o \in Of(u) : o \in rows /\ o.id \in SignIns /\ o.user = u
    BY <1>1 DEF AccountsTyped, RowOf, Of
  <2>3. disable' \in PatchSet /\ disable'.user = u /\ disable'.seen = {o.id : o \in Of(u)}
    BY <2>1, <2>2 DEF PatchSet
  <2>4. \A o \in Of(u) : Stayed(o.id) /\ signIn[o.id].user = u
    BY <2>2 DEF AccountsInv, RowKept
  <2>5. PatchKept'
    BY <1>2, <2>1, <2>3, <2>4 DEF PatchKept, Stayed, DisableEndsSessions
  <2> QED BY <1>1, <1>2, <2>1, <2>3, <2>5, RowsFall
<1>16. CASE SweepSessions
  <2>1. /\ rows' = rows \ Of(disable.user) /\ ended' = ended \cup disable.seen
        /\ disable' = NoPatch /\ UNCHANGED <<users, oauth, signIn, clock>>
    BY <1>16 DEF SweepSessions, Swept
  <2>2. disable' \in PatchSet /\ disable'.seen = {} /\ ended' \subseteq SignIns
    BY <1>2, <2>1 DEF PatchSet, NoPatch
  <2>3. \A r \in rows' : r \in rows /\ r.user # disable.user
    BY <2>1 DEF Of
  <2>4. \A r \in rows' : r.id \notin disable.seen
    <3>1. ASSUME NEW r \in rows', r.id \in disable.seen PROVE FALSE
      BY <1>2, <2>3, <3>1 DEF PatchKept, AccountsInv, RowKept
    <3> QED BY <3>1
  <2>5. PatchKept'
    BY <1>2, <2>1, <2>2, <2>3, <2>4 DEF PatchKept, Stayed, DisableEndsSessions
  <2> QED BY <1>1, <1>2, <2>1, <2>2, <2>3, <2>5, RowsFall
<1>17. ASSUME NEW r \in rows, NEW u \in Accounts, EnableUser(r, u) PROVE AccountsInv' /\ ClockCounts'
  BY <1>2, <1>3, <1>17 DEF EnableUser
<1>18. ASSUME NEW r \in rows, NEW u \in Accounts, NEW f \in BOOLEAN, SetAdmin(r, u, f)
       PROVE  AccountsInv' /\ ClockCounts'
  BY <1>2, <1>3, <1>18 DEF SetAdmin
<1> QED BY <1>4, <1>5, <1>6, <1>7, <1>9, <1>10, <1>11, <1>12, <1>13, <1>14, <1>15, <1>16, <1>17,
           <1>18, AccountsStep, Zenon

LEMMA StatesUsedOnce == AccountsInv => StateUsedOnce
<1> SUFFICES ASSUME AccountsInv, NEW s \in OauthStates
             PROVE  Cardinality({v \in SignIns : signIn[v].state = s}) <= 1
  BY DEF StateUsedOnce
<1> DEFINE A == {v \in SignIns : signIn[v].state = s}
<1>1. \A v, w \in A : v = w
  <2>1. s # Nobody
    BY AccountsAssumption DEF Nobody
  <2> QED BY <2>1 DEF AccountsInv, SignInsApart
<1>2. CASE A = {}
  BY <1>2, FS_EmptySet
<1>3. CASE A # {}
  <2>1. PICK v : A = {v}
    BY <1>1, <1>3
  <2>2. Cardinality({v}) = 1
    BY FS_Singleton
  <2> QED BY <2>1, <2>2
<1> QED BY <1>2, <1>3

LEMMA AccountsTypesHold == AccountsInv /\ ClockCounts => AccountsTypeOK
<1> SUFFICES ASSUME AccountsInv, ClockCounts PROVE AccountsTypeOK
  OBVIOUS
<1>1. AccountsTyped
  BY DEF AccountsInv
<1>2. Timed \subseteq SignIns /\ IsFiniteSet(SignIns)
  BY AccountsAssumption DEF Timed
<1>3. Cardinality(Timed) <= Cardinality(SignIns) /\ Cardinality(SignIns) \in Nat
  BY <1>2, FS_Subset, FS_CardinalityType
<1>4. clock <= Cardinality(SignIns) /\ clock \in Nat
  BY <1>1, <1>3 DEF ClockCounts, AccountsTyped
<1>5. ASSUME NEW r \in rows PROVE r \in [id : SignIns, user : Accounts, at : 1..Cardinality(SignIns)]
  <2>1. RowKept(r) /\ r \in RowOf /\ r.id \in SignIns
    BY <1>1 DEF AccountsInv, AccountsTyped, RowOf
  <2>2. SignInKept(r.id)
    BY <2>1 DEF AccountsInv
  <2>3. r.at \in 1..clock
    BY <2>1, <2>2 DEF RowKept, SignInKept, Stayed
  <2>4. r.at \in 1..Cardinality(SignIns)
    BY <1>3, <1>4, <2>3
  <2> QED BY <2>1, <2>4 DEF RowOf
<1> QED BY <1>1, <1>5 DEF AccountsTypeOK, AccountsTyped, UsersTyped, UserSet

(* Only TrimSessions ends a sign-in.                                       *)
LEMMA TrimEnds ==
  ASSUME AccountsInv, [Next]_consoleVars, NEW v \in SignIns, signIn[v].at = "trim",
         signIn'[v].at = "done"
  PROVE  \E w \in SignIns : TrimSessions(w)
<1>1. signIn \in [SignIns -> SignInSet]
  BY DEF AccountsInv, AccountsTyped
<1>2. CASE signIn' = signIn
  BY <1>2
<1>3. ASSUME NEW w \in SignIns, signIn[w].at # "trim", NEW y, signIn' = [signIn EXCEPT ![w] = y]
      PROVE  FALSE
  BY <1>1, <1>3
<1>4. ASSUME NEW w \in SignIns, NEW u, Granted(w, u), signIn[w].at # "trim" PROVE FALSE
  BY <1>3, <1>4, Zenon DEF Granted
<1>5. CASE UNCHANGED accountVars
  BY <1>2, <1>5 DEF accountVars
<1>6. ASSUME NEW w \in SignIns, NEW u \in Locals, PasswordSignIn(w, u) PROVE FALSE
  BY <1>4, <1>6 DEF PasswordSignIn
<1>7. ASSUME NEW s, BeginOauth(s) PROVE FALSE
  BY <1>2, <1>7 DEF BeginOauth
<1>8. ASSUME NEW w \in SignIns, NEW s, Callback(w, s) PROVE FALSE
  BY <1>3, <1>8 DEF Callback
<1>9. ASSUME NEW w \in SignIns, ExchangeFails(w) PROVE FALSE
  BY <1>3, <1>9 DEF ExchangeFails, Move
<1>10. ASSUME NEW w \in SignIns, NEW u \in Githubs, Upsert(w, u) PROVE FALSE
  <2>1. /\ signIn[w].at = "exchange"
        /\ \/ Move(w, "refused")
           \/ signIn' = [signIn EXCEPT ![w] = [@ EXCEPT !.at = "promote", !.user = u]]
           \/ Granted(w, u)
    BY <1>10, Zenon DEF Upsert
  <2> QED BY <1>3, <1>4, <2>1 DEF Move
<1>11. ASSUME NEW w \in SignIns, Promote(w) PROVE FALSE
  BY <1>4, <1>11 DEF Promote
<1>12. ASSUME NEW w \in SignIns, InsertSession(w) PROVE FALSE
  BY <1>3, <1>12 DEF InsertSession, Move
<1>13. ASSUME NEW r, Logout(r) \/ SweepSessions PROVE FALSE
  BY <1>2, <1>13 DEF Logout, SweepSessions
<1>14. ASSUME NEW r, NEW u, DisableUser(r, u) \/ EnableUser(r, u) PROVE FALSE
  BY <1>2, <1>14 DEF DisableUser, EnableUser
<1>15. ASSUME NEW r, NEW u, NEW f, SetAdmin(r, u, f) PROVE FALSE
  BY <1>2, <1>15 DEF SetAdmin
<1> QED BY <1>5, <1>6, <1>7, <1>8, <1>9, <1>10, <1>11, <1>12, <1>13, <1>14, <1>15,
           AccountsStep, Zenon

LEMMA NewestStay ==
  ASSUME AccountsInv, [Next]_consoleVars, NEW v \in SignIns, signIn[v].at = "trim",
         signIn'[v].at = "done", NEW r \in rows \ rows'
  PROVE  Cardinality({o \in rows' : o.user = r.user /\ o.at > r.at}) >= SessionCap
<1>1. PICK w \in SignIns : TrimSessions(w)
  BY TrimEnds
<1>2. PICK u : u = signIn[w].user
  OBVIOUS
<1>3. rows' = (rows \ Of(u)) \cup Kept(u)
  BY <1>1, <1>2 DEF TrimSessions
<1>4. Kept(u) = Newest(Of(u), SessionCap) /\ r \in Of(u) /\ r \notin Kept(u)
  BY <1>3, RowsOf
<1>5. {o \in rows' : o.user = r.user /\ o.at > r.at} = Above(Newest(Of(u), SessionCap), r)
  BY <1>3, <1>4 DEF Of, Above, Kept
<1>6. clock \in Nat /\ SessionCap \in Nat \ {0}
  BY AccountsAssumption DEF AccountsInv, AccountsTyped
<1>7. Cardinality(Above(Newest(Of(u), SessionCap), r)) >= SessionCap
  BY <1>4, <1>6, RowsOf, NewestAreKept
<1> QED BY <1>5, <1>7

(* For any number of accounts and sign-ins and any cap: an OAuth state lets*)
(* one callback through, an account has SessionCap sessions and those that *)
(* are being trimmed, a disabled one's sessions are over for good, and a   *)
(* sign-in ends none that is among the SessionCap newest.                  *)
THEOREM SessionsAreKept == Spec => SessionsKept
<1>1. Spec => [](AccountsInv /\ ClockCounts)
  BY AccountsStart, AccountsKeep, PTL DEF Spec
<1>2. AccountsInv => SessionsHold
  BY StatesUsedOnce DEF SessionsHold, AccountsInv, PatchKept
<1>3. AccountsInv /\ [Next]_consoleVars =>
        [(\E v \in SignIns : signIn[v].at = "trim" /\ signIn'[v].at = "done")
         => \A r \in rows \ rows' :
              Cardinality({o \in rows' : o.user = r.user /\ o.at > r.at}) >= SessionCap]_accountVars
  BY NewestStay
<1> QED BY <1>1, <1>2, <1>3, PTL DEF Spec, SessionsKept, NewestSurvives

-----------------------------------------------------------------------------
(* The rows of instances, and their backup.                                *)
LEMMA BackupStep ==
  ASSUME [Next]_consoleVars
  PROVE  \/ UNCHANGED backupDbVars
         \/ \E q \in Creates, c \in Consoles, s \in Slugs : CountInstances(q, c, s)
         \/ \E q \in Creates : \/ FindName(q) \/ InsertInstance(q) \/ InsertConfig(q)
                               \/ InsertEndpoint(q)
         \/ \E c \in Consoles : ConsoleKilled(c)
         \/ \E c \in Consoles, s \in {"running", "deleted"} : \E r \in instances[c] : SetStatus(c, r, s)
         \/ Export \/ Restore
BY Zenon DEF Next, In, consoleVars

InstanceSet == [id : Creates, slug : Slugs, status : {"stopped", "running", "deleted"}]
EndpointSet == [id : Creates, active : BOOLEAN]
CreateSet == [at : {"idle", "name", "insert", "config", "endpoint", "refused", "done", "lost"},
              where : Consoles, slug : Slugs \cup {"none"}]
DocumentSet == [ready : BOOLEAN, instances : SUBSET InstanceSet, configs : SUBSET Creates,
                endpoints : SUBSET EndpointSet]
ImportSet == [id : Creates, was : {"stopped", "running", "deleted"}]

BackupTyped ==
  /\ instances \in [Consoles -> SUBSET InstanceSet] /\ configs \in [Consoles -> SUBSET Creates]
  /\ endpoints \in [Consoles -> SUBSET EndpointSet] /\ create \in [Creates -> CreateSet]
  /\ document \in DocumentSet /\ imported \subseteq ImportSet /\ overlap \in [Consoles -> Nat]
  /\ \A q \in Creates : create[q].at # "idle" => create[q].slug \in Slugs

(* A request moves, and keeps its Console and its name.                    *)
LEMMA MovesTo ==
  ASSUME create \in [Creates -> CreateSet], NEW q \in Creates, NEW from,
         NEW to \in {"refused", "insert", "config", "endpoint", "done"}, Moves(q, from, to)
  PROVE  /\ create' \in [Creates -> CreateSet] /\ create[q].at = from /\ create'[q].at = to
         /\ \A p \in Creates : /\ create'[p].where = create[p].where
                               /\ create'[p].slug = create[p].slug
                               /\ p # q => create'[p] = create[p]
BY DEF Moves, CreateSet

LEMMA BackupTypes == BackupTyped /\ [Next]_consoleVars => BackupTyped'
<1> SUFFICES ASSUME BackupTyped, [Next]_consoleVars PROVE BackupTyped'
  OBVIOUS
<1> USE DEF BackupTyped
<1>1. CASE UNCHANGED backupDbVars
  BY <1>1 DEF backupDbVars
<1>2. ASSUME NEW q \in Creates, NEW c \in Consoles, NEW s \in Slugs, CountInstances(q, c, s)
      PROVE  BackupTyped'
  <2>1. create' \in [Creates -> CreateSet] /\ \A p \in Creates : create'[p].at # "idle" => create'[p].slug \in Slugs
    BY <1>2 DEF CountInstances, CreateSet
  <2>2. IsFiniteSet(Asking(c) \cup {q})
    <3>1. Asking(c) \cup {q} \in SUBSET Creates
      BY DEF Asking
    <3> QED BY <3>1, BackupAssumption, FS_Subset
  <2>3. Cardinality(Asking(c) \cup {q}) \in Nat
    BY <2>2, FS_CardinalityType
  <2>4. overlap' \in [Consoles -> Nat]
    BY <1>2, <2>3 DEF CountInstances, Larger
  <2> QED BY <1>2, <2>1, <2>4 DEF CountInstances
<1>3. ASSUME NEW q \in Creates, FindName(q) PROVE BackupTyped'
  <2>1. PICK to \in {"refused", "insert"} : Moves(q, "name", to)
    BY <1>3, Zenon DEF FindName
  <2>2. /\ create' \in [Creates -> CreateSet]
        /\ \A p \in Creates : create'[p].at # "idle" => create'[p].slug \in Slugs
    BY <2>1, MovesTo
  <2> QED BY <1>3, <2>2 DEF FindName
<1>4. ASSUME NEW q \in Creates, InsertInstance(q) PROVE BackupTyped'
  <2>1. PICK to \in {"refused", "config"} : Moves(q, "insert", to)
    BY <1>4, Zenon DEF InsertInstance
  <2>2. /\ create' \in [Creates -> CreateSet] /\ create[q].at = "insert"
        /\ \A p \in Creates : create'[p].at # "idle" => create'[p].slug \in Slugs
    BY <2>1, MovesTo
  <2>3. CASE instances' = instances
    BY <1>4, <2>2, <2>3 DEF InsertInstance
  <2>4. CASE instances' # instances
    <3>1. PICK c \in Consoles, row1 \in InstanceSet : instances' = [instances EXCEPT ![c] = @ \cup {row1}]
      <4>1. [id |-> q, slug |-> create[q].slug, status |-> "stopped"] \in InstanceSet
        BY <2>2 DEF InstanceSet
      <4>2. create[q].where \in Consoles
        BY DEF CreateSet
      <4> QED BY <1>4, <2>4, <4>1, <4>2, Zenon DEF InsertInstance
    <3>2. instances' \in [Consoles -> SUBSET InstanceSet]
      BY <3>1
    <3> QED BY <1>4, <2>2, <3>2 DEF InsertInstance
  <2> QED BY <2>3, <2>4
<1>5. ASSUME NEW q \in Creates, InsertConfig(q) PROVE BackupTyped'
  <2>1. Moves(q, "config", "endpoint")
    BY <1>5 DEF InsertConfig
  <2>2. /\ create' \in [Creates -> CreateSet] /\ create[q].at = "config"
        /\ \A p \in Creates : create'[p].at # "idle" => create'[p].slug \in Slugs
    BY <2>1, MovesTo
  <2> QED BY <1>5, <2>2 DEF InsertConfig
<1>6. ASSUME NEW q \in Creates, InsertEndpoint(q) PROVE BackupTyped'
  <2>1. Moves(q, "endpoint", "done")
    BY <1>6 DEF InsertEndpoint
  <2>2. /\ create' \in [Creates -> CreateSet] /\ create[q].at = "endpoint"
        /\ \A p \in Creates : create'[p].at # "idle" => create'[p].slug \in Slugs
    BY <2>1, MovesTo
  <2>3. [id |-> q, active |-> TRUE] \in EndpointSet
    BY DEF EndpointSet
  <2> QED BY <1>6, <2>2, <2>3 DEF InsertEndpoint
<1>7. ASSUME NEW c \in Consoles, ConsoleKilled(c) PROVE BackupTyped'
  <2>1. \A q \in Creates : create'[q] = create[q] \/ create'[q] = [create[q] EXCEPT !.at = "lost"]
    BY <1>7 DEF ConsoleKilled
  <2>2. \A q \in Creates : /\ create'[q] \in CreateSet
                           /\ create'[q].slug = create[q].slug /\ create'[q].where = create[q].where
    <3>1. ASSUME NEW x \in CreateSet, NEW z, z = x \/ z = [x EXCEPT !.at = "lost"]
          PROVE  z \in CreateSet /\ z.slug = x.slug /\ z.where = x.where
      BY <3>1 DEF CreateSet
    <3> QED BY <2>1, <3>1
  <2>3. \A q \in Creates : create[q].at = "idle" => create'[q] = create[q]
    BY <1>7 DEF ConsoleKilled
  <2>4. create' \in [Creates -> CreateSet]
    BY <1>7, <2>2 DEF ConsoleKilled
  <2> QED BY <1>7, <2>2, <2>3, <2>4 DEF ConsoleKilled
<1>8. ASSUME NEW c \in Consoles, NEW s \in {"running", "deleted"}, NEW r \in instances[c], SetStatus(c, r, s)
      PROVE  BackupTyped'
  <2>1. [r EXCEPT !.status = s] \in InstanceSet
    BY DEF InstanceSet
  <2> QED BY <1>8, <2>1 DEF SetStatus
<1>9. CASE Export
  <2>1. Snapshot("source") \in DocumentSet
    BY DEF Snapshot, DocumentSet, Consoles
  <2> QED BY <1>9, <2>1 DEF Export
<1>10. CASE Restore
  <2>1. /\ document.instances \subseteq InstanceSet /\ document.configs \subseteq Creates
        /\ document.endpoints \subseteq EndpointSet
    BY DEF DocumentSet
  <2>2. /\ {AsImported(r) : r \in document.instances} \subseteq InstanceSet
        /\ {[e EXCEPT !.active = FALSE] : e \in document.endpoints} \subseteq EndpointSet
        /\ {[id |-> r.id, was |-> r.status] : r \in document.instances} \subseteq ImportSet
    <3>1. \A r \in InstanceSet : AsImported(r) \in InstanceSet /\ [id |-> r.id, was |-> r.status] \in ImportSet
      BY DEF AsImported, InstanceSet, ImportSet
    <3>2. \A e \in EndpointSet : [e EXCEPT !.active = FALSE] \in EndpointSet
      BY DEF EndpointSet
    <3> QED BY <2>1, <3>1, <3>2, Zenon
  <2> QED BY <1>10, <2>1, <2>2 DEF Restore
<1> QED BY <1>1, <1>2, <1>3, <1>4, <1>5, <1>6, <1>7, <1>8, <1>9, <1>10, BackupStep, Zenon

(* The request that made the row of an id, in the Console where it did.    *)
Native(q, c) == create[q].where = c /\ create[q].at \in {"config", "endpoint", "done", "lost"}

(* What a row, a document and an endpoint come from.                       *)
RowsComeFrom ==
  /\ \A r \in instances["source"] : Native(r.id, "source")
  /\ \A r \in instances["target"] : Native(r.id, "target") \/ r.id \in Ids(imported)
  /\ \A r \in document.instances : Native(r.id, "source")
  /\ \A i \in imported : Native(i.id, "source")
  /\ \A e \in endpoints["target"] : e.active => Native(e.id, "target")

ConfigsKept ==
  /\ \A c \in Consoles : \A r \in HalfMade(c) :
       create[r.id].where = c /\ create[r.id].at \in {"config", "lost"}
  /\ Ids(imported) \subseteq configs["target"]
  /\ document.ready => SelfContained(document) /\ document.configs = Ids(document.instances)

Disjoint(rows1) == \A r, o \in rows1 : (r.id = o.id \/ r.slug = o.slug) => r = o

CapKept(c) == Cardinality(OwnRows(c)) + Cardinality(Asking(c)) < InstanceCap + overlap[c]

ConfigInv ==
  /\ BackupTyped /\ RowsComeFrom /\ ConfigsKept
  /\ \A c \in Consoles : Disjoint(instances[c]) /\ CapKept(c)

LEMMA ConfigStart == ConsoleInit => ConfigInv
<1> SUFFICES ASSUME ConfigInit PROVE ConfigInv
  BY DEF ConsoleInit
<1>1. BackupTyped
  BY DEF ConfigInit, BackupTyped, DocumentSet, NoDocument, CreateSet, Unborn, Consoles
<1>2. /\ \A c \in Consoles : instances[c] = {} /\ configs[c] = {} /\ endpoints[c] = {} /\ overlap[c] = 0
      /\ document.instances = {} /\ document.ready = FALSE /\ imported = {}
      /\ \A q \in Creates : create[q].at = "idle"
  BY DEF ConfigInit, NoDocument, Unborn
<1>3. RowsComeFrom /\ ConfigsKept
  BY <1>2 DEF RowsComeFrom, ConfigsKept, Consoles, HalfMade, Ids
<1>4. ASSUME NEW c \in Consoles PROVE Disjoint(instances[c]) /\ CapKept(c)
  <2>1. OwnRows(c) = {} /\ Asking(c) = {}
    BY <1>2 DEF OwnRows, Existing, Asking
  <2>2. Cardinality(OwnRows(c)) = 0 /\ Cardinality(Asking(c)) = 0
    BY <2>1, FS_EmptySet
  <2>3. CapKept(c)
    BY <1>2, <2>2, BackupAssumption DEF CapKept
  <2> QED BY <1>2, <2>3 DEF Disjoint
<1> QED BY <1>1, <1>3, <1>4 DEF ConfigInv

LEMMA NativeStays ==
  ASSUME BackupTyped, [Next]_consoleVars, NEW q \in Creates, NEW c, Native(q, c)
  PROVE  Native(q, c)'
<1> USE DEF BackupTyped, Native
<1>1. CASE create' = create
  BY <1>1
<1>2. ASSUME NEW p \in Creates, NEW k, NEW s, CountInstances(p, k, s) PROVE Native(q, c)'
  BY <1>2 DEF CountInstances
<1>3. ASSUME NEW p \in Creates, NEW from, NEW to \in {"refused", "insert", "config", "endpoint", "done"},
             Moves(p, from, to), from \in {"name", "insert"} \/ to \in {"endpoint", "done"}
      PROVE  Native(q, c)'
  BY <1>3, MovesTo
<1>4. ASSUME NEW p \in Creates, FindName(p) PROVE Native(q, c)'
  BY <1>3, <1>4, Zenon DEF FindName
<1>5. ASSUME NEW p \in Creates, InsertInstance(p) PROVE Native(q, c)'
  BY <1>3, <1>5, Zenon DEF InsertInstance
<1>6. ASSUME NEW p \in Creates, InsertConfig(p) PROVE Native(q, c)'
  BY <1>3, <1>6, Zenon DEF InsertConfig
<1>7. ASSUME NEW p \in Creates, InsertEndpoint(p) PROVE Native(q, c)'
  BY <1>3, <1>7, Zenon DEF InsertEndpoint
<1>8. ASSUME NEW k \in Consoles, ConsoleKilled(k) PROVE Native(q, c)'
  BY <1>8 DEF ConsoleKilled, CreateSet
<1>9. ASSUME NEW k, NEW s, NEW r, SetStatus(k, r, s) PROVE Native(q, c)'
  BY <1>1, <1>9 DEF SetStatus
<1>10. CASE Export \/ Restore
  BY <1>1, <1>10 DEF Export, Restore
<1>11. CASE UNCHANGED backupDbVars
  BY <1>1, <1>11 DEF backupDbVars
<1> HIDE DEF Native
<1> QED BY <1>2, <1>4, <1>5, <1>6, <1>7, <1>8, <1>9, <1>10, <1>11, BackupStep, Zenon

LEMMA OriginsKeep ==
  ASSUME BackupTyped, RowsComeFrom, [Next]_consoleVars PROVE RowsComeFrom'
<1>1. /\ \A c \in Consoles : \A r \in instances[c] : r.id \in Creates
      /\ \A r \in document.instances : r.id \in Creates
      /\ \A i \in imported : i.id \in Creates
      /\ \A e \in endpoints["target"] : e.id \in Creates
  BY DEF BackupTyped, InstanceSet, ImportSet, EndpointSet, DocumentSet, Consoles
<1>2. ASSUME NEW q \in Creates, NEW c, Native(q, c) PROVE Native(q, c)'
  BY <1>2, NativeStays

<1>3. /\ \A r \in instances["source"] : Native(r.id, "source")'
      /\ \A r \in instances["target"] : Native(r.id, "target")' \/ r.id \in Ids(imported)
      /\ \A r \in document.instances : Native(r.id, "source")'
      /\ \A i \in imported : Native(i.id, "source")'
      /\ \A e \in endpoints["target"] : e.active => Native(e.id, "target")'
  BY <1>1, <1>2 DEF RowsComeFrom, Consoles
<1>4. CASE UNCHANGED <<instances, endpoints, document, imported>>
  BY <1>3, <1>4 DEF RowsComeFrom
<1>5. ASSUME NEW q \in Creates, InsertInstance(q) PROVE RowsComeFrom'
  <2>1. CASE UNCHANGED instances
    BY <1>4, <1>5, <2>1 DEF InsertInstance
  <2>2. CASE ~UNCHANGED instances
    <3>1. PICK c \in Consoles : /\ c = create[q].where /\ Moves(q, "insert", "config")
             /\ instances' = [instances EXCEPT ![c] = @ \cup {[id |-> q, slug |-> create[q].slug, status |-> "stopped"]}]
      <4>1. create[q].where \in Consoles
        BY DEF BackupTyped, CreateSet
      <4> QED BY <1>5, <2>2, <4>1, Zenon DEF InsertInstance
    <3>2. create'[q].at = "config" /\ create'[q].where = c
      BY <3>1, MovesTo DEF BackupTyped
    <3>3. Native(q, c)'
      BY <3>2 DEF Native
    <3>4. \A k \in Consoles : \A r \in instances'[k] : r \in instances[k] \/ (k = c /\ r.id = q)
      BY <3>1 DEF BackupTyped
    <3>5. UNCHANGED <<endpoints, document, imported>>
      BY <1>5 DEF InsertInstance
    <3> QED BY <1>3, <3>3, <3>4, <3>5 DEF RowsComeFrom, Consoles
  <2> QED BY <2>1, <2>2
<1>6. ASSUME NEW q \in Creates, InsertEndpoint(q) PROVE RowsComeFrom'
  <2>1. Moves(q, "endpoint", "done") /\ UNCHANGED <<instances, document, imported>>
    BY <1>6 DEF InsertEndpoint
  <2>2. PICK c \in Consoles : c = create[q].where
    BY DEF BackupTyped, CreateSet
  <2>3. create'[q].at = "done" /\ create'[q].where = c
    BY <2>1, <2>2, MovesTo DEF BackupTyped
  <2>4. Native(q, c)'
    BY <2>3 DEF Native
  <2>5. \A e \in endpoints'["target"] : e \in endpoints["target"] \/ (c = "target" /\ e.id = q)
    BY <1>6, <2>2 DEF InsertEndpoint, BackupTyped
  <2> QED BY <1>3, <2>1, <2>4, <2>5 DEF RowsComeFrom
<1>7. ASSUME NEW c \in Consoles, NEW s, NEW r \in instances[c], SetStatus(c, r, s) PROVE RowsComeFrom'
  <2>1. [r EXCEPT !.status = s].id = r.id
    BY DEF BackupTyped, InstanceSet
  <2>2. \A k \in Consoles : \A o \in instances'[k] : \E x \in instances[k] : x.id = o.id
    BY <1>7, <2>1 DEF SetStatus, BackupTyped
  <2>3. UNCHANGED <<endpoints, document, imported>>
    BY <1>7 DEF SetStatus
  <2> QED BY <1>3, <2>2, <2>3 DEF RowsComeFrom, Consoles
<1>8. CASE Export
  <2>1. document'.instances = instances["source"] /\ UNCHANGED <<instances, endpoints, imported>>
    BY <1>8 DEF Export, Snapshot
  <2> QED BY <1>3, <2>1 DEF RowsComeFrom
<1>9. CASE Restore
  <2>1. /\ instances' = [instances EXCEPT !["target"] = @ \cup {AsImported(r) : r \in document.instances}]
        /\ endpoints' = [endpoints EXCEPT !["target"] =
                           @ \cup {[e EXCEPT !.active = FALSE] : e \in document.endpoints}]
        /\ imported' = imported \cup {[id |-> r.id, was |-> r.status] : r \in document.instances}
        /\ UNCHANGED <<create, document>>
    BY <1>9 DEF Restore
  <2>2. /\ \A r \in document.instances : AsImported(r).id = r.id
        /\ \A e \in document.endpoints : [e EXCEPT !.active = FALSE].active = FALSE
    BY DEF BackupTyped, DocumentSet, InstanceSet, EndpointSet, AsImported
  <2>3. instances'["source"] = instances["source"]
    BY <2>1 DEF BackupTyped
  <2>4. \A r \in instances'["target"] : r \in instances["target"] \/ \E o \in document.instances : r.id = o.id
    BY <2>1, <2>2 DEF BackupTyped, Consoles
  <2>5. \A e \in endpoints'["target"] : e \in endpoints["target"] \/ e.active = FALSE
    BY <2>1, <2>2 DEF BackupTyped, Consoles
  <2>6. /\ \A i \in imported' : i \in imported \/ \E o \in document.instances : i.id = o.id
        /\ \A o \in document.instances : o.id \in Ids(imported)'
        /\ Ids(imported) \subseteq Ids(imported)'
    <3>1. \A o \in document.instances : [id |-> o.id, was |-> o.status] \in imported'
      BY <2>1
    <3>2. \A o \in document.instances : [id |-> o.id, was |-> o.status].id = o.id
      OBVIOUS
    <3>3. \A o \in document.instances : o.id \in Ids(imported)'
      BY <3>1, <3>2 DEF Ids
    <3>4. \A i \in imported' : i \in imported \/ \E o \in document.instances : i.id = o.id
      BY <2>1, <3>2
    <3>5. imported \subseteq imported'
      BY <2>1
    <3>6. Ids(imported) \subseteq Ids(imported)'
      BY <3>5 DEF Ids
    <3> QED BY <3>3, <3>4, <3>6
  <2> QED BY <1>3, <2>1, <2>3, <2>4, <2>5, <2>6 DEF RowsComeFrom
<1>10. ASSUME NEW q \in Creates, InsertConfig(q) \/ FindName(q) PROVE RowsComeFrom'
  BY <1>4, <1>10, Zenon DEF InsertConfig, FindName
<1>11. ASSUME NEW q \in Creates, NEW c, NEW s, CountInstances(q, c, s) \/ ConsoleKilled(c) PROVE RowsComeFrom'
  BY <1>4, <1>11, Zenon DEF CountInstances, ConsoleKilled
<1>12. ASSUME NEW c, ConsoleKilled(c) PROVE RowsComeFrom'
  BY <1>4, <1>12, Zenon DEF ConsoleKilled
<1>13. CASE UNCHANGED backupDbVars
  BY <1>4, <1>13 DEF backupDbVars
<1> QED BY <1>5, <1>6, <1>7, <1>8, <1>9, <1>10, <1>11, <1>12, <1>13, BackupStep, Zenon

LEMMA ConfigsKeep ==
  ASSUME BackupTyped, RowsComeFrom, ConfigsKept, \A c \in Consoles : Disjoint(instances[c]),
         [Next]_consoleVars
  PROVE  ConfigsKept'
<1>1. /\ \A c \in Consoles : \A r \in instances[c] : r.id \in Creates
      /\ create \in [Creates -> CreateSet] /\ instances \in [Consoles -> SUBSET InstanceSet]
      /\ configs \in [Consoles -> SUBSET Creates]
  BY DEF BackupTyped, InstanceSet
<1>2. \A c \in Consoles : \A r \in instances[c] :
        r.id \in configs[c] \/ (create[r.id].where = c /\ create[r.id].at \in {"config", "lost"})
  BY DEF ConfigsKept, HalfMade
<1>3. /\ Ids(imported) \subseteq configs["target"]
      /\ document.ready => SelfContained(document) /\ document.configs = Ids(document.instances)
  BY DEF ConfigsKept
<1>4. ASSUME \A c \in Consoles : \A r \in instances'[c] : r.id \in configs'[c]
               \/ (create'[r.id].where = c /\ create'[r.id].at \in {"config", "lost"}),
             UNCHANGED <<document, imported>>, configs["target"] \subseteq configs'["target"]
      PROVE  ConfigsKept'
  BY <1>3, <1>4 DEF ConfigsKept, HalfMade
<1>5. CASE UNCHANGED backupDbVars
  BY <1>2, <1>4, <1>5 DEF backupDbVars
<1>6. ASSUME NEW q \in Creates, NEW c \in Consoles, NEW s \in Slugs, CountInstances(q, c, s)
      PROVE  ConfigsKept'
  <2>1. UNCHANGED <<instances, configs, document, imported>>
    BY <1>6 DEF CountInstances
  <2>2. \A p \in Creates : create[p].at # "idle" => create'[p] = create[p]
    BY <1>1, <1>6 DEF CountInstances
  <2> QED BY <1>1, <1>2, <1>4, <2>1, <2>2
<1>7. ASSUME NEW q \in Creates, FindName(q) PROVE ConfigsKept'
  <2>1. UNCHANGED <<instances, configs, document, imported>>
    BY <1>7 DEF FindName
  <2>2. PICK to \in {"refused", "insert"} : Moves(q, "name", to)
    BY <1>7, Zenon DEF FindName
  <2>3. \A p \in Creates : create[p].at # "name" => create'[p] = create[p]
    BY <1>1, <2>2, MovesTo
  <2> QED BY <1>1, <1>2, <1>4, <2>1, <2>3
<1>8. ASSUME NEW q \in Creates, InsertInstance(q) PROVE ConfigsKept'
  <2>1. PICK to \in {"refused", "config"} : Moves(q, "insert", to)
    BY <1>8, Zenon DEF InsertInstance
  <2>2. \A p \in Creates : create[p].at # "insert" => create'[p] = create[p]
    BY <1>1, <2>1, MovesTo
  <2>3. UNCHANGED <<configs, document, imported>>
    BY <1>8 DEF InsertInstance
  <2>4. CASE UNCHANGED instances
    BY <1>1, <1>2, <1>4, <2>2, <2>3, <2>4
  <2>5. CASE ~UNCHANGED instances
    <3>1. PICK c \in Consoles : /\ c = create[q].where /\ Moves(q, "insert", "config")
             /\ instances' = [instances EXCEPT ![c] = @ \cup {[id |-> q, slug |-> create[q].slug, status |-> "stopped"]}]
      <4>1. create[q].where \in Consoles
        BY DEF BackupTyped, CreateSet
      <4> QED BY <1>8, <2>5, <4>1, Zenon DEF InsertInstance
    <3>2. create'[q].at = "config" /\ create'[q].where = c
      BY <1>1, <3>1, MovesTo
    <3>3. \A k \in Consoles : \A r \in instances'[k] : r \in instances[k] \/ (k = c /\ r.id = q)
      BY <1>1, <3>1
    <3>4. ASSUME NEW k \in Consoles, NEW r \in instances'[k]
          PROVE  r.id \in configs'[k]
                   \/ (create'[r.id].where = k /\ create'[r.id].at \in {"config", "lost"})
      BY <1>1, <1>2, <2>2, <2>3, <3>2, <3>3, <3>4
    <3> QED BY <1>4, <2>3, <3>4
  <2> QED BY <2>4, <2>5
<1>9. ASSUME NEW q \in Creates, InsertConfig(q) PROVE ConfigsKept'
  <2>1. Moves(q, "config", "endpoint") /\ UNCHANGED <<instances, document, imported>>
    BY <1>9 DEF InsertConfig
  <2>2. PICK c \in Consoles : c = create[q].where
    BY DEF BackupTyped, CreateSet
  <2>3. \A p \in Creates : p # q => create'[p] = create[p]
    BY <1>1, <2>1, MovesTo
  <2>4. \A k \in Consoles : configs[k] \subseteq configs'[k] /\ (k = c => q \in configs'[k])
    BY <1>1, <1>9, <2>2 DEF InsertConfig
  <2> QED BY <1>1, <1>2, <1>4, <2>1, <2>2, <2>3, <2>4 DEF Consoles
<1>10. ASSUME NEW q \in Creates, InsertEndpoint(q) PROVE ConfigsKept'
  <2>1. Moves(q, "endpoint", "done") /\ UNCHANGED <<instances, configs, document, imported>>
    BY <1>10 DEF InsertEndpoint
  <2>2. \A p \in Creates : create[p].at # "endpoint" => create'[p] = create[p]
    BY <1>1, <2>1, MovesTo
  <2> QED BY <1>1, <1>2, <1>4, <2>1, <2>2
<1>11. ASSUME NEW c \in Consoles, ConsoleKilled(c) PROVE ConfigsKept'
  <2>1. UNCHANGED <<instances, configs, document, imported>>
    BY <1>11 DEF ConsoleKilled
  <2>2. \A p \in Creates : /\ create'[p] = create[p]
                              \/ (create'[p].at = "lost" /\ create'[p].where = create[p].where)
    <3>1. \A x \in CreateSet : [x EXCEPT !.at = "lost"].at = "lost" /\ [x EXCEPT !.at = "lost"].where = x.where
      BY DEF CreateSet
    <3>2. \A p \in Creates : create'[p] = create[p] \/ create'[p] = [create[p] EXCEPT !.at = "lost"]
      BY <1>11 DEF ConsoleKilled
    <3>3. ASSUME NEW p \in Creates
          PROVE  create'[p] = create[p] \/ (create'[p].at = "lost" /\ create'[p].where = create[p].where)
      <4>1. create[p] \in CreateSet
        BY <1>1
      <4> QED BY <3>1, <3>2, <4>1
    <3> QED BY <3>3
  <2> QED BY <1>1, <1>2, <1>4, <2>1, <2>2
<1>12. ASSUME NEW c \in Consoles, NEW s, NEW r \in instances[c], SetStatus(c, r, s) PROVE ConfigsKept'
  <2>1. [r EXCEPT !.status = s].id = r.id
    BY DEF BackupTyped, InstanceSet
  <2>2. \A k \in Consoles : \A o \in instances'[k] : \E x \in instances[k] : x.id = o.id
    BY <1>1, <1>12, <2>1 DEF SetStatus
  <2>3. UNCHANGED <<configs, create, document, imported>>
    BY <1>12 DEF SetStatus
  <2> QED BY <1>2, <1>4, <2>2, <2>3
<1>13. CASE Export
  <2>1. /\ document' = Snapshot("source") /\ Valid(Snapshot("source"))
        /\ UNCHANGED <<instances, configs, create, imported>>
    BY <1>13 DEF Export
  <2>2. SelfContained(document') /\ document'.configs = Ids(document'.instances)
    BY <2>1, Zenon DEF Valid
  <2>3. (SelfContained(document) /\ document.configs = Ids(document.instances))'
    BY <2>2, Zenon DEF SelfContained
  <2> QED BY <1>2, <1>3, <2>1, <2>3 DEF ConfigsKept, HalfMade
<1>14. CASE Restore
  <2>1. /\ instances' = [instances EXCEPT !["target"] = @ \cup {AsImported(r) : r \in document.instances}]
        /\ configs' = [configs EXCEPT !["target"] = @ \cup document.configs]
        /\ imported' = imported \cup {[id |-> r.id, was |-> r.status] : r \in document.instances}
        /\ UNCHANGED <<create, document>> /\ document.ready
    BY <1>14 DEF Restore
  <2>2. \A r \in document.instances : AsImported(r).id = r.id
    BY DEF BackupTyped, DocumentSet, InstanceSet, AsImported
  <2>3. \A r \in document.instances : r.id \in document.configs
    BY <1>3, <2>1 DEF Ids
  <2>4. configs'["target"] = configs["target"] \cup document.configs /\ configs'["source"] = configs["source"]
    BY <1>1, <2>1 DEF Consoles
  <2>5. \A r \in instances'["target"] : r \in instances["target"] \/ r.id \in document.configs
    BY <1>1, <2>1, <2>2, <2>3 DEF Consoles
  <2>6. instances'["source"] = instances["source"]
    BY <1>1, <2>1
  <2>7. Ids(imported)' \subseteq configs'["target"]
    <3>1. \A i \in imported' : i \in imported \/ \E o \in document.instances : i.id = o.id
      BY <2>1
    <3> QED BY <1>3, <2>3, <2>4, <3>1 DEF Ids
  <2>8. (document.ready => SelfContained(document) /\ document.configs = Ids(document.instances))'
    BY <1>3, <2>1 DEF SelfContained, Ids
  <2> QED BY <1>2, <2>1, <2>4, <2>5, <2>6, <2>7, <2>8 DEF ConfigsKept, HalfMade, Consoles
<1> QED BY <1>5, <1>6, <1>7, <1>8, <1>9, <1>10, <1>11, <1>12, <1>13, <1>14, BackupStep, Zenon

(* No two rows of a Console have one id, or one slug.                      *)
LEMMA DisjointKeep ==
  ASSUME BackupTyped, ConfigsKept, \A c \in Consoles : Disjoint(instances[c]),
         [Next]_consoleVars, NEW k \in Consoles
  PROVE  Disjoint(instances[k])'
<1>1. instances \in [Consoles -> SUBSET InstanceSet] /\ Disjoint(instances[k])
  BY DEF BackupTyped
<1>2. CASE UNCHANGED instances
  BY <1>1, <1>2
<1>3. ASSUME NEW q \in Creates, InsertInstance(q) PROVE Disjoint(instances[k])'
  <2>1. CASE ~UNCHANGED instances
    <3>1. PICK c, row1 : /\ row1 = [id |-> q, slug |-> create[q].slug, status |-> "stopped"]
             /\ ~Collides(instances[c], q, row1.slug)
             /\ instances' = [instances EXCEPT ![c] = @ \cup {row1}]
      BY <1>3, <2>1, Zenon DEF InsertInstance
    <3>2. row1.id = q
      BY <3>1
    <3> QED BY <1>1, <3>1, <3>2 DEF Collides, Disjoint
  <2> QED BY <1>2, <2>1
<1>4. ASSUME NEW c \in Consoles, NEW s, NEW r \in instances[c], SetStatus(c, r, s) PROVE Disjoint(instances[k])'
  <2>1. [r EXCEPT !.status = s].id = r.id /\ [r EXCEPT !.status = s].slug = r.slug
    BY DEF BackupTyped, InstanceSet
  <2>2. instances' = [instances EXCEPT ![c] = (@ \ {r}) \cup {[r EXCEPT !.status = s]}]
    BY <1>4 DEF SetStatus
  <2>3. PICK z : z = [r EXCEPT !.status = s]
    OBVIOUS
  <2>4. CASE k = c
    <3>1. instances'[k] = (instances[k] \ {r}) \cup {z} /\ z.id = r.id /\ z.slug = r.slug /\ r \in instances[k]
      BY <1>1, <2>1, <2>2, <2>3, <2>4
    <3> QED BY <1>1, <3>1 DEF Disjoint
  <2>5. CASE k # c
    <3>1. instances'[k] = instances[k]
      BY <1>1, <2>2, <2>5
    <3> QED BY <1>1, <3>1 DEF Disjoint
  <2> QED BY <2>4, <2>5
<1>5. CASE Restore
  <2> DEFINE new == {AsImported(r) : r \in document.instances}
  <2>1. /\ instances' = [instances EXCEPT !["target"] = @ \cup new]
        /\ document.ready /\ ~Conflicts(instances["target"], document)
    BY <1>5 DEF Restore
  <2>2. \A r \in document.instances : AsImported(r).id = r.id /\ AsImported(r).slug = r.slug
    BY DEF BackupTyped, DocumentSet, InstanceSet, AsImported
  <2>3. \A r, o \in document.instances : (r.id = o.id \/ r.slug = o.slug) => r = o
    BY <2>1 DEF ConfigsKept, SelfContained
  <2>4. Disjoint(new)
    BY <2>2, <2>3 DEF Disjoint
  <2>5. \A r \in instances["target"], o \in new : r.id # o.id /\ r.slug # o.slug
    BY <2>1, <2>2 DEF Conflicts, Collides
  <2> HIDE DEF new
  <2> QED BY <1>1, <2>1, <2>4, <2>5 DEF Disjoint
<1>6. ASSUME NEW q, NEW c, NEW s, CountInstances(q, c, s) PROVE UNCHANGED instances
  BY <1>6 DEF CountInstances
<1>7. ASSUME NEW q, FindName(q) \/ InsertConfig(q) \/ InsertEndpoint(q) \/ ConsoleKilled(q)
      PROVE  UNCHANGED instances
  BY <1>7 DEF FindName, InsertConfig, InsertEndpoint, ConsoleKilled
<1>8. CASE Export
  BY <1>2, <1>8 DEF Export
<1>9. CASE UNCHANGED backupDbVars
  BY <1>2, <1>9 DEF backupDbVars
<1> QED BY <1>2, <1>3, <1>4, <1>5, <1>6, <1>7, <1>8, <1>9, BackupStep, Zenon

LEMMA RowsFinite ==
  ASSUME BackupTyped, NEW c \in Consoles, Disjoint(instances[c])
  PROVE  /\ IsFiniteSet(instances[c]) /\ IsFiniteSet(OwnRows(c)) /\ IsFiniteSet(Asking(c))
         /\ OwnRows(c) \subseteq Existing(instances[c])
<1> DEFINE f == [r \in instances[c] |-> r.id]
<1>1. \A r \in instances[c] : r.id \in Creates
  BY DEF BackupTyped, InstanceSet
<1>2. f \in Injection(instances[c], Creates)
  BY <1>1 DEF Injection, Disjoint, IsInjective
<1>3. IsFiniteSet(Creates)
  BY BackupAssumption
<1> HIDE DEF f
<1>4. IsFiniteSet(instances[c])
  BY <1>2, <1>3, FS_Injection
<1>5. OwnRows(c) \in SUBSET instances[c] /\ OwnRows(c) \subseteq Existing(instances[c])
  BY DEF OwnRows, Existing
<1>6. Asking(c) \in SUBSET Creates
  BY DEF Asking
<1> QED BY <1>3, <1>4, <1>5, <1>6, FS_Subset

LEMMA CapShrinks ==
  ASSUME BackupTyped, NEW k \in Consoles, Disjoint(instances[k]), CapKept(k),
         OwnRows(k)' \subseteq OwnRows(k), Asking(k)' \subseteq Asking(k), overlap'[k] = overlap[k]
  PROVE  CapKept(k)'
<1> DEFINE A == OwnRows(k)
           B == OwnRows(k)'
           C == Asking(k)
           D == Asking(k)'
<1>1. IsFiniteSet(A) /\ IsFiniteSet(C)
  BY RowsFinite
<1>2. B \subseteq A /\ D \subseteq C
  OBVIOUS
<1>3. Cardinality(A) + Cardinality(C) < InstanceCap + overlap[k]
  BY DEF CapKept
<1> HIDE DEF A, B, C, D
<1>4. /\ IsFiniteSet(B) /\ Cardinality(B) <= Cardinality(A)
      /\ IsFiniteSet(D) /\ Cardinality(D) <= Cardinality(C)
  BY <1>1, <1>2, FS_Subset
<1>5. /\ Cardinality(A) \in Nat /\ Cardinality(B) \in Nat
      /\ Cardinality(C) \in Nat /\ Cardinality(D) \in Nat
  BY <1>1, <1>4, FS_CardinalityType
<1>6. InstanceCap \in Nat /\ overlap[k] \in Nat
  BY BackupAssumption DEF BackupTyped
<1>7. Cardinality(B) + Cardinality(D) < InstanceCap + overlap[k]
  BY <1>3, <1>4, <1>5, <1>6
<1> QED BY <1>7 DEF B, D, CapKept

(* A request that passes the count found fewer than the cap; from then on  *)
(* it is among those that overlap, until it inserts or gives up.           *)
LEMMA CapKeep ==
  ASSUME BackupTyped, RowsComeFrom, ConfigsKept, \A c \in Consoles : Disjoint(instances[c]) /\ CapKept(c),
         [Next]_consoleVars, NEW k \in Consoles
  PROVE  CapKept(k)'
<1>1. /\ create \in [Creates -> CreateSet] /\ instances \in [Consoles -> SUBSET InstanceSet]
      /\ overlap \in [Consoles -> Nat] /\ Disjoint(instances[k]) /\ CapKept(k)
  BY DEF BackupTyped
<1>2. IsFiniteSet(OwnRows(k)) /\ IsFiniteSet(Asking(k)) /\ OwnRows(k) \subseteq Existing(instances[k])
      /\ IsFiniteSet(instances[k])
  BY <1>1, RowsFinite
<1>3. /\ Cardinality(OwnRows(k)) \in Nat /\ Cardinality(Asking(k)) \in Nat
      /\ InstanceCap \in Nat \ {0} /\ overlap[k] \in Nat
  BY <1>1, <1>2, BackupAssumption, FS_CardinalityType
<1>4. ASSUME UNCHANGED <<instances, imported, overlap>>, Asking(k)' \subseteq Asking(k) PROVE CapKept(k)'
  <2>1. OwnRows(k)' = OwnRows(k)
    BY <1>4 DEF OwnRows
  <2> QED BY <1>1, <1>4, <2>1, CapShrinks
<1>5. CASE UNCHANGED backupDbVars
  BY <1>4, <1>5 DEF backupDbVars, Asking
<1>6. ASSUME NEW q \in Creates, NEW c \in Consoles, NEW s \in Slugs, CountInstances(q, c, s)
      PROVE  CapKept(k)'
  <2>1. /\ create[q].at = "idle" /\ create' = [create EXCEPT ![q] = [at |-> "name", where |-> c, slug |-> s]]
        /\ Cardinality(Existing(instances[c])) < InstanceCap
        /\ overlap' = [overlap EXCEPT ![c] = Larger(@, Cardinality(Asking(c) \cup {q}))]
        /\ UNCHANGED <<instances, imported>>
    BY <1>6 DEF CountInstances
  <2>2. OwnRows(k)' = OwnRows(k)
    BY <2>1 DEF OwnRows
  <2>3. CASE k # c
    <3>1. Asking(k)' = Asking(k) /\ overlap'[k] = overlap[k]
      BY <1>1, <2>1, <2>3 DEF Asking
    <3> QED BY <1>1, <2>2, <3>1, CapShrinks
  <2>4. CASE k = c
    <3>1. Asking(k)' = Asking(k) \cup {q}
      BY <1>1, <2>1, <2>4 DEF Asking
    <3> DEFINE E == Existing(instances[k])
               A == OwnRows(k)
               D == Asking(k) \cup {q}
    <3>2. E \subseteq instances[k] /\ A \subseteq E
      BY <1>2 DEF Existing
    <3> HIDE DEF E, A, D
    <3>3. IsFiniteSet(E) /\ Cardinality(A) <= Cardinality(E)
      BY <1>2, <3>2, FS_Subset
    <3>4. Cardinality(E) \in Nat /\ Cardinality(E) < InstanceCap
      BY <2>1, <2>4, <3>3, FS_CardinalityType DEF E
    <3>5. IsFiniteSet(D) /\ Cardinality(D) \in Nat
      BY <1>2, FS_AddElement, FS_CardinalityType DEF D
    <3>6. overlap'[k] \in Nat /\ Cardinality(D) <= overlap'[k]
      BY <1>1, <2>1, <2>4, <3>5 DEF Larger, D
    <3>7. Cardinality(A) + Cardinality(D) < InstanceCap + overlap'[k]
      BY <1>3, <3>3, <3>4, <3>5, <3>6 DEF A
    <3> QED BY <2>2, <3>1, <3>7 DEF CapKept, A, D
  <2> QED BY <2>3, <2>4
<1>7. ASSUME NEW q \in Creates, FindName(q) PROVE CapKept(k)'
  <2>1. PICK to \in {"refused", "insert"} : Moves(q, "name", to)
    BY <1>7, Zenon DEF FindName
  <2>2. /\ create[q].at = "name"
        /\ \A p \in Creates : create'[p].where = create[p].where /\ (p # q => create'[p] = create[p])
    BY <1>1, <2>1, MovesTo
  <2>3. Asking(k)' \subseteq Asking(k)
    BY <2>2 DEF Asking
  <2> QED BY <1>4, <1>7, <2>3 DEF FindName
<1>8. ASSUME NEW q \in Creates, InsertInstance(q) PROVE CapKept(k)'
  <2>1. PICK to \in {"refused", "config"} : Moves(q, "insert", to)
    BY <1>8, Zenon DEF InsertInstance
  <2>2. /\ create[q].at = "insert" /\ create'[q].at \notin {"name", "insert"}
        /\ \A p \in Creates : create'[p].where = create[p].where /\ (p # q => create'[p] = create[p])
    BY <1>1, <2>1, MovesTo
  <2>3. Asking(k)' = Asking(k) \ {q}
    BY <2>2 DEF Asking
  <2>4. UNCHANGED <<imported, overlap>>
    BY <1>8 DEF InsertInstance
  <2>5. CASE UNCHANGED instances
    BY <1>4, <2>3, <2>4, <2>5
  <2>6. CASE ~UNCHANGED instances
    <3>1. PICK c, row1 : /\ c = create[q].where
             /\ instances' = [instances EXCEPT ![c] = @ \cup {row1}]
      BY <1>8, <2>6, Zenon DEF InsertInstance
    <3>2. CASE k # c
      <4>1. instances'[k] = instances[k]
        BY <1>1, <3>1, <3>2
      <4>2. OwnRows(k)' = OwnRows(k)
        BY <2>4, <4>1 DEF OwnRows
      <4> QED BY <1>1, <2>3, <2>4, <4>2, CapShrinks
    <3>3. CASE k = c
      <4> DEFINE A == OwnRows(k)
                 B == OwnRows(k)'
                 C == Asking(k)
      <4>1. instances'[k] = instances[k] \cup {row1} /\ q \in C
        BY <1>1, <2>2, <3>1, <3>3 DEF Asking
      <4>2. B \subseteq A \cup {row1}
        BY <2>4, <4>1 DEF OwnRows, Existing
      <4>3. Cardinality(A) + Cardinality(C) < InstanceCap + overlap[k]
        BY <1>1 DEF CapKept
      <4>4. IsFiniteSet(A) /\ IsFiniteSet(C) /\ Cardinality(A) \in Nat /\ Cardinality(C) \in Nat
        BY <1>2, <1>3
      <4> HIDE DEF A, B, C
      <4>5. IsFiniteSet(A \cup {row1}) /\ Cardinality(A \cup {row1}) \in {Cardinality(A), Cardinality(A) + 1}
        BY <4>4, FS_AddElement
      <4>6. IsFiniteSet(B) /\ Cardinality(B) <= Cardinality(A \cup {row1})
        BY <4>2, <4>5, FS_Subset
      <4>7. Cardinality(B) \in Nat
        BY <4>6, FS_CardinalityType
      <4>8. Cardinality(C \ {q}) = Cardinality(C) - 1
        BY <4>1, <4>4, FS_RemoveElement
      <4>9. Cardinality(B) + Cardinality(C \ {q}) < InstanceCap + overlap[k]
        BY <1>3, <4>3, <4>4, <4>5, <4>6, <4>7, <4>8
      <4> QED BY <2>3, <2>4, <4>9 DEF CapKept, B, C
    <3> QED BY <3>2, <3>3
  <2> QED BY <2>5, <2>6
<1>9. ASSUME NEW q \in Creates, InsertConfig(q) PROVE CapKept(k)'
  <2>1. Moves(q, "config", "endpoint")
    BY <1>9 DEF InsertConfig
  <2>2. /\ create'[q].at = "endpoint"
        /\ \A p \in Creates : create'[p].where = create[p].where /\ (p # q => create'[p] = create[p])
    BY <1>1, <2>1, MovesTo
  <2>3. Asking(k)' \subseteq Asking(k)
    BY <2>2 DEF Asking
  <2> QED BY <1>4, <1>9, <2>3 DEF InsertConfig
<1>10. ASSUME NEW q \in Creates, InsertEndpoint(q) PROVE CapKept(k)'
  <2>1. Moves(q, "endpoint", "done")
    BY <1>10 DEF InsertEndpoint
  <2>2. /\ create'[q].at = "done"
        /\ \A p \in Creates : create'[p].where = create[p].where /\ (p # q => create'[p] = create[p])
    BY <1>1, <2>1, MovesTo
  <2>3. Asking(k)' \subseteq Asking(k)
    BY <2>2 DEF Asking
  <2> QED BY <1>4, <1>10, <2>3 DEF InsertEndpoint
<1>11. ASSUME NEW c \in Consoles, ConsoleKilled(c) PROVE CapKept(k)'
  <2>1. \A p \in Creates : create'[p] = create[p] \/ create'[p].at = "lost"
    <3>1. \A x \in CreateSet : [x EXCEPT !.at = "lost"].at = "lost"
      BY DEF CreateSet
    <3>2. \A p \in Creates : create'[p] = create[p] \/ create'[p] = [create[p] EXCEPT !.at = "lost"]
      BY <1>11 DEF ConsoleKilled
    <3>3. ASSUME NEW p \in Creates PROVE create'[p] = create[p] \/ create'[p].at = "lost"
      <4>1. create[p] \in CreateSet
        BY <1>1
      <4> QED BY <3>1, <3>2, <4>1
    <3> QED BY <3>3
  <2>2. Asking(k)' \subseteq Asking(k)
    BY <2>1 DEF Asking
  <2> QED BY <1>4, <1>11, <2>2 DEF ConsoleKilled
<1>12. ASSUME NEW c \in Consoles, NEW s \in {"running", "deleted"}, NEW r \in instances[c], SetStatus(c, r, s)
       PROVE  CapKept(k)'
  <2>1. PICK z : z = [r EXCEPT !.status = s]
    OBVIOUS
  <2>2. /\ instances' = [instances EXCEPT ![c] = (@ \ {r}) \cup {z}] /\ r \in Existing(instances[c])
        /\ UNCHANGED <<create, imported, overlap>>
    BY <1>12, <2>1 DEF SetStatus
  <2>3. Asking(k)' = Asking(k)
    BY <2>2 DEF Asking
  <2>4. z.id = r.id
    BY <2>1 DEF BackupTyped, InstanceSet
  <2>5. CASE k # c
    <3>1. instances'[k] = instances[k]
      BY <1>1, <2>2, <2>5
    <3>2. OwnRows(k)' = OwnRows(k)
      BY <2>2, <3>1 DEF OwnRows
    <3> QED BY <1>1, <2>2, <2>3, <3>2, CapShrinks
  <2>6. CASE k = c
    <3>1. instances'[k] = (instances[k] \ {r}) \cup {z}
      BY <1>1, <2>2, <2>6
    <3>2. CASE r \notin OwnRows(k)
      <4>1. OwnRows(k)' \subseteq OwnRows(k)
        BY <2>2, <2>4, <2>6, <3>1, <3>2 DEF OwnRows, Existing
      <4> QED BY <1>1, <2>2, <2>3, <4>1, CapShrinks
    <3>3. CASE r \in OwnRows(k)
      <4> DEFINE A == OwnRows(k)
                 B == OwnRows(k)'
                 C == A \ {r}
      <4>1. B \subseteq C \cup {z}
        BY <2>2, <3>1 DEF OwnRows, Existing
      <4>2. r \in A /\ IsFiniteSet(A) /\ Cardinality(A) \in Nat
        BY <1>2, <1>3, <3>3
      <4> HIDE DEF A, B
      <4>3. IsFiniteSet(C) /\ Cardinality(C) = Cardinality(A) - 1
        BY <4>2, FS_RemoveElement
      <4> HIDE DEF C
      <4>4. IsFiniteSet(C \cup {z}) /\ Cardinality(C \cup {z}) \in {Cardinality(C), Cardinality(C) + 1}
        BY <4>3, FS_AddElement
      <4>5. IsFiniteSet(B) /\ Cardinality(B) <= Cardinality(C \cup {z})
        BY <4>1, <4>4, FS_Subset
      <4>6. Cardinality(B) \in Nat /\ Cardinality(C) \in Nat
        BY <4>3, <4>5, FS_CardinalityType
      <4>7. Cardinality(B) <= Cardinality(A)
        BY <4>2, <4>3, <4>4, <4>5, <4>6
      <4>8. Cardinality(A) + Cardinality(Asking(k)) < InstanceCap + overlap[k]
        BY <1>1 DEF CapKept, A
      <4>9. Cardinality(B) + Cardinality(Asking(k)) < InstanceCap + overlap[k]
        BY <1>3, <4>2, <4>6, <4>7, <4>8
      <4> QED BY <2>2, <2>3, <4>9 DEF CapKept, B
    <3> QED BY <3>2, <3>3
  <2> QED BY <2>5, <2>6
<1>13. CASE Export
  BY <1>4, <1>13 DEF Export, Asking
<1>14. CASE Restore
  <2> DEFINE new == {AsImported(r) : r \in document.instances}
  <2>1. /\ instances' = [instances EXCEPT !["target"] = @ \cup new]
        /\ imported' = imported \cup {[id |-> r.id, was |-> r.status] : r \in document.instances}
        /\ UNCHANGED <<create, overlap>>
    BY <1>14 DEF Restore
  <2>2. Ids(imported) \subseteq Ids(imported)' /\ \A r \in document.instances : r.id \in Ids(imported)'
    <3>1. \A o \in document.instances :
            /\ [id |-> o.id, was |-> o.status] \in imported'
            /\ [id |-> o.id, was |-> o.status].id = o.id
      BY <2>1
    <3> QED BY <2>1, <3>1 DEF Ids
  <2>3. \A r \in new : r.id \in Ids(imported)'
    BY <2>2 DEF AsImported, BackupTyped, DocumentSet, InstanceSet
  <2> HIDE DEF new
  <2>4. OwnRows(k)' \subseteq OwnRows(k)
    <3>1. CASE k = "target"
      <4>1. instances'[k] = instances[k] \cup new
        BY <1>1, <2>1, <3>1
      <4> QED BY <2>2, <2>3, <3>1, <4>1 DEF OwnRows, Existing
    <3>2. CASE k # "target"
      <4>1. instances'[k] = instances[k]
        BY <1>1, <2>1, <3>2
      <4> QED BY <3>2, <4>1 DEF OwnRows
    <3> QED BY <3>1, <3>2
  <2>5. Asking(k)' = Asking(k)
    BY <2>1 DEF Asking
  <2> QED BY <1>1, <2>1, <2>4, <2>5, CapShrinks
<1> QED BY <1>5, <1>6, <1>7, <1>8, <1>9, <1>10, <1>11, <1>12, <1>13, <1>14, BackupStep, Zenon

LEMMA ConfigKeeps == ConfigInv /\ [Next]_consoleVars => ConfigInv'
BY BackupTypes, OriginsKeep, ConfigsKeep, DisjointKeep, CapKeep DEF ConfigInv

LEMMA ConfigInvHolds == ConfigInv => ConfigHolds
<1> SUFFICES ASSUME ConfigInv PROVE ConfigHolds
  OBVIOUS
<1>1. HalfMadeIsKnown
  BY DEF ConfigInv, ConfigsKept, HalfMadeIsKnown
<1>2. RowsDisjoint
  <2>1. ASSUME NEW c \in Consoles PROVE Cardinality(OwnRows(c)) < InstanceCap + overlap[c]
    <3>1. IsFiniteSet(OwnRows(c)) /\ IsFiniteSet(Asking(c))
      BY RowsFinite DEF ConfigInv
    <3>2. Cardinality(OwnRows(c)) \in Nat /\ Cardinality(Asking(c)) \in Nat
      BY <3>1, FS_CardinalityType
    <3>3. Cardinality(OwnRows(c)) + Cardinality(Asking(c)) < InstanceCap + overlap[c]
      BY DEF ConfigInv, CapKept
    <3>4. InstanceCap \in Nat /\ overlap[c] \in Nat
      BY BackupAssumption DEF ConfigInv, BackupTyped
    <3> QED BY <3>2, <3>3, <3>4
  <2> QED BY <2>1 DEF RowsDisjoint, ConfigInv, Disjoint
<1>3. ImportedIsSilent
  BY DEF ImportedIsSilent, ConfigInv, RowsComeFrom, Ids, Native, BackupTyped, EndpointSet, Consoles
<1> QED BY <1>1, <1>2, <1>3 DEF ConfigHolds

(* For any number of requests and rows, any caps, and however creations,   *)
(* kills, deletions, exports and restores interleave: an instance without  *)
(* a configuration is one whose request is on its way or died, no two rows *)
(* share an id or a slug, over the cap are only requests that overlapped,  *)
(* and what a backup brought answers on no endpoint.                       *)
THEOREM ConfigIsKept == Spec => []ConfigHolds
<1>1. Spec => []ConfigInv
  BY ConfigStart, ConfigKeeps, PTL DEF Spec
<1> QED BY <1>1, ConfigInvHolds, PTL

-----------------------------------------------------------------------------
(* The unified process.                                                    *)
LEMMA SupervisorStep ==
  ASSUME [Next]_consoleVars
  PROVE  \/ UNCHANGED supervisorVars
         \/ \E b \in BOOLEAN : SetupBegins(b)
         \/ EnsureSecretKey \/ StartWorker \/ Serve \/ Terminate \/ ProcessKilled \/ KilledInWrite
         \/ \E p \in embedded : WorkerDies(p)
         \/ \E ok \in BOOLEAN, chmod \in BOOLEAN : Redeploy(ok, chmod)
BY Zenon DEF Next, In, consoleVars

PlaceSet == [ok : BOOLEAN, key : Nat, chmod : BOOLEAN]
ProcessSet == [pc : {"off", "secret", "worker", "unguarded", "serving"}, key : Nat,
               place : Places \cup {"tmp"}, db : Places \cup {"tmp", "postgres"}]

SupervisorTyped ==
  /\ store \in [Places -> PlaceSet] /\ process \in ProcessSet
  /\ tally \in [boots : Nat, keys : Nat] /\ former \in [Places -> Nat]

(* A secret that was kept is the one in the file; what a process took from *)
(* a directory, it took from the writable one; Workers of its own it has   *)
(* once it has started one.                                                *)
SupervisorInv ==
  /\ SupervisorTyped
  /\ \A d \in Places : former[d] # Short => store[d].key = former[d]
  /\ process.pc \in {"worker", "unguarded", "serving"} =>
       /\ \A d \in Places : d = WritableDir /\ store[d].chmod => process.key = former[d]
       /\ process.place \in {"tmp", WritableDir}
  /\ process.pc # "off" => process.db \in {"postgres", WritableDir}
  /\ \A p, q \in Own : p = q
  /\ process.pc \in {"off", "secret", "worker"} => Own = {}

LEMMA SupervisorStart == ConsoleInit => SupervisorInv
<1> SUFFICES ASSUME SupervisorInit PROVE SupervisorInv
  BY DEF ConsoleInit
<1>1. process = Down /\ Down \in ProcessSet /\ Down.pc = "off" /\ Own = {}
  BY DEF SupervisorInit, Down, ProcessSet, Own, Short
<1>2. SupervisorTyped
  <2>1. store \in [Places -> [ok : BOOLEAN, key : {Short}, chmod : {TRUE}]]
    BY DEF SupervisorInit
  <2>2. [ok : BOOLEAN, key : {Short}, chmod : {TRUE}] \subseteq PlaceSet
    <3>1. ASSUME NEW x \in [ok : BOOLEAN, key : {0}, chmod : {TRUE}] PROVE x \in PlaceSet
      <4>1. x = [ok |-> x.ok, key |-> x.key, chmod |-> x.chmod] /\ x.ok \in BOOLEAN /\ x.key = 0 /\ x.chmod = TRUE
        OBVIOUS
      <4>2. 0 \in Nat /\ TRUE \in BOOLEAN
        OBVIOUS
      <4> QED BY <4>1, <4>2, Zenon DEF PlaceSet
    <3> QED BY <3>1 DEF Short
  <2>3. store \in [Places -> PlaceSet]
    BY <2>1, <2>2
  <2> QED BY <1>1, <2>3 DEF SupervisorInit, SupervisorTyped, Short
<1> QED BY <1>1, <1>2 DEF SupervisorInit, SupervisorInv

(* What EnsureSecretKey does with the first writable place.                *)
LEMMA SecretEffect ==
  ASSUME EnsureSecretKey, NEW d, d = WritableDir
  PROVE  /\ process.pc = "secret" /\ UNCHANGED <<embedded, orphaned>>
         /\ \/ /\ d \in Places /\ store[d].key # Short /\ UNCHANGED <<tally, store>>
               /\ Goes(store[d].key, d) /\ KeptIn(store[d].key, d)
            \/ /\ ~(d \in Places /\ store[d].chmod) /\ UNCHANGED <<former, store>>
               /\ Goes(tally.keys + 1, "tmp") /\ Fresh
            \/ /\ d \in Places /\ store[d].key = Short /\ Fresh
               /\ store' = [store EXCEPT ![d].key = tally.keys + 1]
               /\ \/ Goes(tally.keys + 1, d) /\ KeptIn(tally.keys + 1, d)
                  \/ process' = Down /\ UNCHANGED former
<1>1. d \in Places \/ d = "tmp"
  BY DEF WritableDir, Places
<1>2. "tmp" \notin Places
  BY DEF Places
<1>3. process.pc = "secret" /\ UNCHANGED <<embedded, orphaned>>
  BY DEF EnsureSecretKey
<1>4. CASE KeyFileReads(d) /\ store[d].chmod
  <2>1. Goes(store[d].key, d) /\ KeptIn(store[d].key, d) /\ UNCHANGED <<tally, store>>
    BY <1>1, <1>2, <1>4 DEF EnsureSecretKey, KeyFileReads
  <2> QED BY <1>3, <1>4, <2>1 DEF KeyFileReads
<1>5. CASE KeyFileReads(d) /\ ~store[d].chmod
  <2>1. Goes(tally.keys + 1, "tmp") /\ Fresh /\ UNCHANGED <<former, store>>
    BY <1>1, <1>2, <1>5 DEF EnsureSecretKey, KeyFileReads
  <2> QED BY <1>3, <1>5, <2>1
<1>6. CASE d \in Places /\ ~KeyFileReads(d)
  <2>1. /\ Fresh /\ store' = [store EXCEPT ![d].key = tally.keys + 1]
        /\ \/ Goes(tally.keys + 1, d) /\ KeptIn(tally.keys + 1, d)
           \/ process' = Down /\ UNCHANGED former
    BY <1>1, <1>2, <1>6 DEF EnsureSecretKey, KeyFileReads
  <2> QED BY <1>3, <1>6, <2>1 DEF KeyFileReads
<1>7. CASE d = "tmp"
  <2>1. Goes(tally.keys + 1, "tmp") /\ Fresh /\ UNCHANGED <<former, store>>
    BY <1>1, <1>2, <1>7 DEF EnsureSecretKey, KeyFileReads
  <2> QED BY <1>2, <1>3, <1>7, <2>1
<1> QED BY <1>1, <1>4, <1>5, <1>6, <1>7 DEF KeyFileReads

(* The process after it, and the secret it keeps.                          *)
LEMMA SecretTaken ==
  ASSUME SupervisorTyped, NEW k \in Nat, NEW d \in Places \cup {"tmp"}, Goes(k, d)
  PROVE  /\ process' \in ProcessSet /\ process'.pc = "worker" /\ process'.key = k /\ process'.place = d
         /\ process'.db = process.db
         /\ d \in Places /\ KeptIn(k, d) =>
              /\ former' \in [Places -> Nat]
              /\ former'[d] = IF former[d] = Short THEN k ELSE former[d]
              /\ \A o \in Places : o # d => former'[o] = former[o]
<1>1. process \in ProcessSet /\ process' = [process EXCEPT !.pc = "worker", !.key = k, !.place = d]
  BY DEF SupervisorTyped, Goes
<1>2. /\ process' \in ProcessSet /\ process'.pc = "worker" /\ process'.key = k /\ process'.place = d
      /\ process'.db = process.db
  BY ONLY <1>1, k \in Nat, d \in Places \cup {"tmp"}, Zenon DEF ProcessSet
<1> QED BY <1>2 DEF SupervisorTyped, KeptIn, Short

LEMMA SupervisorTypes == SupervisorTyped /\ [Next]_consoleVars => SupervisorTyped'
<1> SUFFICES ASSUME SupervisorTyped, [Next]_consoleVars PROVE SupervisorTyped'
  OBVIOUS
<1> USE DEF SupervisorTyped, PlaceSet, ProcessSet, Places, Short, Down
<1>1. CASE UNCHANGED supervisorVars
  BY <1>1 DEF supervisorVars
<1>2. ASSUME NEW b \in BOOLEAN, SetupBegins(b) PROVE SupervisorTyped'
  <2>1. PICK e \in Places \cup {"tmp", "postgres"} : e = ResolveDatabase(b)
    BY DEF ResolveDatabase, WritableDir
  <2>2. [Down EXCEPT !.pc = "secret", !.db = e] \in ProcessSet
    OBVIOUS
  <2> QED BY <1>2, <2>1, <2>2 DEF SetupBegins
<1>3. CASE EnsureSecretKey
  <2> HIDE DEF ProcessSet, Places, PlaceSet, Down
  <2>1. PICK d \in Places \cup {"tmp"} : d = WritableDir
    BY DEF WritableDir, Places
  <2>2. Down \in ProcessSet
    BY DEF Down, ProcessSet
  <2>3. tally.keys \in Nat /\ tally.keys + 1 \in Nat
    OBVIOUS
  <2>4. tally' \in [boots : Nat, keys : Nat]
    BY <1>3, <2>1, <2>3, SecretEffect DEF Fresh
  <2>5. \A k \in Nat, e \in Places \cup {"tmp"} :
          Goes(k, e) => /\ process' \in ProcessSet
                        /\ e \in Places /\ KeptIn(k, e) => former' \in [Places -> Nat]
    BY SecretTaken
  <2>6. d \in Places => store[d].key \in Nat
    BY DEF PlaceSet
  <2>7. process' \in ProcessSet /\ former' \in [Places -> Nat]
    BY <1>3, <2>1, <2>2, <2>3, <2>5, <2>6, SecretEffect
  <2>8. store' \in [Places -> PlaceSet]
    BY <1>3, <2>1, <2>3, SecretEffect DEF PlaceSet
  <2> QED BY <2>4, <2>7, <2>8
<1>4. CASE StartWorker \/ Serve
  BY <1>4 DEF StartWorker, Serve
<1>5. CASE Terminate \/ ProcessKilled
  BY <1>5 DEF Terminate, ProcessKilled
<1>6. CASE KilledInWrite
  BY <1>6 DEF KilledInWrite
<1>7. ASSUME NEW p, WorkerDies(p) PROVE SupervisorTyped'
  BY <1>7 DEF WorkerDies
<1>8. ASSUME NEW ok \in BOOLEAN, NEW chmod \in BOOLEAN, Redeploy(ok, chmod) PROVE SupervisorTyped'
  BY <1>8 DEF Redeploy
<1> QED BY <1>1, <1>2, <1>3, <1>4, <1>5, <1>6, <1>7, <1>8, SupervisorStep, Zenon

LEMMA SupervisorKeeps == SupervisorInv /\ [Next]_consoleVars => SupervisorInv'
<1> SUFFICES ASSUME SupervisorInv, [Next]_consoleVars PROVE SupervisorInv'
  OBVIOUS
<1>0. SupervisorTyped /\ SupervisorTyped'
  BY SupervisorTypes DEF SupervisorInv
<1> USE <1>0 DEF SupervisorInv, Own, Short
<1>1. CASE UNCHANGED supervisorVars
  BY <1>1 DEF supervisorVars, WritableDir
<1>2. ASSUME NEW b \in BOOLEAN, SetupBegins(b) PROVE SupervisorInv'
  BY <1>2 DEF SetupBegins, ResolveDatabase, WritableDir, Down, SupervisorTyped
<1>3. CASE EnsureSecretKey
  <2>1. PICK d \in Places \cup {"tmp"} : d = WritableDir
    BY DEF WritableDir, Places
  <2>2. /\ process.pc = "secret" /\ UNCHANGED <<embedded, orphaned>> /\ Own = {}
        /\ tally.keys + 1 \in Nat /\ (d \in Places => store[d].key \in Nat)
    BY <1>3, <2>1, SecretEffect DEF SupervisorTyped, PlaceSet
  <2>3. \A e \in Places : store'[e].ok = store[e].ok /\ store'[e].chmod = store[e].chmod
    BY <1>3, <2>1, SecretEffect DEF SupervisorTyped, PlaceSet
  <2>4. WritableDir' = d
    BY <2>1, <2>3 DEF WritableDir, Places
  <2>5. process.db \in {"postgres", d}
    BY <2>1, <2>2
  <2>6. \A k \in Nat, e \in Places \cup {"tmp"} : Goes(k, e) =>
          /\ process'.pc = "worker" /\ process'.key = k /\ process'.place = e /\ process'.db = process.db
          /\ e \in Places /\ KeptIn(k, e) =>
               /\ former'[e] = IF former[e] = Short THEN k ELSE former[e]
               /\ \A o \in Places : o # e => former'[o] = former[o]
    BY SecretTaken
  <2>7. CASE /\ d \in Places /\ store[d].key # Short /\ UNCHANGED <<tally, store>>
             /\ Goes(store[d].key, d) /\ KeptIn(store[d].key, d)
    BY <2>2, <2>4, <2>5, <2>6, <2>7
  <2>8. CASE /\ ~(d \in Places /\ store[d].chmod) /\ UNCHANGED <<former, store>>
             /\ Goes(tally.keys + 1, "tmp") /\ Fresh
    BY <2>2, <2>4, <2>5, <2>6, <2>8
  <2>9. ASSUME d \in Places, store[d].key = Short, store' = [store EXCEPT ![d].key = tally.keys + 1]
        PROVE  /\ former[d] = Short /\ store'[d].key = tally.keys + 1
               /\ \A o \in Places : o # d => store'[o] = store[o]
    BY <2>9 DEF SupervisorTyped, PlaceSet
  <2>10. CASE /\ d \in Places /\ store[d].key = Short /\ store' = [store EXCEPT ![d].key = tally.keys + 1]
              /\ Goes(tally.keys + 1, d) /\ KeptIn(tally.keys + 1, d)
    BY <2>2, <2>4, <2>5, <2>6, <2>9, <2>10
  <2>11. CASE /\ d \in Places /\ store[d].key = Short /\ store' = [store EXCEPT ![d].key = tally.keys + 1]
              /\ process' = Down /\ UNCHANGED former
    BY <2>2, <2>4, <2>9, <2>11 DEF Down
  <2> QED BY <1>3, <2>1, <2>7, <2>8, <2>10, <2>11, SecretEffect
<1>4. CASE StartWorker
  BY <1>4 DEF StartWorker, WritableDir, SupervisorTyped, ProcessSet
<1>5. CASE Serve
  BY <1>5 DEF Serve, WritableDir, SupervisorTyped, ProcessSet
<1>6. CASE Terminate \/ ProcessKilled
  BY <1>6 DEF Terminate, ProcessKilled, WritableDir, Down
<1>7. CASE KilledInWrite
  BY <1>7 DEF KilledInWrite, WritableDir, Down, KeyFileReads, SupervisorTyped, Places, PlaceSet
<1>8. ASSUME NEW p, WorkerDies(p) PROVE SupervisorInv'
  BY <1>8 DEF WorkerDies, WritableDir
<1>9. ASSUME NEW ok \in BOOLEAN, NEW chmod \in BOOLEAN, Redeploy(ok, chmod) PROVE SupervisorInv'
  BY <1>9 DEF Redeploy, WritableDir, SupervisorTyped, Places, PlaceSet
<1> QED BY <1>1, <1>2, <1>3, <1>4, <1>5, <1>6, <1>7, <1>8, <1>9, SupervisorStep, Zenon

LEMMA SupervisorInvHolds == SupervisorInv => SupervisorHolds
<1> SUFFICES ASSUME SupervisorInv PROVE SupervisorHolds
  OBVIOUS
<1>1. Cardinality(Own) <= 1
  <2>1. CASE Own = {}
    BY <2>1, FS_EmptySet
  <2>2. CASE Own # {}
    <3>1. PICK p : Own = {p}
      <4>1. \A p, q \in Own : p = q
        BY DEF SupervisorInv
      <4> QED BY <2>2, <4>1
    <3>2. Cardinality({p}) = 1
      BY FS_Singleton
    <3> QED BY <3>1, <3>2
  <2> QED BY <2>1, <2>2
<1>2. process.pc = "serving" /\ process.place \in Places /\ process.db # "postgres" =>
        process.db = process.place
  BY DEF SupervisorInv, Places
<1> QED BY <1>1, <1>2 DEF SupervisorInv, SupervisorHolds

-----------------------------------------------------------------------------
(* The boots of the database.                                              *)
LEMMA BootStep ==
  ASSUME [Next]_consoleVars
  PROVE  \/ UNCHANGED bootVars
         \/ BeginBoot \/ Connected \/ ConnectFails \/ Migrate \/ Migrated \/ RunScript
         \/ Patch \/ Patched \/ CountUsers \/ Seed \/ BootKilled
BY Zenon DEF Next, In, consoleVars

ColumnNames == {"time_limit_days", "expires_at", "protocol", "limit_bytes", "speed_limit_bytes",
                "ip_limit", "active", "used_cache", "used_at", "link_policy"}
Pairs == {"instance_volume", "instance_links", "instance_configs"} \X ColumnNames

LEMMA PatchedPairs ==
  ASSUME NEW table1, NEW S, NEW P, NEW cols \in Seq(S), \A b \in S : <<table1, b>> \in P
  PROVE  PatchedColumns(table1, cols) \in Seq(P)
<1> DEFINE n == Len(cols)
           f == [i \in 1..n |-> <<table1, cols[i]>>]
<1>1. n \in Nat /\ DOMAIN cols = 1..n /\ \A i \in 1..n : cols[i] \in S
  OBVIOUS
<1> HIDE DEF n
<1>2. PatchedColumns(table1, cols) = f
  BY <1>1 DEF PatchedColumns
<1>3. \A i \in 1..n : <<table1, cols[i]>> \in P
  BY <1>1
<1>4. f \in [1..n -> P]
  BY <1>3, Zenon
<1> HIDE DEF f
<1>5. f \in Seq(P)
  BY <1>1, <1>4
<1> QED BY <1>2, <1>5, Zenon

LEMMA PatchedTable ==
  ASSUME NEW table1, NEW S, NEW cols \in Seq(S), NEW x \in ToSet(PatchedColumns(table1, cols))
  PROVE  \E b \in S : x = <<table1, b>>
<1>1. PICK i \in DOMAIN cols : x = <<table1, cols[i]>>
  BY DEF ToSet, PatchedColumns
<1>2. cols[i] \in S
  OBVIOUS
<1> QED BY <1>1, <1>2, Zenon

LEMMA ToSetConcat ==
  ASSUME NEW S, NEW s \in Seq(S), NEW t \in Seq(S)
  PROVE  ToSet(s \o t) = ToSet(s) \cup ToSet(t)
<1>1. /\ DOMAIN s = 1..Len(s) /\ DOMAIN t = 1..Len(t) /\ Len(s) \in Nat /\ Len(t) \in Nat
      /\ DOMAIN (s \o t) = 1..(Len(s) + Len(t))
      /\ \A i \in 1..(Len(s) + Len(t)) : (s \o t)[i] = IF i <= Len(s) THEN s[i] ELSE t[i - Len(s)]
  OBVIOUS
<1>2. ASSUME NEW x \in ToSet(s \o t) PROVE x \in ToSet(s) \cup ToSet(t)
  <2>1. PICK i \in 1..(Len(s) + Len(t)) : x = (s \o t)[i]
    BY <1>1 DEF ToSet
  <2>2. CASE i <= Len(s)
    BY <1>1, <2>1, <2>2 DEF ToSet
  <2>3. CASE ~(i <= Len(s))
    <3>1. i - Len(s) \in 1..Len(t) /\ x = t[i - Len(s)]
      BY <1>1, <2>1, <2>3
    <3> QED BY <1>1, <3>1 DEF ToSet
  <2> QED BY <2>2, <2>3
<1>3. ASSUME NEW x \in ToSet(s) PROVE x \in ToSet(s \o t)
  <2>1. PICK i \in 1..Len(s) : x = s[i]
    BY <1>1 DEF ToSet
  <2>2. i \in 1..(Len(s) + Len(t)) /\ (s \o t)[i] = x
    BY <1>1, <2>1
  <2> QED BY <1>1, <2>2 DEF ToSet
<1>4. ASSUME NEW x \in ToSet(t) PROVE x \in ToSet(s \o t)
  <2>1. PICK i \in 1..Len(t) : x = t[i]
    BY <1>1 DEF ToSet
  <2>2. PICK j \in 1..(Len(s) + Len(t)) : j = i + Len(s)
    BY <1>1
  <2>3. ~(j <= Len(s)) /\ j - Len(s) = i
    BY <1>1, <2>2
  <2>4. (s \o t)[j] = x
    BY <1>1, <2>1, <2>3
  <2> QED BY <1>1, <2>4 DEF ToSet
<1> QED BY <1>2, <1>3, <1>4

(* The columns the patches add, by their table.                            *)
LEMMA PatchesAre ==
  /\ Patches \in Seq(Pairs)
  /\ ToSet(Patches) = ToSet(VolumeColumns) \cup ToSet(LinkColumns \o PolicyColumn)
  /\ \A x \in ToSet(VolumeColumns) : \E b \in ColumnNames : x = <<"instance_volume", b>>
  /\ \A x \in ToSet(LinkColumns \o PolicyColumn) :
       \/ \E b \in ColumnNames : x = <<"instance_links", b>>
       \/ x = <<"instance_configs", "link_policy">>
<1>1. /\ VolumeColumns \in Seq(Pairs)
      /\ \A x \in ToSet(VolumeColumns) : \E b \in ColumnNames : x = <<"instance_volume", b>>
  <2> DEFINE cols == <<"time_limit_days", "expires_at">>
             name == "instance_volume"
  <2>1. /\ cols \in Seq(ColumnNames)
        /\ \A b \in ColumnNames : <<name, b>> \in Pairs
    BY DEF ColumnNames, Pairs
  <2>2. PatchedColumns(name, cols) = VolumeColumns
    BY DEF VolumeColumns
  <2> HIDE DEF cols, name
  <2>3. PatchedColumns(name, cols) \in Seq(Pairs)
    BY <2>1, PatchedPairs, Zenon
  <2>4. ASSUME NEW x \in ToSet(PatchedColumns(name, cols)) PROVE \E b \in ColumnNames : x = <<name, b>>
    BY <2>1, <2>4, PatchedTable
  <2> QED BY <2>2, <2>3, <2>4, Zenon DEF name
<1>2. /\ LinkColumns \in Seq(Pairs)
      /\ \A x \in ToSet(LinkColumns) : \E b \in ColumnNames : x = <<"instance_links", b>>
  <2> DEFINE cols == <<"protocol", "limit_bytes", "expires_at", "speed_limit_bytes", "ip_limit",
                       "active", "used_cache", "used_at">>
             name == "instance_links"
  <2>1. /\ cols \in Seq(ColumnNames)
        /\ \A b \in ColumnNames : <<name, b>> \in Pairs
    BY DEF ColumnNames, Pairs
  <2>2. PatchedColumns(name, cols) = LinkColumns
    BY DEF LinkColumns
  <2> HIDE DEF cols, name
  <2>3. PatchedColumns(name, cols) \in Seq(Pairs)
    BY <2>1, PatchedPairs, Zenon
  <2>4. ASSUME NEW x \in ToSet(PatchedColumns(name, cols)) PROVE \E b \in ColumnNames : x = <<name, b>>
    BY <2>1, <2>4, PatchedTable
  <2> QED BY <2>2, <2>3, <2>4, Zenon DEF name
<1>3. PolicyColumn \in Seq(Pairs)
  <2> DEFINE cols == <<"link_policy">>
             name == "instance_configs"
  <2>1. /\ cols \in Seq(ColumnNames)
        /\ \A b \in ColumnNames : <<name, b>> \in Pairs
    BY DEF ColumnNames, Pairs
  <2>2. PatchedColumns(name, cols) = PolicyColumn
    BY DEF PolicyColumn
  <2> HIDE DEF cols, name
  <2>3. PatchedColumns(name, cols) \in Seq(Pairs)
    BY <2>1, PatchedPairs, Zenon
  <2>4. ASSUME NEW x \in ToSet(PatchedColumns(name, cols)) PROVE \E b \in ColumnNames : x = <<name, b>>
    BY <2>1, <2>4, PatchedTable
  <2> QED BY <2>2, <2>3, Zenon DEF name
<1>4. ASSUME NEW x \in ToSet(PolicyColumn) PROVE x = <<"instance_configs", "link_policy">>
  BY <1>4 DEF PolicyColumn, PatchedColumns, ToSet
<1>5. LinkColumns \o PolicyColumn \in Seq(Pairs)
  BY <1>2, <1>3
<1>6. ToSet(LinkColumns \o PolicyColumn) = ToSet(LinkColumns) \cup ToSet(PolicyColumn)
  BY <1>2, <1>3, ToSetConcat
<1>7. Patches = VolumeColumns \o (LinkColumns \o PolicyColumn)
  <2>1. \A a, b, c \in Seq(Pairs) : a \o b \o c = a \o (b \o c)
    OBVIOUS
  <2> QED BY <1>1, <1>2, <1>3, <2>1 DEF Patches
<1>8. ToSet(Patches) = ToSet(VolumeColumns) \cup ToSet(LinkColumns \o PolicyColumn)
  <2>1. \A s, t \in Seq(Pairs) : ToSet(s \o t) = ToSet(s) \cup ToSet(t)
    BY ToSetConcat
  <2>2. VolumeColumns \in Seq(Pairs) /\ LinkColumns \o PolicyColumn \in Seq(Pairs)
    BY <1>1, <1>5
  <2> QED BY <1>7, <2>1, <2>2, Zenon
<1>9. Patches \in Seq(Pairs)
  BY <1>1, <1>5, <1>7
<1> QED BY <1>1, <1>2, <1>4, <1>6, <1>8, <1>9

(* The tables, one by one, and the migrations: their names differ, what    *)
(* they add is disjoint, and together they add everything.                 *)
LEMMA TablesAre ==
  \A x : x \in Tables(ToSet(ScriptTables)) <=>
         \/ x \in FirstTables
         \/ x \in {<<"oauth_states">>, <<"instance_links">>, <<"instance_volume">>}
<1>1. ToSet(ScriptTables) =
        {"users", "sessions", "instances", "instance_configs", "workers", "deployments",
         "deployment_logs", "domains", "instance_links", "metrics", "activity_events",
         "oauth_states", "instance_volume"}
  <2>1. DOMAIN ScriptTables = 1..13
    BY DEF ScriptTables
  <2>2. /\ ScriptTables[1] = "users" /\ ScriptTables[2] = "sessions" /\ ScriptTables[3] = "instances"
        /\ ScriptTables[4] = "instance_configs" /\ ScriptTables[5] = "workers"
        /\ ScriptTables[6] = "deployments" /\ ScriptTables[7] = "deployment_logs"
        /\ ScriptTables[8] = "domains" /\ ScriptTables[9] = "instance_links"
        /\ ScriptTables[10] = "metrics" /\ ScriptTables[11] = "activity_events"
        /\ ScriptTables[12] = "oauth_states" /\ ScriptTables[13] = "instance_volume"
    BY DEF ScriptTables
  <2> QED BY <2>1, <2>2 DEF ToSet
<1> QED BY <1>1 DEF Tables, FirstTables

Owner(x) ==
  IF Len(x) = 1
  THEN IF x[1] = "oauth_states" THEN 2
       ELSE IF x[1] = "instance_links" THEN 5
       ELSE IF x[1] = "instance_volume" THEN 7 ELSE 1
  ELSE IF x[1] = "instances" THEN 4
       ELSE IF x[1] = "users" THEN 6
       ELSE IF x[1] = "instance_volume" THEN 8
       ELSE IF x[1] = "instance_links" THEN 9
       ELSE IF x[2] = "protocols" THEN 3 ELSE 9

LEMMA MigrationsAre ==
  /\ Len(Migrations) = 9 /\ DOMAIN Migrations = 1..9
  /\ \A i \in 1..9 : Migrations[i].name \in 1..9
  /\ \A i, j \in 1..9 : Migrations[i].name = Migrations[j].name => i = j
  /\ Migrations[1].adds = FirstTables
  /\ Migrations[2].adds = {<<"oauth_states">>}
  /\ Migrations[3].adds = {<<"instance_configs", "protocols">>}
  /\ Migrations[4].adds = {<<"instances", "public_host">>}
  /\ Migrations[5].adds = {<<"instance_links">>}
  /\ Migrations[6].adds = {<<"users", "password_hash">>}
  /\ Migrations[7].adds = {<<"instance_volume">>}
  /\ Migrations[8].adds = ToSet(VolumeColumns)
  /\ Migrations[9].adds = ToSet(LinkColumns \o PolicyColumn)
<1>1. /\ Tables({"oauth_states"}) = {<<"oauth_states">>}
      /\ Tables({"instance_links"}) = {<<"instance_links">>}
      /\ Tables({"instance_volume"}) = {<<"instance_volume">>}
  BY DEF Tables
<1>2. Len(Migrations) = 9 /\ DOMAIN Migrations = 1..9
  BY DEF Migrations
<1>3. /\ Migrations[1].name = 1 /\ Migrations[2].name = 2 /\ Migrations[3].name = 6
      /\ Migrations[4].name = 5 /\ Migrations[5].name = 4 /\ Migrations[6].name = 3
      /\ Migrations[7].name = 7 /\ Migrations[8].name = 8 /\ Migrations[9].name = 9
  BY DEF Migrations
<1>4. /\ \A i \in 1..9 : Migrations[i].name \in 1..9
      /\ \A i, j \in 1..9 : Migrations[i].name = Migrations[j].name => i = j
  BY <1>3
<1>5. /\ Migrations[1].adds = FirstTables
      /\ Migrations[2].adds = Tables({"oauth_states"})
      /\ Migrations[3].adds = {<<"instance_configs", "protocols">>}
      /\ Migrations[4].adds = {<<"instances", "public_host">>}
      /\ Migrations[5].adds = Tables({"instance_links"})
      /\ Migrations[6].adds = {<<"users", "password_hash">>}
      /\ Migrations[7].adds = Tables({"instance_volume"})
      /\ Migrations[8].adds = ToSet(VolumeColumns)
      /\ Migrations[9].adds = ToSet(LinkColumns \o PolicyColumn)
  BY DEF Migrations
<1> QED BY <1>1, <1>2, <1>4, <1>5, Zenon

LEMMA MigrationsApart ==
  ASSUME NEW i \in 1..9, NEW j \in 1..9, NEW x \in Migrations[i].adds, x \in Migrations[j].adds
  PROVE  i = j
<1>1. ASSUME NEW k \in 1..9, x \in Migrations[k].adds PROVE Owner(x) = k
  <2>1. CASE k = 1
    BY <1>1, <2>1, MigrationsAre DEF Owner, FirstTables, Tables
  <2>2. CASE k = 2
    BY <1>1, <2>2, MigrationsAre DEF Owner
  <2>3. CASE k = 3
    BY <1>1, <2>3, MigrationsAre DEF Owner
  <2>4. CASE k = 4
    BY <1>1, <2>4, MigrationsAre DEF Owner
  <2>5. CASE k = 5
    BY <1>1, <2>5, MigrationsAre DEF Owner
  <2>6. CASE k = 6
    BY <1>1, <2>6, MigrationsAre DEF Owner
  <2>7. CASE k = 7
    BY <1>1, <2>7, MigrationsAre DEF Owner
  <2>8. CASE k = 8
    <3>1. PICK b \in ColumnNames : x = <<"instance_volume", b>>
      BY <1>1, <2>8, MigrationsAre, PatchesAre
    <3> QED BY <2>8, <3>1 DEF Owner
  <2>9. CASE k = 9
    <3>1. \/ \E b \in ColumnNames : x = <<"instance_links", b>>
          \/ x = <<"instance_configs", "link_policy">>
      BY <1>1, <2>9, MigrationsAre, PatchesAre
    <3> QED BY <2>9, <3>1 DEF Owner
  <2> QED BY <2>1, <2>2, <2>3, <2>4, <2>5, <2>6, <2>7, <2>8, <2>9
<1> QED BY <1>1

LEMMA MigrationsSuffice ==
  /\ \A i \in 1..9 : Migrations[i].adds \subseteq Everything
  /\ \A x \in Everything : \E i \in 1..9 : x \in Migrations[i].adds
<1> DEFINE T == Tables(ToSet(ScriptTables))
<1>1. /\ FirstColumns = {<<"instance_configs", "protocols">>, <<"instances", "public_host">>,
                         <<"users", "password_hash">>}
      /\ \A x : x \in Everything <=> \/ x \in T \/ x \in FirstColumns
                                     \/ x \in ToSet(VolumeColumns)
                                     \/ x \in ToSet(LinkColumns \o PolicyColumn)
  BY PatchesAre DEF Everything, Columns, FirstColumns
<1>2. \A x : x \in T <=> \/ x \in FirstTables
                         \/ x \in {<<"oauth_states">>, <<"instance_links">>, <<"instance_volume">>}
  BY TablesAre
<1> HIDE DEF T
<1>3. ASSUME NEW i \in 1..9, NEW x \in Migrations[i].adds PROVE x \in Everything
  BY <1>1, <1>2, <1>3, MigrationsAre
<1>4. ASSUME NEW x \in Everything PROVE \E i \in 1..9 : x \in Migrations[i].adds
  BY <1>1, <1>2, <1>4, MigrationsAre
<1> QED BY <1>3, <1>4

(* The inductive invariant of the boots.                                   *)
BootTyped ==
  /\ backend \in {"postgres", "sqlite"}
  /\ boot \in {"down", "pool", "migrate", "script", "patch", "count", "seed", "up"}
  /\ step \in Nat \ {0} /\ names \subseteq 1..9 /\ seeds \in 0..1
  /\ schema \subseteq Everything

Seeded == (boot = "up" => seeds = 1) /\ (boot = "seed" => seeds = 0)

(* On SQLite a table of this release has its first columns, the script     *)
(* leaves every table, and the patches before the next one are there.      *)
ScriptRuns ==
  /\ boot \notin {"pool", "migrate"} /\ (boot = "script" => step = 1)
  /\ \A c \in FirstColumns : <<TableOf(c)>> \in schema => c \in schema
  /\ boot = "patch" => /\ Tables(ToSet(ScriptTables)) \subseteq schema
                       /\ \A j \in 1..Len(Patches) : j < step => Patches[j] \in schema
  /\ boot \in {"count", "seed", "up"} => schema = Everything

(* On PostgreSQL the record agrees, and names every migration before.      *)
Agrees ==
  \A i \in 1..9 : IF Migrations[i].name \in names THEN Migrations[i].adds \subseteq schema
                  ELSE Migrations[i].adds \cap schema = {}

MigrationsRun ==
  /\ boot \notin {"script", "patch"} /\ (boot = "pool" => step = 1)
  /\ Agrees
  /\ boot = "migrate" => \A j \in 1..9 : j < step => Migrations[j].name \in names
  /\ boot \in {"count", "seed", "up"} => \A j \in 1..9 : Migrations[j].name \in names

BootInv ==
  /\ BootTyped /\ Seeded
  /\ backend = "sqlite" => ScriptRuns
  /\ backend = "postgres" => MigrationsRun

LEMMA FirstColumnsAre ==
  \A c \in FirstColumns : /\ c \in Columns /\ c \in Everything
                          /\ <<TableOf(c)>> \in Tables(ToSet(ScriptTables))
<1>1. \A c \in FirstColumns : <<TableOf(c)>> \in FirstTables
  BY DEF FirstColumns, TableOf, FirstTables, Tables
<1> QED BY <1>1, TablesAre DEF Columns, Everything

LEMMA ColumnsArePairs == \A x \in Columns : Len(x) = 2
<1>1. \A x \in FirstColumns : Len(x) = 2
  BY DEF FirstColumns
<1>2. \A x \in ToSet(Patches) : Len(x) = 2
  BY PatchesAre
<1> QED BY <1>1, <1>2 DEF Columns

LEMMA BootStart == ConsoleInit => BootInv
<1> SUFFICES ASSUME BootInit PROVE BootInv
  BY DEF ConsoleInit
<1>1. /\ backend \in {"postgres", "sqlite"} /\ boot = "down" /\ step = 1 /\ names = {} /\ seeds = 0
      /\ \/ schema = {}
         \/ backend = "sqlite" /\ schema = Tables(ToSet(ScriptTables)) \cup FirstColumns
  BY DEF BootInit
<1>2. BootTyped
  <2>1. schema \subseteq Everything
    <3>1. \A x : x \in Tables(ToSet(ScriptTables)) \/ x \in FirstColumns => x \in Everything
      BY FirstColumnsAre DEF Everything
    <3> QED BY <1>1, <3>1
  <2> QED BY <1>1, <2>1 DEF BootTyped
<1>3. ASSUME backend = "sqlite" PROVE ScriptRuns
  <2>1. \A c \in FirstColumns : <<TableOf(c)>> \in schema => c \in schema
    BY <1>1
  <2> QED BY <1>1, <2>1 DEF ScriptRuns
<1>4. ASSUME backend = "postgres" PROVE MigrationsRun
  <2>1. schema = {}
    BY <1>1, <1>4
  <2> QED BY <1>1, <2>1, MigrationsAre DEF MigrationsRun, Agrees
<1> QED BY <1>1, <1>2, <1>3, <1>4 DEF BootInv, Seeded

LEMMA MigrateAgrees ==
  ASSUME BootTyped, Agrees, NEW k \in 1..9, Migrations[k].name \notin names,
         schema' = schema \cup Migrations[k].adds, names' = names \cup {Migrations[k].name}
  PROVE  Agrees'
<1> SUFFICES ASSUME NEW i \in 1..9
             PROVE  IF Migrations[i].name \in names' THEN Migrations[i].adds \subseteq schema'
                    ELSE Migrations[i].adds \cap schema' = {}
  BY DEF Agrees
<1>1. CASE i = k
  BY <1>1
<1>2. CASE i # k
  <2>1. Migrations[i].name # Migrations[k].name
    BY <1>2, MigrationsAre
  <2>2. Migrations[i].adds \cap Migrations[k].adds = {}
    BY <1>2, MigrationsApart
  <2> QED BY <2>1, <2>2 DEF Agrees
<1> QED BY <1>1, <1>2

LEMMA BootKeeps == BootInv /\ [Next]_consoleVars => BootInv'
<1> SUFFICES ASSUME BootInv, [Next]_consoleVars PROVE BootInv'
  OBVIOUS
<1>0. BootTyped /\ Seeded /\ (backend = "sqlite" => ScriptRuns) /\ (backend = "postgres" => MigrationsRun)
  BY DEF BootInv
<1> USE DEF BootTyped, Seeded, At
<1>1. CASE UNCHANGED bootVars
  BY <1>0, <1>1 DEF BootInv, bootVars, ScriptRuns, MigrationsRun, Agrees
<1>2. CASE BeginBoot
  BY <1>0, <1>2 DEF BootInv, BeginBoot, ScriptRuns, MigrationsRun, Agrees
<1>3. CASE Connected
  BY <1>0, <1>3, MigrationsAre DEF BootInv, Connected, ScriptRuns, MigrationsRun, Agrees
<1>4. CASE ConnectFails \/ BootKilled
  BY <1>0, <1>4 DEF BootInv, ConnectFails, BootKilled, ScriptRuns, MigrationsRun, Agrees
<1>5. CASE Migrate
  <2>1. /\ boot = "migrate" /\ step \in 1..9 /\ step' = step + 1
        /\ boot' = "migrate" /\ backend' = backend /\ seeds' = seeds
    BY <1>0, <1>5, MigrationsAre DEF Migrate
  <2>2. backend = "postgres" /\ MigrationsRun /\ backend' = "postgres"
    BY <1>0, <2>1 DEF ScriptRuns
  <2>3. CASE Migrations[step].name \in names
    <3>1. names' = names /\ schema' = schema
      BY <1>5, <2>3 DEF Migrate
    <3>2. \A j \in 1..9 : j < step + 1 => Migrations[j].name \in names
      BY <1>0, <2>1, <2>2, <2>3 DEF MigrationsRun
    <3> QED BY <1>0, <2>1, <2>2, <3>1, <3>2 DEF BootInv, MigrationsRun, Agrees
  <2>4. CASE Migrations[step].name \notin names
    <3> DEFINE k == step
    <3>1. schema' = schema \cup Migrations[k].adds /\ names' = names \cup {Migrations[k].name}
      BY <1>5, <2>4 DEF Migrate, Applied
    <3>2. Agrees'
      BY <1>0, <2>1, <2>2, <2>4, <3>1, MigrateAgrees DEF MigrationsRun
    <3>3. \A j \in 1..9 : j < step + 1 => Migrations[j].name \in names'
      BY <1>0, <2>1, <2>2, <3>1 DEF MigrationsRun
    <3>4. BootTyped'
      <4>1. Migrations[k].adds \subseteq Everything /\ Migrations[k].name \in 1..9
        BY <2>1, MigrationsAre, MigrationsSuffice
      <4>2. schema' \subseteq Everything
        BY <1>0, <3>1, <4>1, Zenon
      <4>3. names' \subseteq 1..9
        BY <1>0, <3>1, <4>1, Zenon
      <4> QED BY <1>0, <2>1, <4>2, <4>3
    <3> QED BY <1>0, <2>1, <2>2, <3>2, <3>3, <3>4 DEF BootInv, MigrationsRun
  <2> QED BY <2>3, <2>4
<1>6. CASE Migrated
  <2>1. backend = "postgres" /\ MigrationsRun
    BY <1>0, <1>6 DEF Migrated, ScriptRuns
  <2>2. \A j \in 1..9 : Migrations[j].name \in names
    BY <1>0, <1>6, <2>1, MigrationsAre DEF Migrated, MigrationsRun
  <2> QED BY <1>0, <1>6, <2>1, <2>2 DEF BootInv, Migrated, MigrationsRun, Agrees
<1>7. CASE RunScript
  <2>1. PICK k \in 0..Len(ScriptTables) :
          LET new == Tables({ScriptTables[i] : i \in 1..k}) \ schema
          IN /\ boot = "script"
             /\ boot' = IF k = Len(ScriptTables) THEN "patch" ELSE "down"
             /\ schema' = schema \cup new \cup {c \in Columns : <<TableOf(c)>> \in new}
             /\ UNCHANGED <<backend, step, names, seeds, boots>>
    BY <1>7, Zenon DEF RunScript
  <2> DEFINE new == Tables({ScriptTables[i] : i \in 1..k}) \ schema
  <2>2. /\ boot = "script" /\ boot' = (IF k = Len(ScriptTables) THEN "patch" ELSE "down")
        /\ \A x : x \in schema' <=> \/ x \in schema \/ x \in new
                                    \/ x \in Columns /\ <<TableOf(x)>> \in new
        /\ backend' = backend /\ step' = step /\ names' = names /\ seeds' = seeds
    BY <2>1
  <2>3. backend = "sqlite" /\ ScriptRuns
    BY <1>0, <2>2 DEF MigrationsRun
  <2>4. /\ DOMAIN ScriptTables = 1..Len(ScriptTables)
        /\ Len(ScriptTables) \in Nat
    BY DEF ScriptTables
  <2>5. new \subseteq Tables(ToSet(ScriptTables))
    BY <2>4 DEF Tables, ToSet
  <2>6. k = Len(ScriptTables) => \A x \in Tables(ToSet(ScriptTables)) : x \in schema \/ x \in new
    BY <2>4 DEF Tables, ToSet
  <2> HIDE DEF new, BootTyped, Seeded
  <2>7. schema' \subseteq Everything
    BY <1>0, <2>2, <2>5 DEF BootTyped, Everything
  <2>8. ASSUME NEW c \in FirstColumns, <<TableOf(c)>> \in schema' PROVE c \in schema'
    <3>1. <<TableOf(c)>> \in schema \/ <<TableOf(c)>> \in new
      <4>1. Len(<<TableOf(c)>>) = 1
        OBVIOUS
      <4>2. <<TableOf(c)>> \notin Columns
        BY <4>1, ColumnsArePairs
      <4> QED BY <2>2, <2>8, <4>2
    <3> QED BY <2>2, <2>3, <2>8, <3>1, FirstColumnsAre DEF ScriptRuns
  <2>9. boot' \in {"patch", "down"} /\ (boot' = "patch" => k = Len(ScriptTables))
    BY <2>2
  <2>10. boot' = "patch" => Tables(ToSet(ScriptTables)) \subseteq schema'
    BY <2>2, <2>6, <2>9
  <2>11. step' = 1 /\ \A c \in FirstColumns : <<TableOf(c)>> \in schema' => c \in schema'
    BY <2>2, <2>3, <2>8 DEF ScriptRuns
  <2>12. ScriptRuns'
    BY <1>0, <2>9, <2>10, <2>11, PatchesAre DEF ScriptRuns
  <2>13. BootTyped' /\ Seeded'
    BY <1>0, <2>2, <2>7, <2>9 DEF BootTyped, Seeded
  <2> QED BY <2>2, <2>3, <2>12, <2>13 DEF BootInv
<1>8. CASE Patch
  <2>1. /\ boot = "patch" /\ boot' = "patch" /\ backend' = backend /\ seeds' = seeds /\ names' = names
        /\ step \in 1..Len(Patches) /\ step' = step + 1 /\ schema' = schema \cup {Patches[step]}
    BY <1>0, <1>8, PatchesAre DEF Patch
  <2>2. backend = "sqlite" /\ ScriptRuns
    BY <1>0, <2>1 DEF MigrationsRun
  <2>3. Patches[step] \in ToSet(Patches)
    BY <2>1, PatchesAre DEF ToSet
  <2>4. schema' \subseteq Everything
    BY <1>0, <2>1, <2>3 DEF Everything, Columns
  <2>5. \A j \in 1..Len(Patches) : j < step + 1 => Patches[j] \in schema'
    BY <1>0, <2>1, <2>2 DEF ScriptRuns
  <2>6. \A c \in FirstColumns : <<TableOf(c)>> \in schema' => c \in schema'
    <3>1. \A c \in FirstColumns : <<TableOf(c)>> \in schema
      BY <2>1, <2>2, FirstColumnsAre DEF ScriptRuns
    <3> QED BY <2>1, <2>2, <3>1 DEF ScriptRuns
  <2> QED BY <1>0, <2>1, <2>2, <2>4, <2>5, <2>6 DEF BootInv, ScriptRuns
<1>9. CASE Patched
  <2>1. backend = "sqlite" /\ ScriptRuns
    BY <1>0, <1>9 DEF Patched, MigrationsRun
  <2>2. ASSUME NEW x \in ToSet(Patches) PROVE x \in schema
    <3>1. PICK j \in 1..Len(Patches) : x = Patches[j]
      BY <2>2, PatchesAre DEF ToSet
    <3> QED BY <1>0, <1>9, <2>1, <3>1, PatchesAre DEF Patched, ScriptRuns
  <2>3. \A c \in FirstColumns : c \in schema
    BY <1>9, <2>1, FirstColumnsAre DEF Patched, ScriptRuns
  <2>4. Everything \subseteq schema
    BY <1>9, <2>1, <2>2, <2>3 DEF Patched, ScriptRuns, Everything, Columns
  <2>5. schema = Everything
    BY <1>0, <2>4
  <2> QED BY <1>0, <1>9, <2>1, <2>5 DEF BootInv, Patched, ScriptRuns
<1>10. CASE CountUsers
  BY <1>0, <1>10 DEF BootInv, CountUsers, NeedsSeed, ScriptRuns, MigrationsRun, Agrees
<1>11. CASE Seed
  BY <1>0, <1>11 DEF BootInv, Seed, ScriptRuns, MigrationsRun, Agrees
<1> QED BY <1>1, <1>2, <1>3, <1>4, <1>5, <1>6, <1>7, <1>8, <1>9, <1>10, <1>11, BootStep, Zenon

LEMMA BootInvHolds == BootInv => BootHolds /\ BootTypeOK
<1> SUFFICES ASSUME BootInv PROVE BootHolds /\ BootTypeOK
  OBVIOUS
<1>1. BootTypeOK
  BY DEF BootInv, BootTyped, BootTypeOK
<1>2. ServesWithSchema
  <2>1. CASE backend = "sqlite"
    BY <2>1 DEF BootInv, Seeded, ScriptRuns, ServesWithSchema
  <2>2. ASSUME backend = "postgres", boot = "up" PROVE schema = Everything
    <3>1. \A j \in 1..9 : Migrations[j].adds \subseteq schema
      BY <2>2 DEF BootInv, MigrationsRun, Agrees
    <3>2. Everything \subseteq schema
      BY <3>1, MigrationsSuffice
    <3> QED BY <3>2 DEF BootInv, BootTyped
  <2> QED BY <2>1, <2>2 DEF BootInv, BootTyped, Seeded, ServesWithSchema
<1>3. RecordAgrees
  BY MigrationsAre DEF BootInv, MigrationsRun, Agrees, RecordAgrees
<1> QED BY <1>1, <1>2, <1>3 DEF BootHolds

LEMMA ConfigTypesHold == ConfigInv => ConfigTypeOK
<1> SUFFICES ASSUME ConfigInv PROVE ConfigTypeOK
  OBVIOUS
<1>1. BackupTyped
  BY DEF ConfigInv
<1>2. ASSUME NEW c \in Consoles
      PROVE  /\ instances[c] \subseteq InstanceSet /\ configs[c] \subseteq Creates
             /\ endpoints[c] \subseteq EndpointSet
  BY <1>1, Zenon DEF BackupTyped
<1>3. ASSUME NEW c \in Consoles PROVE Ids(endpoints[c]) \subseteq Creates
  <2>1. \A e \in endpoints[c] : e.id \in Creates
    BY <1>2 DEF EndpointSet
  <2> QED BY <2>1 DEF Ids
<1>4. document.ready \in BOOLEAN
  BY <1>1 DEF BackupTyped, DocumentSet
<1> QED BY <1>2, <1>3, <1>4, Zenon DEF ConfigTypeOK, InstanceSet

LEMMA VolumeTypesStart == ConsoleInit => V!TypeOK
BY VolumeStart DEF VolumeInv

(* Wherever boots, migrations and setups are cut off: a Console that serves*)
(* has every table and column it asks for and one seeded administrator, the*)
(* record of what was applied agrees with the schema, the signing key of a *)
(* setup is the kept one while that can be read, and every part of the     *)
(* Console keeps its types.                                                *)
THEOREM PlatformIsKept == Spec => []PlatformBoots
<1>1. Spec => [](AccountsInv /\ ClockCounts)
  BY AccountsStart, AccountsKeep, PTL DEF Spec
<1>2. Spec => []BootInv
  BY BootStart, BootKeeps, PTL DEF Spec
<1>3. Spec => []ConfigInv
  BY ConfigStart, ConfigKeeps, PTL DEF Spec
<1>4. Spec => []FleetInv
  BY FleetStart, FleetKeeps, PTL DEF Spec
<1>5. Spec => []SupervisorInv
  BY SupervisorStart, SupervisorKeeps, PTL DEF Spec
<1>6. Spec => []V!TypeOK
  BY VolumeTypesStart, VolumeStep, VolumeTypes, PTL DEF Spec
<1>7. (AccountsInv /\ ClockCounts) /\ BootInv /\ ConfigInv /\ FleetInv /\ SupervisorInv /\ V!TypeOK
        => PlatformBoots
  BY AccountsTypesHold, BootInvHolds, ConfigTypesHold, FleetTypesHold, SupervisorInvHolds, Zenon
     DEF PlatformBoots, ConsoleTypeOK
<1> QED BY <1>1, <1>2, <1>3, <1>4, <1>5, <1>6, <1>7, PTL

-----------------------------------------------------------------------------
(* The rate limiter.  What was let through lately is the right end of the  *)
(* window it was counted in, so that a window that has room for a request  *)
(* is a moment that has room for it; and the window of a refusal empties   *)
(* by the time that was announced.                                         *)
Pass == [rule : Rules, at : Nat]

(* The history of a window is the end of it, and nothing of it is old.     *)
Follows(p) ==
  LET h == hits[p]  s == passed[p]
  IN /\ Len(s) <= Len(h)
     /\ \A i \in 1..Len(s) : s[i].at = h[Len(h) - Len(s) + i]
     /\ s # <<>> => s[1].at > mono - WindowSize

PromiseKept ==
  promise.rule # "none" /\ ~promise.others =>
    LET h == hits[PrefixOf(promise.rule)]
    IN Len(h) <= LimitOf[promise.rule] /\ h[1] + WindowSize <= promise.due

LimiterInv ==
  /\ hits \in [Windows -> Seq(Nat)] /\ passed \in [Windows -> Seq(Pass)] /\ mono \in Nat
  /\ promise \in [rule : Rules \cup {"none"}, at : Nat, due : Nat, others : BOOLEAN]
  /\ \A p \in Windows : Follows(p)
  /\ PromiseKept /\ WindowsRespected

LEMMA LimiterStep ==
  [Next]_consoleVars => (\E r \in Rules : Ask(r)) \/ LimiterTick \/ UNCHANGED limiterVars
<1>1. UNCHANGED consoleVars => UNCHANGED limiterVars
  BY DEF consoleVars
<1>2. ASSUME NEW part, part # "limits", In(part) PROVE UNCHANGED limiterVars
  BY <1>2 DEF In
<1>3. Next => (\E r \in Rules : Ask(r)) \/ LimiterTick \/ UNCHANGED limiterVars
  BY <1>2, Zenon DEF Next
<1> QED BY <1>1, <1>3

(* A sequence without its first n.                                         *)
LEMMA TheRest ==
  ASSUME NEW S, NEW s \in Seq(S), NEW n \in 0..Len(s)
  PROVE  /\ SubSeq(s, n + 1, Len(s)) \in Seq(S)
         /\ Len(SubSeq(s, n + 1, Len(s))) = Len(s) - n
         /\ \A i \in 1..(Len(s) - n) : SubSeq(s, n + 1, Len(s))[i] = s[n + i]
<1>1. n \in Nat /\ Len(s) \in Nat /\ n <= Len(s)
  OBVIOUS
<1>2. \A i \in (n + 1)..Len(s) : s[i] \in S
  BY <1>1
<1> DEFINE r == SubSeq(s, n + 1, Len(s))
<1>3. /\ r \in Seq(S)
      /\ Len(r) = IF n + 1 <= Len(s) THEN Len(s) - (n + 1) + 1 ELSE 0
      /\ \A i \in 1..(Len(s) - (n + 1) + 1) : r[i] = s[(n + 1) + i - 1]
  BY <1>1, <1>2, SubSeqProperties
<1> HIDE DEF r
<1>4. Len(s) - (n + 1) + 1 = Len(s) - n
  BY <1>1
<1>5. \A i \in 1..(Len(s) - n) : (n + 1) + i - 1 = n + i
  BY <1>1
<1>6. Len(r) = Len(s) - n
  BY SMTT(30), <1>1, <1>3
<1>7. r \in Seq(S) /\ Len(r) = Len(s) - n /\ \A i \in 1..(Len(s) - n) : r[i] = s[n + i]
  BY Zenon, <1>3, <1>4, <1>5, <1>6
<1> QED BY <1>7 DEF r

LEMMA ExpiredIs ==
  ASSUME NEW times \in Seq(Nat), NEW t \in Nat
  PROVE  /\ Expired(times, t) \in 0..Len(times)
         /\ \A i \in 1..Expired(times, t) : times[i] <= t - WindowSize
         /\ Expired(times, t) < Len(times) => times[Expired(times, t) + 1] > t - WindowSize
<1> DEFINE C == {n \in 0..Len(times) : n < Len(times) => times[n + 1] > t - WindowSize}
           Is(n) == /\ \A i \in 1..n : times[i] <= t - WindowSize
                    /\ n < Len(times) => times[n + 1] > t - WindowSize
<1>0. WindowSize \in Nat /\ Len(times) \in Nat /\ \A i \in 1..Len(times) : times[i] \in Nat
  BY LimiterAssumption
<1>1. Len(times) \in C /\ C \subseteq Nat
  BY <1>0
<1>2. PICK n \in C : \A k \in C : n <= k
  BY <1>1, LeastNatural
<1>3. ASSUME NEW i \in 1..n PROVE times[i] <= t - WindowSize
  <2>1. i - 1 \in 0..Len(times) /\ i - 1 < Len(times) /\ (i - 1) + 1 = i /\ ~(n <= i - 1)
    BY <1>0, <1>1, <1>2
  <2>2. i - 1 \notin C
    BY <1>2, <2>1
  <2>3. ~(times[i] > t - WindowSize)
    BY <2>1, <2>2
  <2>4. times[i] \in Nat /\ t - WindowSize \in Int
    BY <1>0, <2>1
  <2> QED BY <2>3, <2>4
<1>4. n \in 0..Len(times) /\ Is(n)
  BY <1>2, <1>3
<1>5. Expired(times, t) = CHOOSE m \in 0..Len(times) : Is(m)
  BY DEF Expired
<1> HIDE DEF C, Is
<1>6. Expired(times, t) \in 0..Len(times) /\ Is(Expired(times, t))
  BY <1>4, <1>5
<1> QED BY <1>6 DEF Is

(* A window without what is too old still has all of its history.          *)
LEMMA LiveIs ==
  ASSUME LimiterInv, NEW p \in Windows
  PROVE  LET w == Live(hits[p])  s == passed[p]
         IN /\ w \in Seq(Nat) /\ Len(s) <= Len(w)
            /\ \A i \in 1..Len(s) : s[i].at = w[Len(w) - Len(s) + i]
            /\ Len(w) > 0 => w[1] > mono - WindowSize
            /\ Len(w) <= Len(hits[p])
            /\ hits[p] # <<>> /\ hits[p][1] <= mono - WindowSize => Len(w) < Len(hits[p])
<1> DEFINE h == hits[p]
           s == passed[p]
           e == Expired(h, mono)
           w == Live(h)
<1>1. /\ h \in Seq(Nat) /\ s \in Seq(Pass) /\ mono \in Nat /\ WindowSize \in Nat
      /\ Len(s) <= Len(h)
      /\ \A i \in 1..Len(s) : s[i].at = h[Len(h) - Len(s) + i]
      /\ s # <<>> => s[1].at > mono - WindowSize
  BY LimiterAssumption DEF LimiterInv, Follows
<1>2. /\ e \in 0..Len(h)
      /\ \A i \in 1..e : h[i] <= mono - WindowSize
      /\ e < Len(h) => h[e + 1] > mono - WindowSize
  BY <1>1, ExpiredIs
<1>3. /\ w \in Seq(Nat) /\ Len(w) = Len(h) - e
      /\ \A i \in 1..(Len(h) - e) : w[i] = h[e + i]
  BY <1>1, <1>2, TheRest DEF Live
<1> HIDE DEF w, e
<1>4. Len(s) \in Nat /\ Len(h) \in Nat /\ \A i \in 1..Len(h) : h[i] \in Nat
  BY <1>1
<1> HIDE DEF h
<1>5. Len(s) <= Len(h) - e
  <2>1. CASE Len(s) = 0
    BY <1>2, <1>4, <2>1
  <2>2. CASE Len(s) > 0
    <3>1. 1 \in 1..Len(s) /\ s # <<>>
      BY <1>1, <1>4, <2>2
    <3>2. h[Len(h) - Len(s) + 1] > mono - WindowSize
      BY <1>1, <3>1
    <3>3. Len(h) - Len(s) + 1 \in 1..Len(h)
      BY <1>1, <1>4, <2>2
    <3> DEFINE k == Len(h) - Len(s) + 1
    <3>4. k \notin 1..e
      <4>1. h[k] > mono - WindowSize /\ k \in 1..Len(h)
        BY <3>2, <3>3
      <4> HIDE DEF k
      <4>2. h[k] \in Nat /\ mono - WindowSize \in Int
        BY <1>1, <1>4, <4>1
      <4> QED BY <1>2, <4>1, <4>2
    <3> QED BY <1>1, <1>2, <1>4, <3>3, <3>4
  <2> QED BY <1>4, <2>1, <2>2
<1>6. ASSUME NEW i \in 1..Len(s) PROVE s[i].at = w[Len(w) - Len(s) + i]
  <2>1. /\ Len(w) - Len(s) + i \in 1..(Len(h) - e)
        /\ e + (Len(w) - Len(s) + i) = Len(h) - Len(s) + i
    BY <1>2, <1>3, <1>4, <1>5
  <2> QED BY <1>1, <1>3, <2>1
<1>7. Len(w) > 0 => w[1] > mono - WindowSize
  BY SMTT(30), <1>2, <1>3, <1>4
<1>8. ASSUME h # <<>>, h[1] <= mono - WindowSize PROVE Len(w) < Len(h)
  <2>1. Len(h) > 0
    BY <1>1, <1>4, <1>8
  <2>2. e # 0
    BY <1>1, <1>2, <1>4, <1>8, <2>1
  <2> QED BY <1>2, <1>3, <1>4, <2>2
<1>9. Len(w) <= Len(h)
  BY <1>2, <1>3, <1>4
<1>10. /\ w \in Seq(Nat) /\ Len(s) <= Len(w)
       /\ \A i \in 1..Len(s) : s[i].at = w[Len(w) - Len(s) + i]
       /\ Len(w) > 0 => w[1] > mono - WindowSize
       /\ Len(w) <= Len(h)
       /\ h # <<>> /\ h[1] <= mono - WindowSize => Len(w) < Len(h)
  BY <1>1, <1>3, <1>4, <1>5, <1>6, <1>7, <1>8, <1>9
<1> QED BY <1>10 DEF w, h, s

(* A set of places of a sequence is no larger than the sequence.           *)
LEMMA FewPlaces ==
  ASSUME NEW n \in Nat, NEW P, P \subseteq 1..n
  PROVE  IsFiniteSet(P) /\ Cardinality(P) \in Nat /\ Cardinality(P) <= n
<1>1. IsFiniteSet(1..n) /\ Cardinality(1..n) = n
  BY FS_Interval
<1>2. IsFiniteSet(P) /\ Cardinality(P) <= n
  BY <1>1, FS_Subset
<1> QED BY <1>2, FS_CardinalityType

(* Places that are as many as those they are moved to.                     *)
LEMMA MovedPlaces ==
  ASSUME NEW n \in Nat, NEW k \in Nat, NEW P, NEW Q, P \subseteq 1..n, Q \subseteq 1..(n + k),
         \A i \in P : k + i \in Q
  PROVE  Cardinality(P) <= Cardinality(Q)
<1> DEFINE f == [i \in P |-> k + i]
<1>1. f \in [P -> Q]
  OBVIOUS
<1>2. \A i, j \in P : f[i] = f[j] => i = j
  BY SMT
<1>3. f \in Injection(P, Q)
  BY <1>1, <1>2 DEF Injection, IsInjective
<1>4. IsFiniteSet(Q)
  <2>1. n + k \in Nat
    OBVIOUS
  <2> QED BY <2>1, FewPlaces
<1> QED BY <1>3, <1>4, FS_Injection

LEMMA WindowArithmetic ==
  \A m, h, d \in Nat : h > m - d => h + d <= m + 2 * ((d - (m - h)) \div 2 + 1)
<1>1. \A x \in Nat : x <= 2 * (x \div 2 + 1)
  OBVIOUS
<1> SUFFICES ASSUME NEW m \in Nat, NEW h \in Nat, NEW d \in Nat, h > m - d
             PROVE  h + d <= m + 2 * ((d - (m - h)) \div 2 + 1)
  OBVIOUS
<1> DEFINE x == d - (m - h)
<1>2. x \in Nat /\ h + d = m + x
  OBVIOUS
<1>3. x \div 2 \in Int
  BY <1>2
<1> HIDE DEF x
<1>4. h + d <= m + 2 * (x \div 2 + 1)
  BY <1>1, <1>2, <1>3
<1> QED BY <1>4 DEF x

LEMMA LimiterStart == ConsoleInit => LimiterInv
<1> SUFFICES ASSUME ConsoleInit PROVE LimiterInv
  OBVIOUS
<1>1. /\ hits = [p \in Windows |-> <<>>] /\ passed = [p \in Windows |-> <<>>]
      /\ mono = 0 /\ promise = NoPromise
  BY DEF ConsoleInit, LimiterInit
<1>2. <<>> \in Seq(Nat) /\ <<>> \in Seq(Pass) /\ Len(<<>>) = 0
  BY EmptySeq
<1>3. \A p \in Windows : Follows(p)
  BY <1>1, <1>2 DEF Follows
<1>4. WindowsRespected
  <2>1. ASSUME NEW p \in Windows, NEW rs PROVE PassedNow(p, rs) = 0
    <3>1. DOMAIN passed[p] = {}
      BY <1>1, <1>2, <2>1
    <3> DEFINE P == {i \in DOMAIN passed[p] :
                       passed[p][i].at > mono - WindowSize /\ passed[p][i].rule \in rs}
    <3>2. P = {}
      BY <3>1
    <3> QED BY <3>2, FS_EmptySet DEF PassedNow
  <2>2. \A r \in Rules : PrefixOf(r) \in Windows /\ LimitOf[r] \in Nat
    BY LimiterAssumption DEF PrefixOf, Windows, Rules, LimitOf
  <2>3. "api" \in Windows /\ ReadLimit \in Nat
    BY LimiterAssumption DEF Windows
  <2>4. \A n \in Nat : 0 <= n
    OBVIOUS
  <2> QED BY <2>1, <2>2, <2>3, <2>4, Zenon DEF WindowsRespected
<1>5. promise \in [rule : Rules \cup {"none"}, at : Nat, due : Nat, others : BOOLEAN] /\ PromiseKept
  BY <1>1 DEF NoPromise, PromiseKept
<1> QED BY <1>1, <1>2, <1>3, <1>4, <1>5 DEF LimiterInv

LEMMA RulesAre ==
  /\ \A r \in Rules : PrefixOf(r) \in Windows /\ LimitOf[r] \in Nat \ {0} /\ r # "none"
  /\ \A r \in Rules : PrefixOf(r) = "api" => LimitOf[r] <= ReadLimit
  /\ "api" \in Windows /\ ReadLimit \in Nat /\ WindowSize \in Nat \ {0}
BY LimiterAssumption DEF PrefixOf, Windows, Rules, LimitOf

(* A refusal drops what is old, and announces when the oldest will be.     *)
LEMMA RefusalKeeps ==
  ASSUME LimiterInv, NEW r \in Rules, Ask(r), Len(Live(hits[PrefixOf(r)])) >= LimitOf[r]
  PROVE  LimiterInv'
<1> DEFINE p == PrefixOf(r)
           w == Live(hits[p])
           s == passed[p]
           due == mono + RetryAfter(w)
<1>1. /\ p \in Windows /\ LimitOf[r] \in Nat \ {0} /\ r # "none" /\ WindowSize \in Nat \ {0}
      /\ mono \in Nat /\ mono' = mono /\ passed' = passed
      /\ hits \in [Windows -> Seq(Nat)]
  BY RulesAre DEF LimiterInv, Ask
<1>2. /\ w \in Seq(Nat) /\ Len(s) <= Len(w)
      /\ \A i \in 1..Len(s) : s[i].at = w[Len(w) - Len(s) + i]
      /\ w[1] > mono - WindowSize /\ w[1] \in Nat /\ Len(w) \in Nat
  <2>1. Len(w) >= LimitOf[r]
    OBVIOUS
  <2>2. /\ w \in Seq(Nat) /\ Len(s) <= Len(w)
        /\ \A i \in 1..Len(s) : s[i].at = w[Len(w) - Len(s) + i]
        /\ Len(w) > 0 => w[1] > mono - WindowSize
    BY <1>1, LiveIs
  <2> HIDE DEF w, p, s
  <2>3. Len(w) \in Nat /\ Len(w) > 0
    BY <1>1, <2>1, <2>2
  <2>4. w[1] \in Nat
    BY <2>2, <2>3
  <2> QED BY <2>2, <2>3, <2>4
<1>3. /\ hits' = [hits EXCEPT ![p] = w]
      /\ promise' = [rule |-> r, at |-> mono, due |-> due, others |-> Len(w) > LimitOf[r]]
  BY DEF Ask
<1>4. due \in Nat /\ w[1] + WindowSize <= due
  <2>1. due = mono + 2 * ((WindowSize - (mono - w[1])) \div 2 + 1)
    BY DEF RetryAfter
  <2>2. w[1] + WindowSize <= due /\ due \in Int
    <3> DEFINE first == w[1]
    <3>1. first \in Nat /\ WindowSize \in Nat /\ mono \in Nat /\ first > mono - WindowSize
      BY <1>1, <1>2
    <3>2. due = mono + 2 * ((WindowSize - (mono - first)) \div 2 + 1)
      BY <2>1
    <3> HIDE DEF w, due, first, p
    <3>3. \A m, h, d \in Nat : m + 2 * ((d - (m - h)) \div 2 + 1) \in Int
      OBVIOUS
    <3>4. first + WindowSize <= due /\ due \in Int
      BY <3>1, <3>2, <3>3, WindowArithmetic
    <3> QED BY <3>4 DEF first
  <2>3. due \in Nat
    <3> HIDE DEF w, due
    <3> QED BY <1>1, <1>2, <2>2
  <2> QED BY <2>2, <2>3
<1> HIDE DEF w, due, s
<1>5. hits' \in [Windows -> Seq(Nat)] /\ hits'[p] = w /\ \A q \in Windows : q # p => hits'[q] = hits[q]
  BY <1>1, <1>2, <1>3
<1>6. promise' \in [rule : Rules \cup {"none"}, at : Nat, due : Nat, others : BOOLEAN]
  BY <1>1, <1>3, <1>4
<1>7. ASSUME NEW q \in Windows PROVE Follows(q)'
  <2>1. CASE q = p
    <3>1. s # <<>> => s[1].at > mono - WindowSize
      BY <1>1 DEF LimiterInv, Follows, s
    <3>2. hits'[p] = w /\ passed'[p] = s
      BY <1>1, <1>5 DEF s
    <3> HIDE DEF p
    <3> QED BY <1>1, <1>2, <2>1, <3>1, <3>2 DEF Follows
  <2>2. CASE q # p
    BY <1>1, <1>5, <2>2 DEF LimiterInv, Follows
  <2> QED BY <2>1, <2>2
<1>8. PromiseKept'
  <2>1. promise'.rule = r /\ promise'.due = due /\ promise'.others = (Len(w) > LimitOf[r])
    BY <1>3
  <2>2. PrefixOf(promise'.rule) = p
    BY <2>1
  <2>3. ~(Len(w) > LimitOf[r]) => Len(w) <= LimitOf[r]
    BY <1>1, <1>2
  <2> QED BY <1>4, <1>5, <2>1, <2>2, <2>3 DEF PromiseKept
<1>9. WindowsRespected'
  BY <1>1 DEF LimiterInv, WindowsRespected, PassedNow
<1> QED BY <1>1, <1>5, <1>6, <1>7, <1>8, <1>9 DEF LimiterInv

(* A request that is let through is one more of a window that had room.    *)
LEMMA PassKeeps ==
  ASSUME LimiterInv, NEW r \in Rules, Ask(r), ~(Len(Live(hits[PrefixOf(r)])) >= LimitOf[r])
  PROVE  LimiterInv'
<1> DEFINE p == PrefixOf(r)
           w == Live(hits[p])
           s == passed[p]
           new == [rule |-> r, at |-> mono]
<1>1. /\ p \in Windows /\ LimitOf[r] \in Nat \ {0} /\ r # "none" /\ WindowSize \in Nat \ {0}
      /\ mono \in Nat /\ mono' = mono
      /\ hits \in [Windows -> Seq(Nat)] /\ passed \in [Windows -> Seq(Pass)]
  BY RulesAre DEF LimiterInv, Ask
<1>2. /\ w \in Seq(Nat) /\ Len(s) <= Len(w)
      /\ \A i \in 1..Len(s) : s[i].at = w[Len(w) - Len(s) + i]
  BY <1>1, LiveIs
<1>3. /\ hits' = [hits EXCEPT ![p] = Append(w, mono)]
      /\ passed' = [passed EXCEPT ![p] = Append(@, new)]
      /\ promise' = IF promise.rule # "none" /\ PrefixOf(promise.rule) = p
                    THEN NoPromise ELSE promise
  BY DEF Ask
<1>4. Len(w) < LimitOf[r] /\ Len(w) \in Nat /\ Len(s) \in Nat /\ s \in Seq(Pass) /\ new \in Pass
  <2>1. new \in Pass
    BY <1>1 DEF Pass
  <2>2. s \in Seq(Pass)
    BY <1>1
  <2>3. ~(Len(w) >= LimitOf[r])
    OBVIOUS
  <2> HIDE DEF w, s, new, p
  <2>4. Len(w) \in Nat /\ Len(s) \in Nat
    BY <1>2, <2>2
  <2> QED BY <1>1, <2>1, <2>2, <2>3, <2>4
<1> HIDE DEF w, new, s
<1>5. /\ hits' \in [Windows -> Seq(Nat)] /\ hits'[p] = Append(w, mono)
      /\ \A q \in Windows : q # p => hits'[q] = hits[q]
  BY <1>1, <1>2, <1>3
<1>6. /\ passed' \in [Windows -> Seq(Pass)] /\ passed'[p] = Append(s, new)
      /\ \A q \in Windows : q # p => passed'[q] = passed[q]
  BY <1>1, <1>3, <1>4 DEF s
<1>7. /\ Len(Append(s, new)) = Len(s) + 1 /\ Append(s, new)[Len(s) + 1] = new
      /\ \A i \in 1..Len(s) : Append(s, new)[i] = s[i]
      /\ Len(Append(w, mono)) = Len(w) + 1 /\ Append(w, mono)[Len(w) + 1] = mono
      /\ \A i \in 1..Len(w) : Append(w, mono)[i] = w[i]
      /\ new.at = mono /\ new.rule = r
  BY <1>1, <1>2, <1>4, AppendProperties DEF new
<1>8. Follows(p)'
  <2> DEFINE S == Append(s, new)
             W == Append(w, mono)
  <2>1. Len(S) = Len(s) + 1 /\ Len(W) = Len(w) + 1
    BY <1>7
  <2>2. ASSUME NEW i \in 1..Len(s) PROVE S[i].at = W[Len(W) - Len(S) + i]
    <3>1. Len(W) - Len(S) + i = Len(w) - Len(s) + i /\ Len(w) - Len(s) + i \in 1..Len(w)
      BY <1>2, <1>4, <2>1
    <3> QED BY <1>2, <1>7, <3>1
  <2>3. S[Len(s) + 1].at = W[Len(W) - Len(S) + (Len(s) + 1)]
    <3>1. Len(W) - Len(S) + (Len(s) + 1) = Len(w) + 1
      BY <1>4, <2>1
    <3> QED BY <1>7, <3>1
  <2>4. S[1].at > mono - WindowSize
    <3>1. CASE Len(s) = 0
      BY <1>1, <1>7, <3>1
    <3>2. CASE Len(s) # 0
      <4>1. 1 \in 1..Len(s) /\ s # <<>>
        BY <1>4, <3>2
      <4>2. s[1].at > mono - WindowSize
        BY <1>1, <4>1 DEF LimiterInv, Follows, s
      <4> QED BY <1>7, <4>1, <4>2
    <3> QED BY <3>1, <3>2
  <2>5. Len(S) <= Len(W)
    BY <1>2, <1>4, <2>1
  <2> HIDE DEF S, W
  <2>6. \A i \in 1..Len(S) : S[i].at = W[Len(W) - Len(S) + i]
    <3>1. \A i \in 1..Len(S) : i \in 1..Len(s) \/ i = Len(s) + 1
      BY <1>4, <2>1
    <3> QED BY <2>2, <2>3, <3>1
  <2>7. hits'[p] = W /\ passed'[p] = S
    BY <1>5, <1>6 DEF S, W
  <2> QED BY <1>1, <2>4, <2>5, <2>6, <2>7 DEF Follows
<1>9. \A q \in Windows : Follows(q)'
  <2>1. ASSUME NEW q \in Windows, q # p PROVE Follows(q)'
    BY <1>1, <1>5, <1>6, <2>1 DEF LimiterInv, Follows
  <2> QED BY <1>8, <2>1
<1>10. /\ promise' \in [rule : Rules \cup {"none"}, at : Nat, due : Nat, others : BOOLEAN]
       /\ PromiseKept'
  <2>1. CASE promise' = NoPromise
    BY <2>1 DEF NoPromise, PromiseKept
  <2>2. CASE promise' = promise /\ (promise.rule # "none" => PrefixOf(promise.rule) # p)
    <3>1. promise \in [rule : Rules \cup {"none"}, at : Nat, due : Nat, others : BOOLEAN]
      BY DEF LimiterInv
    <3>2. promise.rule # "none" => hits'[PrefixOf(promise.rule)] = hits[PrefixOf(promise.rule)]
      BY <1>5, <2>2, <3>1, RulesAre
    <3> QED BY <2>2, <3>1, <3>2 DEF LimiterInv, PromiseKept
  <2> QED BY <1>3, <2>1, <2>2
<1>11. ASSUME NEW rs PROVE PassedNow(p, rs)' <= LimitOf[r] /\ (r \notin rs => PassedNow(p, rs)' = PassedNow(p, rs))
  <2> DEFINE P == {i \in DOMAIN passed'[p] :
                     passed'[p][i].at > mono - WindowSize /\ passed'[p][i].rule \in rs}
             Q == {i \in DOMAIN s : s[i].at > mono - WindowSize /\ s[i].rule \in rs}
  <2>1. PassedNow(p, rs)' = Cardinality(P) /\ PassedNow(p, rs) = Cardinality(Q)
    BY <1>1 DEF PassedNow, s
  <2>2. DOMAIN passed'[p] = 1..(Len(s) + 1) /\ DOMAIN s = 1..Len(s) /\ Len(s) + 1 \in Nat
    BY <1>4, <1>6, <1>7
  <2>3. P \subseteq 1..(Len(s) + 1)
    BY <2>2
  <2>4. r \notin rs => P = Q
    <3>1. ASSUME r \notin rs, NEW i PROVE i \in P <=> i \in Q
      <4>1. i \in 1..(Len(s) + 1) => i \in 1..Len(s) \/ i = Len(s) + 1
        BY <1>4
      <4>2. i \in 1..Len(s) => i \in 1..(Len(s) + 1)
        BY <1>4
      <4>3. i = Len(s) + 1 => i \notin P
        BY <1>6, <1>7, <3>1
      <4> QED BY <1>6, <1>7, <2>2, <4>1, <4>2, <4>3
    <3> QED BY <3>1
  <2> HIDE DEF P, Q
  <2>5. Cardinality(P) <= Len(s) + 1 /\ Cardinality(P) \in Nat
    BY <2>2, <2>3, FewPlaces
  <2> QED BY <1>1, <1>2, <1>4, <2>1, <2>4, <2>5
<1>12. ASSUME NEW q \in Windows, q # p, NEW rs PROVE PassedNow(q, rs)' = PassedNow(q, rs)
  BY <1>1, <1>6, <1>12 DEF PassedNow
<1>13. WindowsRespected'
  <2>1. ASSUME NEW x \in Rules PROVE PassedNow(PrefixOf(x), {x})' <= LimitOf[x]
    <3>1. CASE x = r
      BY <1>11, <3>1
    <3>2. CASE x # r /\ PrefixOf(x) = p
      BY <1>11, <3>2 DEF LimiterInv, WindowsRespected
    <3>3. CASE PrefixOf(x) # p
      BY <1>12, <3>3, RulesAre DEF LimiterInv, WindowsRespected
    <3> QED BY <3>1, <3>2, <3>3
  <2>2. PassedNow("api", Rules)' <= ReadLimit
    <3>1. CASE p = "api"
      <4>1. PassedNow("api", Rules)' <= LimitOf[r] /\ LimitOf[r] <= ReadLimit
        BY <1>11, <3>1, RulesAre
      <4>2. PassedNow("api", Rules)' \in Nat
        <5> DEFINE P == {i \in DOMAIN passed'["api"] :
                           passed'["api"][i].at > mono' - WindowSize /\ passed'["api"][i].rule \in Rules}
        <5>1. P \subseteq 1..Len(passed'["api"]) /\ Len(passed'["api"]) \in Nat
          BY <1>6, RulesAre
        <5>2. Cardinality(P) \in Nat
          BY <5>1, FewPlaces
        <5> QED BY <5>2 DEF PassedNow
      <4> QED BY <1>1, <4>1, <4>2, RulesAre
    <3>2. CASE p # "api"
      BY <1>12, <3>2, RulesAre DEF LimiterInv, WindowsRespected
    <3> QED BY <3>1, <3>2
  <2> QED BY <2>1, <2>2 DEF WindowsRespected
<1> QED BY <1>1, <1>5, <1>6, <1>9, <1>10, <1>13 DEF LimiterInv

(* What is left of a history when the clock moves.                         *)
LEMMA RecentIs ==
  ASSUME LimiterInv, NEW p \in Windows, NEW t \in Nat
  PROVE  LET s == passed[p]  n == Recent(p, t)
         IN /\ n \in Seq(Pass)
            /\ \E e \in 0..Len(s) : Len(n) = Len(s) - e /\ \A i \in 1..Len(n) : n[i] = s[e + i]
            /\ n # <<>> => n[1].at > t - WindowSize
<1> DEFINE s == passed[p]
           times == [i \in DOMAIN s |-> s[i].at]
           e == Expired(times, t)
           n == SubSeq(s, e + 1, Len(s))
<1>1. s \in Seq(Pass)
  BY DEF LimiterInv
<1> HIDE DEF s
<1>2. \A i \in 1..Len(s) : s[i] \in Pass
  BY <1>1
<1>3. \A x \in Pass : x.at \in Nat
  BY DEF Pass
<1>4. DOMAIN s = 1..Len(s) /\ Len(s) \in Nat
  BY <1>1
<1>5. times \in Seq(Nat) /\ Len(times) = Len(s) /\ \A i \in 1..Len(s) : times[i] = s[i].at
  <2>1. times \in [1..Len(s) -> Nat]
    BY <1>2, <1>3, <1>4
  <2>2. \A i \in 1..Len(s) : times[i] = s[i].at
    BY <1>4
  <2> HIDE DEF times
  <2>3. times \in Seq(Nat)
    BY <1>4, <2>1
  <2>4. DOMAIN times = 1..Len(s)
    BY <2>1
  <2>5. Len(times) = Len(s)
    BY <1>4, <2>3, <2>4, LenProperties
  <2> QED BY <2>2, <2>3, <2>5
<1> HIDE DEF times
<1>6. e \in 0..Len(s) /\ (e < Len(s) => times[e + 1] > t - WindowSize)
  BY <1>5, ExpiredIs
<1> HIDE DEF e
<1>7. /\ n \in Seq(Pass) /\ Len(n) = Len(s) - e
      /\ \A i \in 1..(Len(s) - e) : n[i] = s[e + i]
  BY <1>1, <1>6, TheRest
<1> HIDE DEF n
<1>8. ASSUME n # <<>> PROVE n[1].at > t - WindowSize
  <2>1. Len(n) # 0
    BY SMTT(30), <1>7, <1>8, EmptySeq
  <2>2. e < Len(s) /\ 1 \in 1..(Len(s) - e) /\ e + 1 \in 1..Len(s)
    <3>1. \A l \in Nat : \A k \in 0..l : l - k # 0 => k < l /\ 1 \in 1..(l - k) /\ k + 1 \in 1..l
      OBVIOUS
    <3>2. Len(s) - e # 0
      BY <1>7, <2>1
    <3> QED BY Zenon, <1>4, <1>6, <3>1, <3>2
  <2>3. n[1].at = times[e + 1]
    BY <1>5, <1>7, <2>2
  <2> QED BY <1>6, <2>2, <2>3
<1>9. Recent(p, t) = n
  BY DEF Recent, n, e, times, s
<1>10. \A i \in 1..Len(n) : n[i] = s[e + i]
  BY <1>7
<1>11. \E k \in 0..Len(s) : Len(n) = Len(s) - k /\ \A i \in 1..Len(n) : n[i] = s[k + i]
  BY <1>6, <1>7, <1>10
<1> QED BY <1>7, <1>8, <1>9, <1>11 DEF s

(* The clock takes from the histories only what is older than a window.    *)
LEMMA LimiterTickKeeps == ASSUME LimiterInv, LimiterTick PROVE LimiterInv'
<1>1. /\ mono \in Nat /\ mono' = mono + 1 /\ hits' = hits /\ promise' = promise
      /\ passed' = [p \in Windows |-> Recent(p, mono')]
      /\ hits \in [Windows -> Seq(Nat)] /\ passed \in [Windows -> Seq(Pass)]
  BY DEF LimiterInv, LimiterTick
<1>2. mono' \in Nat /\ WindowSize \in Nat
  BY <1>1, LimiterAssumption
<1>3. ASSUME NEW p \in Windows
      PROVE  /\ passed'[p] \in Seq(Pass) /\ Follows(p)'
             /\ \A rs : PassedNow(p, rs)' <= PassedNow(p, rs)
             /\ \A rs : PassedNow(p, rs) \in Nat /\ PassedNow(p, rs)' \in Nat
  <2> DEFINE s == passed[p]
             n == passed'[p]
             h == hits[p]
  <2>1. /\ n \in Seq(Pass)
        /\ \E e \in 0..Len(s) : Len(n) = Len(s) - e /\ \A i \in 1..Len(n) : n[i] = s[e + i]
        /\ n # <<>> => n[1].at > mono' - WindowSize
    <3> DEFINE m == Recent(p, mono')
    <3>1. n = m
      BY <1>1
    <3>2. /\ m \in Seq(Pass)
          /\ \E e \in 0..Len(s) : Len(m) = Len(s) - e /\ \A i \in 1..Len(m) : m[i] = s[e + i]
          /\ m # <<>> => m[1].at > mono' - WindowSize
      BY <1>2, RecentIs
    <3> HIDE DEF n, m, s
    <3> QED BY <3>1, <3>2
  <2>2. /\ s \in Seq(Pass) /\ h \in Seq(Nat) /\ Len(s) <= Len(h) /\ hits'[p] = h
        /\ \A i \in 1..Len(s) : s[i].at = h[Len(h) - Len(s) + i]
    BY <1>1 DEF LimiterInv, Follows
  <2> HIDE DEF s, n, h
  <2>3. PICK e \in 0..Len(s) : Len(n) = Len(s) - e /\ \A i \in 1..Len(n) : n[i] = s[e + i]
    BY <2>1
  <2>4. /\ Len(s) \in Nat /\ Len(n) \in Nat /\ Len(h) \in Nat /\ e \in Nat
        /\ DOMAIN s = 1..Len(s) /\ DOMAIN n = 1..Len(n)
    BY <2>1, <2>2, <2>3
  <2>5. Follows(p)'
    <3>1. Len(n) <= Len(h)
      BY <2>2, <2>3, <2>4
    <3>2. ASSUME NEW i \in 1..Len(n) PROVE n[i].at = h[Len(h) - Len(n) + i]
      <4>1. e + i \in 1..Len(s) /\ Len(h) - Len(s) + (e + i) = Len(h) - Len(n) + i
        BY <2>3, <2>4
      <4> QED BY <2>2, <2>3, <4>1
    <3>3. passed'[p] = n /\ hits'[p] = h
      BY <2>2 DEF n
    <3>4. /\ Len(passed'[p]) <= Len(hits'[p])
          /\ \A i \in 1..Len(passed'[p]) :
               passed'[p][i].at = hits'[p][Len(hits'[p]) - Len(passed'[p]) + i]
          /\ passed'[p] # <<>> => passed'[p][1].at > mono' - WindowSize
      BY <2>1, <3>1, <3>2, <3>3
    <3> QED BY <3>4 DEF Follows
  <2>6. ASSUME NEW rs
        PROVE  /\ PassedNow(p, rs)' <= PassedNow(p, rs)
               /\ PassedNow(p, rs) \in Nat /\ PassedNow(p, rs)' \in Nat
    <3> DEFINE P == {i \in DOMAIN passed'[p] :
                       passed'[p][i].at > mono' - WindowSize /\ passed'[p][i].rule \in rs}
               Q == {i \in DOMAIN s : s[i].at > mono - WindowSize /\ s[i].rule \in rs}
    <3>1. PassedNow(p, rs)' = Cardinality(P) /\ PassedNow(p, rs) = Cardinality(Q)
      BY DEF PassedNow, s
    <3>0. passed'[p] = n
      BY DEF n
    <3>2. P \subseteq 1..Len(n) /\ Q \subseteq 1..Len(s) /\ Q \subseteq 1..(Len(n) + e)
      BY <2>3, <2>4, <3>0
    <3>3. ASSUME NEW i \in P PROVE e + i \in Q
      <4>0. i \in DOMAIN n /\ n[i].at > mono' - WindowSize /\ n[i].rule \in rs
        BY <3>0
      <4>1. i \in 1..Len(n) /\ n[i] = s[e + i] /\ e + i \in 1..Len(s)
        <5> HIDE DEF P, Q
        <5>1. i \in 1..Len(n)
          BY <2>4, <4>0
        <5> QED BY <2>3, <2>4, <5>1
      <4>2. s[e + i].at \in Nat
        <5>1. s[e + i] \in Pass
          BY <2>2, <4>1
        <5> QED BY <5>1 DEF Pass
      <4>3. s[e + i].at > mono - WindowSize
        <5>1. \A a, m, k, d \in Nat : k = m + 1 /\ a > k - d => a > m - d
          OBVIOUS
        <5> HIDE DEF P, Q
        <5>2. s[e + i].at > mono' - WindowSize
          BY <4>0, <4>1
        <5> QED BY <1>1, <1>2, <4>2, <5>1, <5>2
      <4>4. s[e + i].rule \in rs
        <5> HIDE DEF P, Q
        <5> QED BY <4>0, <4>1
      <4> QED BY <2>4, <4>1, <4>3, <4>4
    <3> HIDE DEF P, Q
    <3>4. Cardinality(P) <= Cardinality(Q)
      BY <2>4, <3>2, <3>3, MovedPlaces
    <3>5. Cardinality(P) \in Nat /\ Cardinality(Q) \in Nat
      BY <2>4, <3>2, FewPlaces
    <3> QED BY <3>1, <3>4, <3>5
  <2>7. passed'[p] \in Seq(Pass)
    BY <2>1 DEF n
  <2> QED BY <2>5, <2>6, <2>7
<1>4. passed' \in [Windows -> Seq(Pass)]
  BY <1>1, <1>3
<1>5. WindowsRespected'
  <2>1. \A a, b, c \in Nat : a <= b /\ b <= c => a <= c
    OBVIOUS
  <2>2. ASSUME NEW r \in Rules PROVE PassedNow(PrefixOf(r), {r})' <= LimitOf[r]
    <3>1. PassedNow(PrefixOf(r), {r}) <= LimitOf[r]
      BY DEF LimiterInv, WindowsRespected
    <3> QED BY <1>3, <2>1, <3>1, RulesAre
  <2>3. PassedNow("api", Rules)' <= ReadLimit
    <3>1. PassedNow("api", Rules) <= ReadLimit
      BY DEF LimiterInv, WindowsRespected
    <3> QED BY <1>3, <2>1, <3>1, RulesAre
  <2> QED BY <2>2, <2>3 DEF WindowsRespected
<1>6. PromiseKept' /\ promise' \in [rule : Rules \cup {"none"}, at : Nat, due : Nat, others : BOOLEAN]
  BY <1>1 DEF LimiterInv, PromiseKept
<1> QED BY <1>1, <1>2, <1>3, <1>4, <1>5, <1>6 DEF LimiterInv

LEMMA LimiterKeeps == ASSUME LimiterInv, [Next]_consoleVars PROVE LimiterInv'
<1>1. CASE UNCHANGED limiterVars
  BY <1>1 DEF LimiterInv, limiterVars, Follows, PromiseKept, WindowsRespected, PassedNow
<1>2. CASE LimiterTick
  BY <1>2, LimiterTickKeeps
<1>3. CASE \E r \in Rules : Ask(r)
  <2>1. PICK r \in Rules : Ask(r)
    BY <1>3
  <2> QED BY <2>1, RefusalKeeps, PassKeeps
<1> QED BY <1>1, <1>2, <1>3, LimiterStep

(* When the wait is over, the oldest of the window is too old, and the     *)
(* window is shorter than it was at the refusal.                           *)
LEMMA PromiseIsTrue == LimiterInv => RetryAfterIsTrue
<1> SUFFICES ASSUME LimiterInv, promise.rule # "none", ~promise.others, mono >= promise.due
             PROVE  Len(Live(hits[PrefixOf(promise.rule)])) < LimitOf[promise.rule]
  BY DEF RetryAfterIsTrue
<1> DEFINE r == promise.rule
           h == hits[PrefixOf(r)]
           w == Live(h)
<1>1. r \in Rules /\ mono \in Nat /\ promise.due \in Nat /\ h \in Seq(Nat)
  BY RulesAre DEF LimiterInv
<1>2. PrefixOf(r) \in Windows /\ LimitOf[r] \in Nat \ {0} /\ WindowSize \in Nat
  BY <1>1, RulesAre
<1>3. Len(h) <= LimitOf[r] /\ h[1] + WindowSize <= promise.due
  BY DEF LimiterInv, PromiseKept
<1>4. /\ w \in Seq(Nat) /\ Len(w) <= Len(h)
      /\ h # <<>> /\ h[1] <= mono - WindowSize => Len(w) < Len(h)
  BY <1>2, LiveIs
<1> HIDE DEF w, h, r
<1>5. Len(w) \in Nat /\ Len(h) \in Nat
  BY <1>1, <1>4
<1>6. CASE Len(h) = 0
  BY <1>2, <1>4, <1>5, <1>6 DEF w, h, r
<1>7. CASE Len(h) # 0
  <2>1. h # <<>> /\ h[1] \in Nat
    BY <1>1, <1>5, <1>7
  <2>2. h[1] <= mono - WindowSize
    <3> DEFINE first == h[1]
               due == promise.due
    <3>1. first \in Nat /\ first + WindowSize <= due /\ due <= mono /\ due \in Nat
      BY <1>1, <1>3, <2>1
    <3> HIDE DEF first, due
    <3>2. first <= mono - WindowSize
      BY <1>1, <1>2, <3>1
    <3> QED BY <3>2 DEF first
  <2>3. Len(w) < LimitOf[r]
    BY <1>2, <1>3, <1>4, <1>5, <2>1, <2>2
  <2> QED BY <2>3 DEF w, h, r
<1> QED BY <1>6, <1>7

(* The limiter of the Console (security/ratelimit.py): at no moment has a  *)
(* rule let more through in the window that ends there than its limit, nor *)
(* all of /api more than the limit of its reads; and when the Retry-After  *)
(* of a refusal is over, with nothing let through in between, the window   *)
(* has room for the request it refused.                                    *)
THEOREM LimitsAreKept == Spec => []LimitsHold
<1>1. Spec => []LimiterInv
  BY LimiterStart, LimiterKeeps, PTL DEF Spec
<1>2. LimiterInv => LimitsHold
  BY PromiseIsTrue DEF LimitsHold, LimiterInv
<1> QED BY <1>1, <1>2, PTL

-----------------------------------------------------------------------------
(* Sums over the links of an instance, in whatever order they are added.   *)

(* A set with every subset whose parts, short of one element, it has.      *)
LEMMA SubsetInduction ==
  ASSUME NEW S, IsFiniteSet(S), NEW G,
         \A T \in SUBSET S : (\A c \in T : T \ {c} \in G) => T \in G
  PROVE  \A T \in SUBSET S : T \in G
<1> DEFINE U == {n \in Nat : \E T \in SUBSET S : T \notin G /\ Cardinality(T) = n}
<1>1. \A T \in SUBSET S : IsFiniteSet(T) /\ Cardinality(T) \in Nat
  BY FS_Subset, FS_CardinalityType
<1> SUFFICES ASSUME NEW T \in SUBSET S, T \notin G PROVE FALSE
  OBVIOUS
<1>2. U # {} /\ U \subseteq Nat
  BY <1>1
<1>3. PICK m \in U : \A k \in U : m <= k
  <2> HIDE DEF U
  <2> QED
    BY <1>2, LeastNatural
<1>4. PICK D \in SUBSET S : D \notin G /\ Cardinality(D) = m
  OBVIOUS
<1>5. PICK c \in D : D \ {c} \notin G
  BY <1>4
<1>6. D \ {c} \in SUBSET S /\ m \in Nat /\ m # 0 /\ Cardinality(D \ {c}) = m - 1
  <2>1. IsFiniteSet(D) /\ Cardinality(D) \in Nat
    BY <1>1
  <2>2. Cardinality(D \ {c}) = Cardinality(D) - 1
    BY <2>1, FS_RemoveElement
  <2>3. Cardinality(D \ {c}) \in Nat
    BY <1>1
  <2> QED
    BY <1>4, <2>1, <2>2, <2>3
<1>7. m - 1 \in U
  BY <1>5, <1>6
<1> HIDE DEF U
<1> QED
  BY <1>3, <1>6, <1>7

Adds(f, S) ==
  {s \in [SUBSET S -> Nat] :
     /\ s[{}] = 0
     /\ \A T \in SUBSET S, c \in S : c \notin T => s[T \cup {c}] = s[T] + f[c]}

LEMMA AddsExist ==
  ASSUME NEW S, IsFiniteSet(S), NEW f \in [S -> Nat]
  PROVE  \E s : s \in Adds(f, S)
<1> DEFINE G == {T \in SUBSET S : \E s : s \in Adds(f, T)}
<1>1. ASSUME NEW T \in SUBSET S, \A c \in T : T \ {c} \in G
      PROVE  T \in G
  <2>1. CASE T = {}
    <3>1. [D \in SUBSET T |-> 0] \in Adds(f, T)
      BY <2>1 DEF Adds
    <3> QED
      BY <3>1
  <2>2. CASE T # {}
    <3>1. PICK c \in T : TRUE
      BY <2>2
    <3> DEFINE B == T \ {c}
    <3>2. PICK s : s \in Adds(f, B)
      BY <1>1
    <3> DEFINE r == [D \in SUBSET T |-> IF c \in D THEN s[D \ {c}] + f[c] ELSE s[D]]
    <3>3. /\ s \in [SUBSET B -> Nat] /\ s[{}] = 0 /\ f[c] \in Nat
          /\ \A D \in SUBSET B, d \in B : d \notin D => s[D \cup {d}] = s[D] + f[d]
      BY <3>2 DEF Adds
    <3>4. /\ \A D \in SUBSET T : c \notin D => D \in SUBSET B /\ s[D] \in Nat
          /\ \A D \in SUBSET T : D \ {c} \in SUBSET B /\ s[D \ {c}] \in Nat
      BY <3>3
    <3>5. r \in [SUBSET T -> Nat] /\ r[{}] = 0
      BY <3>3, <3>4
    <3>6. ASSUME NEW D \in SUBSET T, NEW d \in T, d \notin D
          PROVE  r[D \cup {d}] = r[D] + f[d]
      <4>1. f[d] \in Nat /\ D \cup {d} \in SUBSET T
        OBVIOUS
      <4>2. CASE d = c
        <5>1. (D \cup {d}) \ {c} = D
          BY <3>6, <4>2
        <5> QED
          BY <3>6, <4>1, <4>2, <5>1
      <4>3. CASE d # c /\ c \notin D
        <5>1. s[D \cup {d}] = s[D] + f[d]
          BY <3>3, <3>6, <4>3
        <5> QED
          BY <4>1, <4>3, <5>1
      <4>4. CASE d # c /\ c \in D
        <5>1. (D \cup {d}) \ {c} = (D \ {c}) \cup {d}
          BY <4>4
        <5>2. s[(D \ {c}) \cup {d}] = s[D \ {c}] + f[d]
          BY <3>3, <3>4, <3>6, <4>4
        <5>3. r[D \cup {d}] = s[(D \ {c}) \cup {d}] + f[c] /\ r[D] = s[D \ {c}] + f[c]
          BY <4>1, <4>4, <5>1
        <5>4. s[D \ {c}] \in Nat
          BY <3>4
        <5> QED
          BY <3>3, <4>1, <5>2, <5>3, <5>4
      <4> QED
        BY <4>2, <4>3, <4>4
    <3>7. r \in Adds(f, T)
      BY <3>5, <3>6 DEF Adds
    <3> QED
      BY <3>7
  <2> QED
    BY <2>1, <2>2
<1>2. S \in G
  <2> HIDE DEF G
  <2> QED
    BY <1>1, SubsetInduction
<1> QED
  BY <1>2

(* The fold of SumOf adds in an order of its own: every order gives this.  *)
LEMMA SumIsAdded ==
  ASSUME NEW S, IsFiniteSet(S), NEW f \in [S -> Nat], NEW s \in Adds(f, S), NEW T \in SUBSET S
  PROVE  SumOf(f, T) = s[T]
<1> DEFINE first(t) == CHOOSE x \in t : TRUE
           Folds(it) == it = [t \in SUBSET T |-> IF t = {} THEN 0 ELSE f[first(t)] + it[t \ {first(t)}]]
<1>1. /\ s \in [SUBSET S -> Nat] /\ s[{}] = 0
      /\ \A D \in SUBSET S, c \in S : c \notin D => s[D \cup {c}] = s[D] + f[c]
  BY DEF Adds
<1>2. \A t : t # {} => first(t) \in t
  OBVIOUS
<1>3. SumOf(f, T) = (CHOOSE it : Folds(it))[T]
  BY DEF SumOf, FoldFunctionOnSet, MapThenFoldSet
<1>4. Folds([t \in SUBSET T |-> s[t]])
  <2> DEFINE w == [t \in SUBSET T |-> s[t]]
  <2>1. ASSUME NEW t \in SUBSET T, t # {}
        PROVE  w[t] = f[first(t)] + w[t \ {first(t)}]
    <3>1. PICK x \in t : x = first(t)
      BY <1>2, <2>1
    <3>2. /\ t \ {x} \in SUBSET T /\ t \ {x} \in SUBSET S /\ x \in S
          /\ (t \ {x}) \cup {x} = t
      OBVIOUS
    <3>3. s[t] = s[t \ {x}] + f[x]
      <4>1. s[(t \ {x}) \cup {x}] = s[t \ {x}] + f[x]
        BY <1>1, <3>2
      <4> QED
        BY <3>2, <4>1
    <3> QED
      BY <1>1, <3>1, <3>2, <3>3
  <2> QED
    BY <1>1, <2>1
<1>5. PICK it : Folds(it) /\ SumOf(f, T) = it[T]
  <2> HIDE DEF Folds
  <2> QED
    BY <1>3, <1>4
<1> DEFINE G == {t \in SUBSET T : it[t] = s[t]}
<1>6. ASSUME NEW t \in SUBSET T, \A c \in t : t \ {c} \in G
      PROVE  t \in G
  <2>1. CASE t = {}
    BY <1>1, <1>5, <2>1
  <2>2. CASE t # {}
    <3>1. PICK x \in t : x = first(t)
      BY <1>2, <2>2
    <3>2. /\ t \ {x} \in SUBSET T /\ t \ {x} \in SUBSET S /\ x \in S
          /\ (t \ {x}) \cup {x} = t
      OBVIOUS
    <3>3. s[(t \ {x}) \cup {x}] = s[t \ {x}] + f[x]
      BY <1>1, <3>2
    <3>4. it[t] = f[x] + it[t \ {x}]
      BY <1>5, <2>2, <3>1
    <3>5. it[t \ {x}] = s[t \ {x}]
      BY <1>6
    <3>6. s[t \ {x}] \in Nat /\ f[x] \in Nat
      BY <1>1, <3>2
    <3>7. s[t] = s[t \ {x}] + f[x]
      BY Zenon, <3>2, <3>3
    <3>8. \A a, b \in Nat : a + b = b + a
      OBVIOUS
    <3>9. f[x] + s[t \ {x}] = s[t \ {x}] + f[x]
      BY Zenon, <3>6, <3>8
    <3>10. it[t] = s[t]
      BY Zenon, <3>4, <3>5, <3>7, <3>9
    <3> QED
      BY <3>10
  <2> QED
    BY <2>1, <2>2
<1>7. IsFiniteSet(T)
  BY FS_Subset
<1>8. T \in G
  <2> HIDE DEF G
  <2> QED
    BY <1>6, <1>7, SubsetInduction
<1> QED
  BY <1>5, <1>8

LEMMA SumFacts ==
  ASSUME NEW S, IsFiniteSet(S), NEW f \in [S -> Nat]
  PROVE  /\ \A T \in SUBSET S : SumOf(f, T) \in Nat /\ SumOf(f, T) <= SumOf(f, S)
         /\ \A T \in SUBSET S : \A c \in T : f[c] <= SumOf(f, T)
<1>1. PICK s : s \in Adds(f, S)
  BY AddsExist
<1>2. \A T \in SUBSET S : SumOf(f, T) = s[T]
  BY <1>1, SumIsAdded
<1>3. /\ s \in [SUBSET S -> Nat] /\ s[{}] = 0
      /\ \A D \in SUBSET S, c \in S : c \notin D => s[D \cup {c}] = s[D] + f[c]
  BY <1>1 DEF Adds
<1>4. ASSUME NEW T \in SUBSET S, NEW c \in T
      PROVE  s[T] = s[T \ {c}] + f[c] /\ s[T \ {c}] \in Nat /\ f[c] \in Nat
  <2>1. T \ {c} \in SUBSET S /\ c \in S /\ (T \ {c}) \cup {c} = T
    OBVIOUS
  <2>2. s[(T \ {c}) \cup {c}] = s[T \ {c}] + f[c]
    BY <1>3, <2>1
  <2> QED
    BY <1>3, <2>1, <2>2
<1> DEFINE G == {D \in SUBSET S : \A T \in SUBSET D : s[T] <= s[D]}
<1>5. ASSUME NEW D \in SUBSET S, \A c \in D : D \ {c} \in G
      PROVE  D \in G
  <2>1. ASSUME NEW T \in SUBSET D PROVE s[T] <= s[D]
    <3>1. CASE T = D
      BY <1>3, <3>1
    <3>2. CASE T # D
      <4>1. PICK c \in D : c \notin T
        BY <3>2
      <4>2. T \in SUBSET (D \ {c})
        BY <4>1
      <4>3. s[T] <= s[D \ {c}]
        BY <1>5, <4>2
      <4>4. s[D] = s[D \ {c}] + f[c] /\ s[D \ {c}] \in Nat /\ f[c] \in Nat
        BY <1>4
      <4>5. s[T] \in Nat
        BY <1>3
      <4> QED
        BY <4>3, <4>4, <4>5
    <3> QED
      BY <3>1, <3>2
  <2> QED
    BY <2>1
<1>6. S \in G
  <2> HIDE DEF G
  <2> QED
    BY <1>5, SubsetInduction
<1>7. \A T \in SUBSET S : s[T] \in Nat /\ s[T] <= s[S]
  BY <1>3, <1>6
<1>8. ASSUME NEW T \in SUBSET S, NEW c \in T
      PROVE  f[c] <= s[T]
  <2>1. s[T] = s[T \ {c}] + f[c] /\ s[T \ {c}] \in Nat /\ f[c] \in Nat
    BY <1>4
  <2> QED
    BY <2>1
<1> QED
  BY <1>2, <1>7, <1>8

LEMMA SumGrows ==
  ASSUME NEW S, IsFiniteSet(S), NEW f \in [S -> Nat], NEW g \in [S -> Nat],
         NEW T \in SUBSET S, \A c \in T : f[c] <= g[c]
  PROVE  SumOf(f, T) <= SumOf(g, T)
<1>1. PICK s : s \in Adds(f, S)
  BY AddsExist
<1>2. PICK r : r \in Adds(g, S)
  BY AddsExist
<1>3. SumOf(f, T) = s[T] /\ SumOf(g, T) = r[T] /\ IsFiniteSet(T)
  BY <1>1, <1>2, SumIsAdded, FS_Subset
<1>4. /\ s \in [SUBSET S -> Nat] /\ s[{}] = 0
      /\ \A D \in SUBSET S, c \in S : c \notin D => s[D \cup {c}] = s[D] + f[c]
      /\ r \in [SUBSET S -> Nat] /\ r[{}] = 0
      /\ \A D \in SUBSET S, c \in S : c \notin D => r[D \cup {c}] = r[D] + g[c]
  BY <1>1, <1>2 DEF Adds
<1> DEFINE G == {D \in SUBSET T : s[D] <= r[D]}
<1>5. ASSUME NEW D \in SUBSET T, \A c \in D : D \ {c} \in G
      PROVE  D \in G
  <2>1. CASE D = {}
    BY <1>4, <2>1
  <2>2. CASE D # {}
    <3>1. PICK c \in D : TRUE
      BY <2>2
    <3>2. D \ {c} \in SUBSET S /\ c \in S /\ (D \ {c}) \cup {c} = D /\ c \notin D \ {c}
      OBVIOUS
    <3>3. s[(D \ {c}) \cup {c}] = s[D \ {c}] + f[c] /\ r[(D \ {c}) \cup {c}] = r[D \ {c}] + g[c]
      BY <1>4, <3>2
    <3>4. s[D] = s[D \ {c}] + f[c] /\ r[D] = r[D \ {c}] + g[c]
      BY <3>2, <3>3
    <3>5. s[D \ {c}] <= r[D \ {c}]
      BY <1>5
    <3>6. s[D \ {c}] \in Nat /\ r[D \ {c}] \in Nat /\ f[c] \in Nat /\ g[c] \in Nat /\ f[c] <= g[c]
      BY <1>4, <3>1, <3>2
    <3> QED
      BY <3>4, <3>5, <3>6
  <2> QED
    BY <2>1, <2>2
<1> HIDE DEF G
<1>6. T \in G
  BY <1>3, <1>5, SubsetInduction
<1> QED
  BY <1>3, <1>6 DEF G

-----------------------------------------------------------------------------
(* The subscription of an instance, while its request asks the Core and the*)
(* database in turn.                                                       *)
FeedPolicy == [cap : Nat, until : Nat, active : BOOLEAN]
FeedRecord ==
  [at : {"idle", "share", "quota", "aggregate", "links", "200", "422", "502"},
   listed : SUBSET Configs, quota : [cap : Int, until : Int, used : Nat],
   strips : [Configs -> {"none", "disabled", "expired", "limited", "active"}],
   edited : BOOLEAN, faulty : BOOLEAN]

FeedTyped ==
  /\ policy \in [Configs -> FeedPolicy]
  /\ usage \in [Configs -> Nat]
  /\ envelope \in [cap : Nat, until : Nat]
  /\ cachedUse \in Nat /\ cachedUse <= SumOf(usage, Configs)
  /\ reached \in BOOLEAN /\ today \in Nat
  /\ feed \in FeedRecord

(* What was listed was allowed; what was not is over, and stays so.        *)
Over(c) == Due(policy[c].until) \/ Full(policy[c].cap, usage[c])

FeedListed ==
  feed.at \in {"quota", "aggregate", "links", "200"} /\ ~feed.edited =>
    \A c \in Configs : /\ c \in feed.listed => policy[c].active
                       /\ c \notin feed.listed /\ policy[c].active => Over(c)

CapSum == SumOf([c \in Configs |-> policy[c].cap], Counted)
Exhausted == feed.listed = {} /\ Counted # {}

(* Without an envelope: when nothing could be listed, a link is due or the *)
(* use that was read is as much as all the caps.                           *)
FeedAsked ==
  feed.at = "aggregate" /\ ~feed.edited /\ ~feed.faulty =>
    /\ ~HasEnvelope(envelope)
    /\ Exhausted => \/ \E c \in Counted : Due(policy[c].until)
                    \/ /\ CapSum <= feed.quota.used
                       /\ \E c \in Counted : policy[c].cap > 0

FeedTold ==
  feed.at \in {"links", "200"} /\ ~feed.edited /\ ~feed.faulty =>
    /\ feed.quota.cap >= 0
    /\ HasEnvelope(envelope) =>
         feed.quota.cap = envelope.cap /\ feed.quota.until = envelope.until
    /\ ~HasEnvelope(envelope) =>
         /\ feed.quota.cap = 0 /\ feed.quota.until = 0 =>
              \A c \in Counted : policy[c].cap = 0 /\ policy[c].until = 0
         /\ Exhausted => Due(feed.quota.until) \/ Full(feed.quota.cap, feed.quota.used)

FeedInv == FeedTyped /\ FeedListed /\ FeedAsked /\ FeedTold /\ StripsAgree

LEMMA NotAskedIs == NotAsked \in FeedRecord
<1>1. [c \in Configs |-> "none"] \in [Configs -> {"none", "disabled", "expired", "limited", "active"}]
  OBVIOUS
<1> QED
  BY <1>1 DEF NotAsked, Unread, FeedRecord

LEMMA FeedStart == ConsoleInit => FeedInv
<1> SUFFICES ASSUME SubscriptionInit PROVE FeedInv
  BY DEF ConsoleInit
<1>1. usage = [c \in Configs |-> 0] /\ usage \in [Configs -> Nat]
  BY DEF SubscriptionInit
<1>2. SumOf(usage, Configs) \in Nat
  BY <1>1, SubscriptionAssumption, SumFacts
<1>3. feed.at = "idle" /\ feed = NotAsked
  BY DEF SubscriptionInit, NotAsked
<1>4. policy \in [Configs -> FeedPolicy] /\ envelope \in [cap : Nat, until : Nat]
  <2>1. Caps \subseteq Nat /\ {0, FeedEnd} \subseteq Nat
    BY SubscriptionAssumption
  <2>2. Policies \subseteq FeedPolicy
    BY <2>1 DEF Policies, FeedPolicy
  <2>3. [cap : Caps, until : {0, FeedEnd}] \subseteq [cap : Nat, until : Nat]
    BY <2>1
  <2> QED
    BY <2>2, <2>3 DEF SubscriptionInit
<1>5. FeedTyped
  BY <1>1, <1>2, <1>3, <1>4, NotAskedIs DEF SubscriptionInit, FeedTyped
<1> QED
  BY <1>3, <1>5 DEF FeedInv, FeedListed, FeedAsked, FeedTold, StripsAgree, Calm

LEMMA UseAdds ==
  ASSUME FeedTyped
  PROVE  SumOf(usage, Configs) \in Nat
  BY SubscriptionAssumption, SumFacts DEF FeedTyped

LEMMA OverStays ==
  ASSUME FeedTyped, policy' = policy, today' \in Nat, today' >= today,
         usage' \in [Configs -> Nat], \A c \in Configs : usage'[c] >= usage[c]
  PROVE  /\ \A c \in Configs : Over(c) => Over(c)'
         /\ \A until \in Nat : Due(until) => Due(until)'
         /\ SumOf(usage, Configs) <= SumOf(usage', Configs) /\ SumOf(usage', Configs) \in Nat
         /\ Counted' = Counted
<1>1. \A until \in Nat : Due(until) => Due(until)'
  BY DEF Due, FeedTyped
<1>2. \A c \in Configs : Over(c) => Over(c)'
  BY <1>1 DEF FeedTyped, FeedPolicy, Over, Full
<1>3. SumOf(usage, Configs) <= SumOf(usage', Configs) /\ SumOf(usage', Configs) \in Nat
  <2>1. \A c \in Configs : usage[c] <= usage'[c]
    BY DEF FeedTyped
  <2>2. usage \in [Configs -> Nat]
    BY DEF FeedTyped
  <2> QED
    BY <2>1, <2>2, SubscriptionAssumption, SumFacts, SumGrows
<1>4. Counted' = Counted
  BY DEF Counted
<1> QED
  BY <1>1, <1>2, <1>3, <1>4

(* Traffic flows, time passes, the Core falls silent.                      *)
LEMMA FeedMoves ==
  ASSUME FeedInv, policy' = policy, envelope' = envelope, cachedUse' = cachedUse, feed' = feed,
         today' \in Nat, today' >= today, reached' \in BOOLEAN,
         usage' \in [Configs -> Nat], \A c \in Configs : usage'[c] >= usage[c]
  PROVE  FeedInv'
<1>1. /\ \A c \in Configs : Over(c) => Over(c)'
      /\ \A until \in Nat : Due(until) => Due(until)'
      /\ SumOf(usage, Configs) <= SumOf(usage', Configs) /\ SumOf(usage', Configs) \in Nat
      /\ Counted' = Counted
  BY OverStays DEF FeedInv
<1>2. FeedTyped'
  <2>1. SumOf(usage, Configs) \in Nat
    BY UseAdds DEF FeedInv
  <2>2. cachedUse <= SumOf(usage', Configs)
    BY <1>1, <2>1 DEF FeedInv, FeedTyped
  <2> QED
    BY <2>2 DEF FeedInv, FeedTyped
<1>3. FeedListed'
  BY <1>1 DEF FeedInv, FeedListed
<1>4. CapSum' = CapSum /\ (Exhausted <=> Exhausted')
  BY <1>1 DEF CapSum, Exhausted
<1>5. \A c \in Counted : policy[c].until \in Nat
  BY DEF Counted, FeedInv, FeedTyped, FeedPolicy
<1>6. FeedAsked'
  BY <1>1, <1>4, <1>5 DEF FeedInv, FeedAsked, HasEnvelope
<1>7. FeedTold'
  <2>1. Due(feed.quota.until) => Due(feed.quota.until)'
    BY DEF Due, FeedInv, FeedTyped, FeedRecord
  <2> QED
    BY <1>1, <1>4, <2>1 DEF FeedInv, FeedTold, HasEnvelope, Full
<1>8. StripsAgree'
  BY DEF FeedInv, StripsAgree, Calm
<1> QED
  BY <1>2, <1>3, <1>6, <1>7, <1>8 DEF FeedInv

LEMMA FeedEdited ==
  ASSUME FeedInv, usage' = usage, cachedUse' = cachedUse, reached' = reached, today' = today,
         policy' \in [Configs -> FeedPolicy],
         envelope' \in [cap : Nat, until : Nat],
         feed' = [feed EXCEPT !.edited = TRUE]
  PROVE  FeedInv'
<1>1. FeedTyped'
  BY DEF FeedInv, FeedTyped, FeedRecord
<1>2. feed'.edited = TRUE
  BY DEF FeedInv, FeedTyped, FeedRecord
<1> QED
  BY <1>1, <1>2 DEF FeedInv, FeedListed, FeedAsked, FeedTold, StripsAgree, Calm

LEMMA FeedShared ==
  ASSUME FeedInv, Subscribe \/ Share
  PROVE  FeedInv'
<1>0. UNCHANGED <<policy, usage, envelope, cachedUse, reached, today>>
  BY DEF Subscribe, Share
<1>1. CASE Subscribe
  <2>1. feed' = [NotAsked EXCEPT !.at = "share"]
    BY <1>1 DEF Subscribe
  <2>2. FeedTyped' /\ feed'.at = "share"
    BY <1>0, <2>1, NotAskedIs DEF FeedInv, FeedTyped, FeedRecord
  <2> QED
    BY <2>2 DEF FeedInv, FeedListed, FeedAsked, FeedTold, StripsAgree, Calm
<1>2. CASE Share /\ ~reached
  <2>1. feed' = [feed EXCEPT !.at = "502"]
    BY <1>2 DEF Share
  <2>2. FeedTyped' /\ feed'.at = "502"
    BY <1>0, <2>1 DEF FeedInv, FeedTyped, FeedRecord
  <2> QED
    BY <2>2 DEF FeedInv, FeedListed, FeedAsked, FeedTold, StripsAgree, Calm
<1>3. CASE Share /\ reached
  <2>1. feed' = [feed EXCEPT !.at = "quota", !.listed = {c \in Configs : Allowed(c)}]
    BY <1>3 DEF Share
  <2>2. {c \in Configs : Allowed(c)} \in SUBSET Configs
    OBVIOUS
  <2>3. FeedTyped' /\ feed'.at = "quota" /\ feed'.listed = {c \in Configs : Allowed(c)}
    BY <1>0, <2>1, <2>2 DEF FeedInv, FeedTyped, FeedRecord
  <2>4. FeedListed'
    BY <1>0, <2>3 DEF FeedListed, Allowed, Over, Due, Full
  <2> QED
    BY <2>3, <2>4 DEF FeedInv, FeedAsked, FeedTold, StripsAgree, Calm
<1> QED
  BY <1>1, <1>2, <1>3 DEF Share

(* The use that is read is that of all links, from now on at least.        *)
LEMMA FeedRead ==
  ASSUME FeedInv, NEW ok \in BOOLEAN, ReadQuota(ok)
  PROVE  FeedInv'
<1>0. UNCHANGED <<policy, usage, envelope, reached, today>> /\ feed.at = "quota"
  BY DEF ReadQuota
<1>1. CASE ~ok
  <2>1. feed' = [feed EXCEPT !.at = "links", !.faulty = TRUE] /\ cachedUse' = cachedUse
    BY <1>1 DEF ReadQuota
  <2>2. /\ FeedTyped' /\ feed'.at = "links" /\ feed'.faulty = TRUE
        /\ feed'.listed = feed.listed /\ feed'.edited = feed.edited
    BY <1>0, <2>1 DEF FeedInv, FeedTyped, FeedRecord
  <2>3. FeedListed'
    BY <1>0, <2>2 DEF FeedInv, FeedListed, Over, Due, Full
  <2> QED
    BY <2>2, <2>3 DEF FeedInv, FeedAsked, FeedTold, StripsAgree, Calm
<1>2. CASE ok
  <2> DEFINE use == IF reached THEN SumOf(usage, Configs) ELSE cachedUse
             stage2 == IF HasEnvelope(envelope) THEN "links" ELSE "aggregate"
             read == [cap |-> envelope.cap, until |-> envelope.until, used |-> use]
  <2>1. /\ feed' = [feed EXCEPT !.quota = read, !.faulty = ~reached, !.at = stage2]
        /\ cachedUse' = use
    BY <1>2 DEF ReadQuota, Measured, HasEnvelope
  <2>2. use \in Nat /\ use <= SumOf(usage, Configs)
    BY UseAdds DEF FeedInv, FeedTyped
  <2>3. stage2 \in {"links", "aggregate"} /\ envelope.cap \in Nat /\ envelope.until \in Nat
        /\ read \in [cap : Int, until : Int, used : Nat]
    BY <2>2 DEF FeedInv, FeedTyped
  <2>4. reached => use = SumOf(usage, Configs)
    OBVIOUS
  <2>5. read.cap = envelope.cap /\ read.until = envelope.until /\ read.used = use
    OBVIOUS
  <2>6. stage2 = "links" <=> HasEnvelope(envelope)
    OBVIOUS
  <2> HIDE DEF use, read, stage2
  <2>7. /\ FeedTyped' /\ feed'.at = stage2 /\ feed'.faulty = ~reached /\ feed'.quota = read
        /\ feed'.listed = feed.listed /\ feed'.edited = feed.edited
    BY <1>0, <2>1, <2>2, <2>3 DEF FeedInv, FeedTyped, FeedRecord
  <2>8. FeedListed'
    BY <1>0, <2>3, <2>7 DEF FeedInv, FeedListed, Over, Due, Full
  <2>9. FeedTold'
    BY <1>0, <2>3, <2>5, <2>6, <2>7 DEF FeedTold, HasEnvelope
  <2>10. FeedAsked'
    <3> SUFFICES ASSUME stage2 = "aggregate", ~feed.edited, reached
                 PROVE  /\ ~HasEnvelope(envelope)
                        /\ Exhausted => \/ \E c \in Counted : Due(policy[c].until)
                                        \/ /\ CapSum <= use
                                           /\ \E c \in Counted : policy[c].cap > 0
      BY <1>0, <2>5, <2>7 DEF FeedAsked, Exhausted, CapSum, Counted, HasEnvelope, Due
    <3> SUFFICES ASSUME Exhausted, \A c \in Counted : ~Due(policy[c].until)
                 PROVE  CapSum <= use /\ \E c \in Counted : policy[c].cap > 0
      BY <2>6
    <3>1. \A c \in Counted : Full(policy[c].cap, usage[c])
      BY <1>0 DEF FeedInv, FeedListed, Exhausted, Counted, Over
    <3> DEFINE caps == [c \in Configs |-> policy[c].cap]
    <3>2. caps \in [Configs -> Nat] /\ usage \in [Configs -> Nat]
      BY DEF FeedInv, FeedTyped, FeedPolicy
    <3>3. Counted \in SUBSET Configs /\ IsFiniteSet(Configs)
      BY SubscriptionAssumption DEF Counted
    <3>4. CapSum <= SumOf(usage, Counted)
      <4>1. \A c \in Counted : caps[c] <= usage[c]
        BY <3>1, <3>2, <3>3 DEF Full
      <4>2. CapSum = SumOf(caps, Counted)
        BY Zenon DEF CapSum
      <4> HIDE DEF caps
      <4>3. SumOf(caps, Counted) <= SumOf(usage, Counted)
        BY <3>2, <3>3, <4>1, SumGrows
      <4> QED
        BY <4>2, <4>3
    <3>5. SumOf(usage, Counted) <= SumOf(usage, Configs) /\ SumOf(usage, Counted) \in Nat
          /\ SumOf(usage, Configs) \in Nat /\ SumOf(caps, Counted) \in Nat
      <4> HIDE DEF caps
      <4> QED
        BY <3>2, <3>3, SumFacts
    <3>6. CapSum \in Nat
      BY <3>5 DEF CapSum
    <3>7. \E c \in Counted : policy[c].cap > 0
      BY <3>1 DEF Exhausted, Full
    <3> QED
      BY <2>4, <3>4, <3>5, <3>6, <3>7
  <2> QED
    BY <2>3, <2>7, <2>8, <2>9, <2>10 DEF FeedInv, StripsAgree, Calm
<1> QED
  BY <1>1, <1>2

(* The earliest expiry of the links that count, 0 when none has one.       *)
LEMMA FirstIs ==
  ASSUME NEW dates \in SUBSET (Nat \ {0}), NEW first,
         first = (IF dates = {} THEN 0 ELSE CHOOSE d \in dates : \A e \in dates : d <= e)
  PROVE  /\ first \in Nat /\ (first = 0 <=> dates = {})
         /\ \A d \in dates : first > 0 /\ first <= d
<1>1. CASE dates = {}
  BY <1>1
<1>2. CASE dates # {}
  <2>1. \E d \in dates : \A e \in dates : d <= e
    BY <1>2, LeastNatural
  <2>2. first \in dates /\ \A e \in dates : first <= e
    BY <1>2, <2>1
  <2>3. \A k \in Nat \ {0} : k > 0
    OBVIOUS
  <2>4. first \in Nat \ {0} /\ first > 0
    BY Zenon, <2>2, <2>3
  <2> QED
    BY <1>2, <2>2, <2>4
<1> QED
  BY <1>1, <1>2

LEMMA FeedAggregated ==
  ASSUME FeedInv, NEW ok \in BOOLEAN, Aggregate(ok)
  PROVE  FeedInv'
<1>0. UNCHANGED <<policy, usage, envelope, cachedUse, reached, today>> /\ feed.at = "aggregate"
  BY DEF Aggregate
<1>1. CASE ~ok
  <2>1. feed' = [feed EXCEPT !.at = "links", !.faulty = TRUE]
    BY <1>1 DEF Aggregate
  <2>2. /\ FeedTyped' /\ feed'.at = "links" /\ feed'.faulty = TRUE
        /\ feed'.listed = feed.listed /\ feed'.edited = feed.edited
    BY <1>0, <2>1 DEF FeedInv, FeedTyped, FeedRecord
  <2>3. FeedListed'
    BY <1>0, <2>2 DEF FeedInv, FeedListed, Over, Due, Full
  <2> QED
    BY <2>2, <2>3 DEF FeedInv, FeedAsked, FeedTold, StripsAgree, Calm
<1>2. CASE ok
  <2> DEFINE dates == {policy[c].until : c \in Counted} \ {0}
  <2>1. PICK first : first = (IF dates = {} THEN 0 ELSE CHOOSE d \in dates : \A e \in dates : d <= e)
    OBVIOUS
  <2>2. PICK told : told = [cap |-> CapSum, until |-> first, used |-> feed.quota.used]
    OBVIOUS
  <2>3. feed' = [feed EXCEPT !.at = "links", !.quota = told]
    <3>1. feed' = [feed EXCEPT !.at = "links",
                     !.quota = [cap |-> CapSum, until |-> first, used |-> feed.quota.used]]
      BY <1>2, <2>1 DEF Aggregate, CapSum
    <3> QED
      BY <2>2, <3>1
  <2>4. \A c \in Counted : c \in Configs /\ policy[c] \in FeedPolicy
    BY DEF Counted, FeedInv, FeedTyped
  <2>5. \A c \in Counted : policy[c].cap \in Nat /\ policy[c].until \in Nat
    BY <2>4 DEF FeedPolicy
  <2>6. dates \in SUBSET (Nat \ {0})
    BY <2>5
  <2>7. \A c \in Counted : policy[c].until # 0 => policy[c].until \in dates
    OBVIOUS
  <2> HIDE DEF dates
  <2>8. /\ first \in Nat /\ (first = 0 <=> dates = {})
        /\ \A d \in dates : first > 0 /\ first <= d
    BY SMTT(30), <2>1, <2>6, FirstIs
  <2>9. CapSum \in Nat /\ \A c \in Counted : policy[c].cap <= CapSum
    <3> DEFINE caps == [c \in Configs |-> policy[c].cap]
    <3>1. caps \in [Configs -> Nat]
      BY DEF FeedInv, FeedTyped, FeedPolicy
    <3>2. Counted \in SUBSET Configs /\ IsFiniteSet(Configs)
      BY SubscriptionAssumption DEF Counted
    <3>3. CapSum = SumOf(caps, Counted) /\ \A c \in Counted : caps[c] = policy[c].cap
      BY <3>2 DEF CapSum
    <3> HIDE DEF caps
    <3>4. SumOf(caps, Counted) \in Nat /\ \A c \in Counted : caps[c] <= SumOf(caps, Counted)
      BY <3>1, <3>2, SumFacts
    <3> QED
      BY <3>3, <3>4
  <2>10. told \in [cap : Int, until : Int, used : Nat]
         /\ told.cap = CapSum /\ told.until = first /\ told.used = feed.quota.used
    BY <2>2, <2>8, <2>9 DEF FeedInv, FeedTyped, FeedRecord
  <2>11. /\ FeedTyped' /\ feed'.at = "links" /\ feed'.quota = told
         /\ feed'.listed = feed.listed /\ feed'.edited = feed.edited /\ feed'.faulty = feed.faulty
    BY <1>0, <2>3, <2>10 DEF FeedInv, FeedTyped, FeedRecord
  <2>12. FeedListed'
    BY <1>0, <2>11 DEF FeedInv, FeedListed, Over, Due, Full
  <2>13. FeedTold'
    <3> SUFFICES ASSUME ~feed.edited, ~feed.faulty
                 PROVE  /\ CapSum = 0 /\ first = 0 =>
                             \A c \in Counted : policy[c].cap = 0 /\ policy[c].until = 0
                        /\ Exhausted => Due(first) \/ Full(CapSum, feed.quota.used)
      <4>1. ~feed.edited /\ ~feed.faulty => ~HasEnvelope(envelope)
        BY <1>0 DEF FeedInv, FeedAsked
      <4>2. CapSum >= 0
        BY <2>9
      <4> QED
        BY <1>0, <2>10, <2>11, <4>1, <4>2 DEF FeedTold, HasEnvelope, Exhausted, Counted, Due, Full
    <3>1. CapSum = 0 /\ first = 0 => \A c \in Counted : policy[c].cap = 0 /\ policy[c].until = 0
      BY <2>5, <2>7, <2>8, <2>9
    <3>2. ASSUME Exhausted PROVE Due(first) \/ Full(CapSum, feed.quota.used)
      <4>1. CASE \E c \in Counted : Due(policy[c].until)
        <5>1. PICK c \in Counted : Due(policy[c].until)
          BY <4>1
        <5>2. policy[c].until \in dates /\ policy[c].until \in Nat
          BY <2>5, <2>7, <5>1 DEF Due
        <5>3. first > 0 /\ first <= policy[c].until
          BY <2>8, <5>2
        <5>4. today \in Nat
          BY DEF FeedInv, FeedTyped
        <5> QED
          BY <2>8, <5>1, <5>2, <5>3, <5>4 DEF Due
      <4>2. CASE CapSum <= feed.quota.used /\ \E c \in Counted : policy[c].cap > 0
        <5>1. feed.quota.used \in Nat
          BY DEF FeedInv, FeedTyped, FeedRecord
        <5>2. PICK c \in Counted : policy[c].cap > 0
          BY <4>2
        <5>3. policy[c].cap \in Nat /\ policy[c].cap <= CapSum
          BY <2>5, <2>9
        <5> QED
          BY <2>9, <4>2, <5>1, <5>2, <5>3 DEF Full
      <4> QED
        BY <1>0, <3>2, <4>1, <4>2 DEF FeedInv, FeedAsked
    <3> QED
      BY <3>1, <3>2
  <2> QED
    BY <2>11, <2>12, <2>13 DEF FeedInv, FeedAsked, StripsAgree, Calm
<1> QED
  BY <1>1, <1>2

(* What the page shows as active is not over, so it was listed.            *)
LEMMA FeedAnswered ==
  ASSUME FeedInv, NEW fmt, NEW ok \in BOOLEAN, Answer(fmt, ok)
  PROVE  FeedInv'
<1>0. UNCHANGED <<policy, usage, envelope, cachedUse, reached, today>> /\ feed.at = "links"
  BY DEF Answer
<1> DEFINE strips == IF ok /\ reached THEN [c \in Configs |-> StripOf(c)] ELSE feed.strips
           told == IF Refused(fmt) THEN "422" ELSE "200"
           fault == feed.faulty \/ ~ok \/ ~reached
<1>1. feed' = [feed EXCEPT !.at = told, !.strips = strips, !.faulty = fault]
  BY DEF Answer
<1>2. told \in {"422", "200"} /\ fault \in BOOLEAN
  BY DEF FeedInv, FeedTyped, FeedRecord
<1>3. strips \in [Configs -> {"none", "disabled", "expired", "limited", "active"}]
  <2>1. \A c \in Configs : StripOf(c) \in {"none", "disabled", "expired", "limited", "active"}
    BY DEF StripOf
  <2> QED
    BY <2>1 DEF FeedInv, FeedTyped, FeedRecord
<1>4. ~fault => ~feed.faulty /\ strips = [c \in Configs |-> StripOf(c)]
  BY DEF FeedInv, FeedTyped, FeedRecord
<1> HIDE DEF strips, told, fault
<1>5. /\ FeedTyped' /\ feed'.at = told /\ feed'.strips = strips /\ feed'.faulty = fault
      /\ feed'.listed = feed.listed /\ feed'.edited = feed.edited /\ feed'.quota = feed.quota
  BY <1>0, <1>1, <1>2, <1>3 DEF FeedInv, FeedTyped, FeedRecord
<1>6. FeedListed'
  BY <1>0, <1>5 DEF FeedInv, FeedListed, Over, Due, Full
<1>7. FeedTold'
  BY <1>0, <1>4, <1>5 DEF FeedInv, FeedTold, HasEnvelope, Exhausted, Counted, Due, Full
<1>8. StripsAgree'
  <2> SUFFICES ASSUME ~feed.edited, ~fault, NEW c \in Configs
               PROVE  /\ StripOf(c) = "active" => c \in feed.listed
                      /\ StripOf(c) = "disabled" => c \notin feed.listed
    BY <1>4, <1>5 DEF StripsAgree, Calm
  <2>1. /\ c \in feed.listed => policy[c].active
        /\ c \notin feed.listed /\ policy[c].active => Over(c)
    BY <1>0 DEF FeedInv, FeedListed
  <2> QED
    BY <2>1 DEF StripOf, Over
<1> QED
  BY <1>2, <1>5, <1>6, <1>7, <1>8 DEF FeedInv, FeedAsked

LEMMA FeedStep ==
  [Next]_consoleVars =>
    \/ \E c \in Configs : FeedRelay(c)
    \/ FeedTick \/ CoreSilent
    \/ \E cap \in Caps : EditEnvelope(cap)
    \/ \E c \in Configs, p \in PoliciesSet : EditConfig(c, p)
    \/ Subscribe \/ Share
    \/ \E ok \in BOOLEAN : ReadQuota(ok) \/ Aggregate(ok)
    \/ \E fmt \in Formats, ok \in BOOLEAN : Answer(fmt, ok)
    \/ UNCHANGED feedVars
<1>1. UNCHANGED consoleVars => UNCHANGED feedVars
  BY DEF consoleVars
<1>2. ASSUME NEW part, part # "feed", In(part) PROVE UNCHANGED feedVars
  BY <1>2 DEF In
<1> QED BY <1>1, <1>2, Zenon DEF Next

LEMMA FeedKeeps ==
  ASSUME FeedInv, [Next]_consoleVars
  PROVE  FeedInv'
<1>0. /\ usage \in [Configs -> Nat] /\ today \in Nat /\ reached \in BOOLEAN
      /\ policy \in [Configs -> FeedPolicy] /\ envelope \in [cap : Nat, until : Nat]
  BY DEF FeedInv, FeedTyped
<1>1. ASSUME NEW c \in Configs, FeedRelay(c) PROVE FeedInv'
  <2>1. usage' \in [Configs -> Nat] /\ \A d \in Configs : usage'[d] >= usage[d]
    BY <1>0, <1>1 DEF FeedRelay
  <2> QED
    BY <1>0, <1>1, <2>1, FeedMoves DEF FeedRelay
<1>2. CASE FeedTick \/ CoreSilent \/ UNCHANGED feedVars
  <2>0. /\ today' = today \/ today' = today + 1
        /\ reached' = reached \/ reached' = FALSE
        /\ usage' = usage /\ policy' = policy /\ envelope' = envelope
        /\ cachedUse' = cachedUse /\ feed' = feed
    <3>1. CASE FeedTick
      BY <3>1 DEF FeedTick
    <3>2. CASE CoreSilent
      BY <3>2 DEF CoreSilent
    <3>3. CASE UNCHANGED feedVars
      BY <3>3 DEF feedVars
    <3> QED
      BY <1>2, <3>1, <3>2, <3>3
  <2>1. /\ today' \in Nat /\ today' >= today /\ reached' \in BOOLEAN /\ usage' = usage
        /\ policy' = policy /\ envelope' = envelope /\ cachedUse' = cachedUse /\ feed' = feed
    <3>1. \A n \in Nat : \A m : m = n \/ m = n + 1 => m \in Nat /\ m >= n
      OBVIOUS
    <3>2. today' \in Nat /\ today' >= today
      BY Zenon, <1>0, <2>0, <3>1
    <3>3. reached' \in BOOLEAN
      BY <1>0, <2>0
    <3> QED
      BY <2>0, <3>2, <3>3
  <2>2. usage' \in [Configs -> Nat] /\ \A d \in Configs : usage'[d] >= usage[d]
    BY <1>0, <2>1
  <2> QED
    BY <2>1, <2>2, FeedMoves
<1>3. ASSUME NEW cap \in Caps, EditEnvelope(cap) PROVE FeedInv'
  <2>1. envelope' \in [cap : Nat, until : Nat] /\ policy' \in [Configs -> FeedPolicy]
    BY <1>0, <1>3, SubscriptionAssumption DEF EditEnvelope
  <2> QED
    BY <1>3, <2>1, FeedEdited DEF EditEnvelope
<1>4. ASSUME NEW c \in Configs, NEW p \in PoliciesSet, EditConfig(c, p) PROVE FeedInv'
  <2>1. p \in FeedPolicy
    <3>1. \A cap \in Nat, active \in BOOLEAN :
            [cap |-> cap, until |-> 0, active |-> active] \in FeedPolicy
      BY DEF FeedPolicy
    <3>2. [cap |-> 0, until |-> 0, active |-> FALSE] \in FeedPolicy
          /\ [cap |-> 1, until |-> 0, active |-> TRUE] \in FeedPolicy
      BY <3>1
    <3> QED
      BY Zenon, <3>2 DEF PoliciesSet
  <2>2. envelope' \in [cap : Nat, until : Nat] /\ policy' \in [Configs -> FeedPolicy]
    BY <1>0, <1>4, <2>1 DEF EditConfig
  <2> QED
    BY <1>4, <2>2, FeedEdited DEF EditConfig
<1>5. CASE Subscribe \/ Share
  BY <1>5, FeedShared
<1>6. ASSUME NEW ok \in BOOLEAN, ReadQuota(ok) \/ Aggregate(ok) PROVE FeedInv'
  BY <1>6, FeedRead, FeedAggregated
<1>7. ASSUME NEW fmt \in Formats, NEW ok \in BOOLEAN, Answer(fmt, ok) PROVE FeedInv'
  BY <1>7, FeedAnswered
<1> QED
  BY <1>1, <1>2, <1>3, <1>4, <1>5, <1>6, <1>7, FeedStep

LEMMA FeedIsHonest == FeedInv => SubscriptionHolds
<1> SUFFICES ASSUME FeedInv PROVE SubscriptionTypeOK /\ NothingTooGood
  BY DEF FeedInv, SubscriptionHolds
<1>1. SubscriptionTypeOK
  BY DEF SubscriptionTypeOK, FeedInv, FeedTyped, FeedRecord
<1>2. ASSUME Calm PROVE
      /\ HasEnvelope(envelope) => Header.total = envelope.cap /\ Header.expire = envelope.until
      /\ Header.total = 0 /\ Header.expire = 0 =>
           \A c \in Configs : policy[c].active => policy[c].cap = 0 /\ policy[c].until = 0
      /\ ~HasEnvelope(envelope) /\ feed.listed = {} /\ (\E c \in Configs : policy[c].active)
           => StatusLine # "Active"
  <2>1. /\ feed.quota.cap >= 0
        /\ HasEnvelope(envelope) =>
             feed.quota.cap = envelope.cap /\ feed.quota.until = envelope.until
        /\ ~HasEnvelope(envelope) =>
             /\ feed.quota.cap = 0 /\ feed.quota.until = 0 =>
                  \A c \in Counted : policy[c].cap = 0 /\ policy[c].until = 0
             /\ Exhausted => Due(feed.quota.until) \/ Full(feed.quota.cap, feed.quota.used)
    BY <1>2 DEF Calm, FeedInv, FeedTold
  <2>2. feed.quota # Unread
    <3>1. Unread.cap = -1 /\ ~(-1 >= 0)
      BY DEF Unread
    <3> QED
      BY <2>1, <3>1
  <2>3. Header.total = feed.quota.cap /\ Header.expire = feed.quota.until
    BY <2>2 DEF Header
  <2>4. envelope.cap \in Nat /\ envelope.until \in Nat
    BY DEF FeedInv, FeedTyped
  <2>5. HasEnvelope(envelope) => envelope.cap # 0 \/ envelope.until # 0
    BY <2>4 DEF HasEnvelope
  <2>6. Due(feed.quota.until) \/ Full(feed.quota.cap, feed.quota.used) => StatusLine # "Active"
    BY <2>2 DEF StatusLine
  <2> QED
    BY <2>1, <2>3, <2>5, <2>6 DEF Exhausted, Counted
<1> QED
  BY <1>1, <1>2 DEF NothingTooGood

(* The public subscription (routers/public.py): a request that was let be  *)
(* by edits and by failures is told the cap and the expiry of the envelope,*)
(* is told to be unlimited only when no active link has a limit, is not    *)
(* told to be active when no active link could be listed, and is shown as  *)
(* active only links that its document lists, however traffic, the clock   *)
(* and the Core moved between the four reads it is answered from.          *)
THEOREM SubscriptionIsTrue == Spec => []SubscriptionHolds
<1>1. Spec => []FeedInv
  BY FeedStart, FeedKeeps, PTL DEF Spec
<1> QED BY <1>1, FeedIsHonest, PTL
=============================================================================
