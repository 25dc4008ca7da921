--------------------------- MODULE LinkSyncProofs ---------------------------
(***************************************************************************)
(* Proofs about the module LinkSync.                                       *)
(***************************************************************************)
EXTENDS LinkSync, TLAPS

-----------------------------------------------------------------------------
(* What an operation in progress looks like.                               *)
Ops == {"none", "create", "update", "delete", "list", "deploy"}
Stages == {"idle", "post", "insert", "patch", "store", "erase", "drop",
           "rows", "get", "import", "refresh", "match"}
LinkSets == SUBSET Links
RowSets  == SUBSET Rows

TaskRecord ==
  [op : Ops, stage : Stages, link : Links \cup {None}, edit : Edits \cup {<< >>},
   limit : Limits, known : LinkSets, todo : LinkSets, rows : RowSets, live : CoreState,
   calm : LinkSets]

(* The stages of each operation, and what it holds at them.                *)
StageOfOp(x) ==
  /\ x.op = "none" <=> x.stage = "idle"
  /\ x.op = "update" <=> x.stage \in {"patch", "store"}
  /\ x.op = "delete" <=> x.stage \in {"erase", "drop"}
  /\ x.op = "create" => x.stage \in {"post", "insert"}
  /\ x.op = "list" => x.stage \in {"get", "import", "refresh"}
  /\ x.op = "deploy" => x.stage \in {"post", "insert", "rows", "get", "match"}

Shape(x) ==
  /\ StageOfOp(x)
  /\ x.link \in Links <=> x.stage \in {"insert", "patch", "store", "erase", "drop"}
  /\ x.op = "update" => x.edit \in Edits
  /\ x.op # "deploy" => x.rows = {} /\ x.calm = {}
  /\ x.op # "list" => x.known = {} /\ x.todo = {}
  /\ x.stage \notin {"import", "refresh", "match"} => x.live = NoLive
  /\ x.stage \notin {"get", "match"} => x.rows = {}
  /\ x.stage = "refresh" => \A l \in x.todo : x.live[l].there

Doubts == SUBSET {"policy", "use"}

Typed ==
  /\ db \in RowSets
  /\ core \in CoreState
  /\ born \in LinkSets
  /\ task \in [Tasks -> TaskRecord]
  /\ doubt \in [Links -> Doubts]
  /\ revived \in LinkSets
  /\ gone \in LinkSets
  /\ \A t \in Tasks : Shape(task[t])

-----------------------------------------------------------------------------
LEMMA EditedRow ==
  ASSUME NEW e \in Edits, NEW r \in Rows
  PROVE  /\ Edited(r, e) \in Rows
         /\ Edited(r, e).link = r.link
         /\ Edited(r, e).limit = IF "limit" \in DOMAIN e THEN e["limit"] ELSE r.limit
         /\ Edited(r, e).active = IF "active" \in DOMAIN e THEN e["active"] ELSE r.active
         /\ Edited(r, e).used = IF "used" \in DOMAIN e THEN 0 ELSE r.used
<1>0. DOMAIN r = {"link", "limit", "active", "used"}
  BY DEF Rows
<1>1. CASE e \in [{"limit"} -> Limits]
  BY <1>0, <1>1, LinkSyncAssumption DEF Rows, Edited
<1>2. CASE e \in [{"active"} -> BOOLEAN]
  BY <1>0, <1>2, LinkSyncAssumption DEF Rows, Edited
<1>3. CASE e \in [{"used"} -> {0}]
  BY <1>0, <1>3, LinkSyncAssumption DEF Rows, Edited
<1> QED BY <1>1, <1>2, <1>3 DEF Edits

LEMMA EditedLink ==
  ASSUME NEW e \in Edits, NEW x \in CoreLinks
  PROVE  /\ Edited(x, e) \in CoreLinks
         /\ Edited(x, e).there = x.there
         /\ Edited(x, e).limit = IF "limit" \in DOMAIN e THEN e["limit"] ELSE x.limit
         /\ Edited(x, e).active = IF "active" \in DOMAIN e THEN e["active"] ELSE x.active
         /\ Edited(x, e).used = IF "used" \in DOMAIN e THEN 0 ELSE x.used
<1>0. DOMAIN x = {"there", "limit", "active", "used"}
  BY DEF CoreLinks
<1>1. CASE e \in [{"limit"} -> Limits]
  BY <1>0, <1>1, LinkSyncAssumption DEF CoreLinks, Edited
<1>2. CASE e \in [{"active"} -> BOOLEAN]
  BY <1>0, <1>2, LinkSyncAssumption DEF CoreLinks, Edited
<1>3. CASE e \in [{"used"} -> {0}]
  BY <1>0, <1>3, LinkSyncAssumption DEF CoreLinks, Edited
<1> QED BY <1>1, <1>2, <1>3 DEF Edits
(* The fields of a link of the Core, and of an operation.                  *)
LEMMA CoreFields ==
  ASSUME NEW c \in CoreState, NEW l \in Links
  PROVE  /\ c[l] \in CoreLinks
         /\ c[l].limit \in Limits /\ c[l].active \in BOOLEAN
         /\ c[l].used \in 0..MaxUsed /\ c[l].there \in BOOLEAN
BY DEF CoreState, CoreLinks

LEMMA NoLiveTyped == NoLive \in CoreState /\ \A l \in Links : ~NoLive[l].there
BY LinkSyncAssumption DEF NoLive, Absent, CoreState, CoreLinks

LEMMA TaskFields ==
  ASSUME NEW x \in TaskRecord
  PROVE  /\ x.op \in Ops /\ x.stage \in Stages /\ x.link \in Links \cup {None}
         /\ x.edit \in Edits \cup {<< >>} /\ x.limit \in Limits
         /\ x.known \in LinkSets /\ x.todo \in LinkSets /\ x.rows \in RowSets
         /\ x.live \in CoreState /\ x.calm \in LinkSets
BY DEF TaskRecord

LEMMA IdleTyped == Idle \in TaskRecord /\ Shape(Idle)
<1>1. {} \in LinkSets /\ {} \in RowSets
  BY DEF LinkSets, RowSets
<1>2. Idle \in TaskRecord
  BY <1>1, NoLiveTyped, LinkSyncAssumption DEF Idle, TaskRecord, Ops, Stages
<1>3. Shape(Idle)
  BY LinkSyncAssumption DEF Idle, Shape, StageOfOp
<1> QED BY <1>2, <1>3

(* What a step of another operation leaves of an operation.                *)
Keeps(o) ==
  /\ task'[o].op = task[o].op /\ task'[o].stage = task[o].stage
  /\ task'[o].link = task[o].link /\ task'[o].edit = task[o].edit
  /\ task'[o].limit = task[o].limit /\ task'[o].known = task[o].known
  /\ task'[o].todo = task[o].todo /\ task'[o].rows = task[o].rows
  /\ task'[o].live = task[o].live /\ task'[o].calm \subseteq task[o].calm

(* A step of the operation t that makes y of it.                           *)
Acts(t, y) ==
  /\ task' \in [Tasks -> TaskRecord]
  /\ task'[t] = y /\ Shape(y)
  /\ \A o \in Tasks \ {t} : Keeps(o)

LEMMA ShapeKept ==
  ASSUME NEW o, Shape(task[o]), Keeps(o)
  PROVE  Shape(task'[o])
BY DEF Shape, StageOfOp, Keeps

LEMMA Typing ==
  ASSUME Typed, NEW t \in Tasks, NEW y, Acts(t, y),
         db' \in RowSets, core' \in CoreState, born' \in LinkSets,
         doubt' \in [Links -> Doubts], revived' \in LinkSets, gone' \in LinkSets
  PROVE  Typed'
<1>1. \A o \in Tasks : Shape(task'[o])
  BY ShapeKept DEF Acts, Typed
<1> QED BY <1>1 DEF Typed, Acts

LEMMA OneActs ==
  ASSUME Typed, NEW t \in Tasks, NEW y \in TaskRecord, Shape(y),
         task' = [task EXCEPT ![t] = y]
  PROVE  Acts(t, y)
<1>1. task' \in [Tasks -> TaskRecord] /\ task'[t] = y
  BY DEF Typed
<1>2. \A o \in Tasks \ {t} : task'[o] = task[o]
  BY DEF Typed
<1> QED BY <1>1, <1>2 DEF Acts, Keeps

LEMMA FinishActs ==
  ASSUME Typed, NEW t \in Tasks, Finish(t)
  PROVE  Acts(t, Idle)
BY IdleTyped, OneActs DEF Finish

LEMMA WalkActs ==
  ASSUME Typed, NEW t \in Tasks, NEW y \in TaskRecord, Shape(y), Walk(t, y)
  PROVE  \/ Acts(t, Idle) /\ y.rows = {} /\ y.todo = {}
         \/ Acts(t, y)
BY IdleTyped, OneActs DEF Walk

LEMMA BlurTyped ==
  ASSUME Typed, NEW ls, Blur(ls)
  PROVE  /\ doubt' \in [Links -> Doubts]
         /\ \A l \in Links : doubt'[l] = IF l \in ls THEN {"policy", "use"} ELSE doubt[l]
BY DEF Blur, Typed, Doubts
-----------------------------------------------------------------------------
(* What each action makes of its operation, and that types are kept.       *)

(* A new operation, but for the links on which it is undisturbed.          *)
Fresh(x, y) ==
  /\ y \in TaskRecord /\ Shape(y)
  /\ y.op = x.op /\ y.stage = x.stage /\ y.link = x.link /\ y.edit = x.edit
  /\ y.limit = x.limit /\ y.known = x.known /\ y.todo = {} /\ y.rows = {}
  /\ y.live = NoLive

MetWith(x) == UNION {Met(x, task[o]) : o \in Tasks}

LEMMA BeginMoves ==
  ASSUME Typed, NEW t \in Tasks, NEW x \in TaskRecord, Shape(x), Begin(t, x),
         x.rows = {}, x.todo = {}, x.live = NoLive
  PROVE  \E y : /\ Acts(t, y) /\ Fresh(x, y)
                /\ y.calm = IF x.op = "deploy" THEN Links \ MetWith(x) ELSE {}
                /\ \A o \in Tasks \ {t} : task'[o].calm = task[o].calm \ Met(x, task[o])
                /\ Blur(MetWith(x))
<1> DEFINE C == IF x.op = "deploy" THEN Links \ MetWith(x) ELSE {}
           y == [x EXCEPT !.calm = C]
<1>1. C \in LinkSets
  BY DEF LinkSets
<1>1a. x.op # "deploy" => C = {}
  OBVIOUS
<1>2. task' = [o \in Tasks |->
                 IF o = t THEN y ELSE [task[o] EXCEPT !.calm = @ \ Met(x, task[o])]]
  BY DEF Begin, MetWith
<1> HIDE DEF C
<1>3. y \in TaskRecord
  BY <1>1 DEF TaskRecord
<1>4. Shape(y)
  BY <1>1a DEF Shape, StageOfOp, TaskRecord
<1>5. Fresh(x, y) /\ y.calm = C
  BY <1>3, <1>4 DEF Fresh, TaskRecord
<1>6. ASSUME NEW o \in Tasks \ {t}
      PROVE  /\ task'[o] \in TaskRecord /\ Keeps(o)
             /\ task'[o].calm = task[o].calm \ Met(x, task[o])
  <2>1. task'[o] = [task[o] EXCEPT !.calm = @ \ Met(x, task[o])]
    BY <1>2
  <2>2. task[o] \in TaskRecord
    BY DEF Typed
  <2>3. task[o].calm \ Met(x, task[o]) \in LinkSets
    BY <2>2, TaskFields DEF LinkSets
  <2>4. task'[o] \in TaskRecord
    BY <2>1, <2>2, <2>3 DEF TaskRecord
  <2>5. Keeps(o) /\ task'[o].calm = task[o].calm \ Met(x, task[o])
    BY <2>1, <2>2 DEF Keeps, TaskRecord
  <2> QED BY <2>4, <2>5
<1>7. task'[t] = y
  BY <1>2
<1>8. task' \in [Tasks -> TaskRecord]
  <2>1. \A o \in Tasks : task'[o] \in TaskRecord
    BY <1>3, <1>6, <1>7
  <2>2. task' = [o \in Tasks |-> task'[o]]
    BY <1>2
  <2> QED BY <2>1, <2>2
<1>9. Acts(t, y)
  BY <1>4, <1>6, <1>7, <1>8 DEF Acts
<1>10. Blur(MetWith(x))
  BY DEF Begin, MetWith
<1> QED BY <1>5, <1>6, <1>9, <1>10 DEF C

LEMMA DropActs ==
  ASSUME Typed, NEW t \in Tasks, Drop(t)
  PROVE  /\ Acts(t, Idle)
         /\ \A o \in Tasks \ {t} : task'[o].calm = task[o].calm \ {task[t].link}
<1>1. task' = [o \in Tasks |->
                 IF o = t THEN Idle ELSE [task[o] EXCEPT !.calm = @ \ {task[t].link}]]
  BY DEF Drop
<1>6. ASSUME NEW o \in Tasks \ {t}
      PROVE  /\ task'[o] \in TaskRecord /\ Keeps(o)
             /\ task'[o].calm = task[o].calm \ {task[t].link}
  <2>1. task'[o] = [task[o] EXCEPT !.calm = @ \ {task[t].link}]
    BY <1>1
  <2>2. task[o] \in TaskRecord
    BY DEF Typed
  <2>3. task[o].calm \ {task[t].link} \in LinkSets
    BY <2>2, TaskFields DEF LinkSets
  <2>4. task'[o] \in TaskRecord
    BY <2>1, <2>2, <2>3 DEF TaskRecord
  <2>5. Keeps(o) /\ task'[o].calm = task[o].calm \ {task[t].link}
    BY <2>1, <2>2 DEF Keeps, TaskRecord
  <2> QED BY <2>4, <2>5
<1>7. task'[t] = Idle
  BY <1>1
<1>8. task' \in [Tasks -> TaskRecord]
  <2>1. \A o \in Tasks : task'[o] \in TaskRecord
    BY IdleTyped, <1>6, <1>7
  <2>2. task' = [o \in Tasks |-> task'[o]]
    BY <1>1
  <2> QED BY <2>1, <2>2
<1> QED BY <1>6, <1>7, <1>8, IdleTyped DEF Acts
LEMMA CallFailsMoves ==
  ASSUME Typed, NEW t \in Tasks, CallFails(t)
  PROVE  Acts(t, Idle) /\ UNCHANGED <<db, core, born, doubt, revived, gone>>
BY FinishActs DEF CallFails

LEMMA PostMoves ==
  ASSUME Typed, NEW t \in Tasks, NEW l \in Links, Post(t, l)
  PROVE  /\ task[t].stage = "post" /\ l \notin born
         /\ \/ Acts(t, Idle)
            \/ Acts(t, [task[t] EXCEPT !.stage = "insert", !.link = l])
         /\ core' \in CoreState /\ core'[l] = CoreLink(task[t].limit, TRUE, 0)
         /\ \A k \in Links : k # l => core'[k] = core[k]
         /\ born' = born \cup {l} /\ UNCHANGED <<db, doubt, revived, gone>>
<1> DEFINE y == [task[t] EXCEPT !.stage = "insert", !.link = l]
<1>1. task[t] \in TaskRecord /\ Shape(task[t]) /\ task[t].stage = "post"
  BY DEF Typed, Post, At
<1>2. y \in TaskRecord
  BY <1>1 DEF TaskRecord, Stages
<1>3. Shape(y)
  BY <1>1 DEF Shape, StageOfOp, TaskRecord
<1>4. Acts(t, Idle) \/ Acts(t, y)
  <2>1. CASE Finish(t)
    BY <2>1, FinishActs
  <2>2. CASE task' = [task EXCEPT ![t].stage = "insert", ![t].link = l]
    <3>1. task' = [task EXCEPT ![t] = y]
      BY <2>2, <1>1 DEF Typed
    <3> QED BY <3>1, <1>2, <1>3, OneActs
  <2> QED BY <2>1, <2>2 DEF Post
<1>5. CoreLink(task[t].limit, TRUE, 0) \in CoreLinks
  BY <1>1, LinkSyncAssumption DEF TaskRecord, CoreLink, CoreLinks
<1>6. /\ core' \in CoreState /\ core'[l] = CoreLink(task[t].limit, TRUE, 0)
      /\ \A k \in Links : k # l => core'[k] = core[k]
  BY <1>5 DEF Post, CoreState, Typed
<1> QED BY <1>1, <1>4, <1>6 DEF Post

LEMMA InsertMoves ==
  ASSUME Typed, NEW t \in Tasks, Insert(t)
  PROVE  /\ task[t].stage = "insert" /\ task[t].link \in Links
         /\ Row(task[t].link, task[t].limit, TRUE, 0) \in Rows
         /\ db' \in RowSets /\ db' = db \cup {Row(task[t].link, task[t].limit, TRUE, 0)}
         /\ \/ Acts(t, Idle) /\ task[t].op # "deploy"
            \/ Acts(t, [task[t] EXCEPT !.stage = "rows", !.link = None]) /\ task[t].op = "deploy"
         /\ UNCHANGED <<core, born, doubt, revived, gone>>
<1> DEFINE y == [task[t] EXCEPT !.stage = "rows", !.link = None]
<1>1. task[t] \in TaskRecord /\ Shape(task[t]) /\ task[t].stage = "insert"
  BY DEF Typed, Insert, At
<1>2. task[t].link \in Links
  BY <1>1 DEF Shape
<1>3. Row(task[t].link, task[t].limit, TRUE, 0) \in Rows
  BY <1>1, <1>2, LinkSyncAssumption DEF TaskRecord, Row, Rows
<1>4. db' \in RowSets /\ db' = db \cup {Row(task[t].link, task[t].limit, TRUE, 0)}
  BY <1>3 DEF Insert, RowSets, Typed
<1>5. CASE task[t].op = "deploy"
  <2>1. y \in TaskRecord
    BY <1>1 DEF TaskRecord, Stages
  <2>2. Shape(y)
    BY <1>1, <1>5, LinkSyncAssumption DEF Shape, StageOfOp, TaskRecord
  <2>3. task' = [task EXCEPT ![t] = y]
    BY <1>1, <1>5 DEF Insert, Typed
  <2> QED BY <1>1, <1>2, <1>3, <1>4, <1>5, <2>1, <2>2, <2>3, OneActs DEF Insert
<1>6. CASE task[t].op # "deploy"
  BY <1>1, <1>2, <1>3, <1>4, <1>6, FinishActs DEF Insert
<1> QED BY <1>5, <1>6

LEMMA PatchMoves ==
  ASSUME Typed, NEW t \in Tasks, Patch(t)
  PROVE  /\ task[t].stage = "patch" /\ task[t].link \in Links /\ In(task[t].link)
         /\ task[t].edit \in Edits
         /\ core' \in CoreState
         /\ core'[task[t].link] = Edited(core[task[t].link], task[t].edit)
         /\ \A k \in Links : k # task[t].link => core'[k] = core[k]
         /\ doubt' \in [Links -> Doubts]
         /\ \/ Acts(t, Idle) /\ Blur({task[t].link})
            \/ Acts(t, [task[t] EXCEPT !.stage = "store"]) /\ UNCHANGED doubt
         /\ UNCHANGED <<db, born, revived, gone>>
<1> DEFINE y == [task[t] EXCEPT !.stage = "store"]
<1>1. task[t] \in TaskRecord /\ Shape(task[t]) /\ task[t].stage = "patch" /\ In(task[t].link)
  BY DEF Typed, Patch, At
<1>2. task[t].link \in Links /\ task[t].edit \in Edits
  BY <1>1 DEF Shape, StageOfOp
<1>3. Edited(core[task[t].link], task[t].edit) \in CoreLinks
  BY <1>2, EditedLink, CoreFields DEF Typed
<1>4. /\ core' \in CoreState
      /\ core'[task[t].link] = Edited(core[task[t].link], task[t].edit)
      /\ \A k \in Links : k # task[t].link => core'[k] = core[k]
  BY <1>2, <1>3 DEF Patch, CoreState, Typed
<1>5. y \in TaskRecord
  BY <1>1 DEF TaskRecord, Stages
<1>6. Shape(y)
  BY <1>1 DEF Shape, StageOfOp, TaskRecord
<1>7. CASE Finish(t) /\ Blur({task[t].link})
  BY <1>1, <1>2, <1>4, <1>7, FinishActs, BlurTyped DEF Patch
<1>8. CASE task' = [task EXCEPT ![t].stage = "store"] /\ UNCHANGED doubt
  <2>1. task' = [task EXCEPT ![t] = y]
    BY <1>1, <1>8 DEF Typed
  <2>2. doubt' \in [Links -> Doubts]
    BY <1>8 DEF Typed
  <2> QED BY <1>1, <1>2, <1>4, <1>5, <1>6, <1>8, <2>1, <2>2, OneActs DEF Patch
<1> QED BY <1>7, <1>8 DEF Patch

LEMMA StoreMoves ==
  ASSUME Typed, NEW t \in Tasks, Store(t)
  PROVE  /\ task[t].stage = "store" /\ task[t].link \in Links /\ task[t].edit \in Edits
         /\ db' \in RowSets
         /\ db' = {IF r.link = task[t].link THEN Edited(r, task[t].edit) ELSE r : r \in db}
         /\ Acts(t, Idle)
         /\ UNCHANGED <<core, born, doubt, revived, gone>>
<1>1. Shape(task[t]) /\ task[t].stage = "store"
  BY DEF Typed, Store, At
<1>2. task[t].link \in Links /\ task[t].edit \in Edits
  BY <1>1 DEF Shape, StageOfOp
<1>3. \A r \in db : Edited(r, task[t].edit) \in Rows
  BY <1>2, EditedRow DEF Typed, RowSets
<1>4. /\ db' = {IF r.link = task[t].link THEN Edited(r, task[t].edit) ELSE r : r \in db}
      /\ Finish(t) /\ UNCHANGED <<core, born, doubt, revived, gone>>
  BY DEF Store
<1>5. db' \in RowSets
  BY <1>3, <1>4 DEF Typed, RowSets
<1> QED BY <1>1, <1>2, <1>4, <1>5, FinishActs

LEMMA EraseMoves ==
  ASSUME Typed, NEW t \in Tasks, Erase(t)
  PROVE  /\ task[t].stage = "erase" /\ task[t].link \in Links
         /\ core' \in CoreState
         /\ \A k \in Links : core'[k] # core[k] => core'[k] = Absent /\ k = task[t].link
         /\ Acts(t, [task[t] EXCEPT !.stage = "drop"])
         /\ UNCHANGED <<db, born, doubt, revived, gone>>
<1> DEFINE y == [task[t] EXCEPT !.stage = "drop"]
<1>1. task[t] \in TaskRecord /\ Shape(task[t]) /\ task[t].stage = "erase"
  BY DEF Typed, Erase, At
<1>2. task[t].link \in Links
  BY <1>1 DEF Shape, StageOfOp
<1>3. Absent \in CoreLinks
  BY LinkSyncAssumption DEF Absent, CoreLinks
<1>4. /\ core' \in CoreState
      /\ \A k \in Links : core'[k] # core[k] => core'[k] = Absent /\ k = task[t].link
  BY <1>2, <1>3 DEF Erase, CoreState, Typed
<1>5. y \in TaskRecord
  BY <1>1 DEF TaskRecord, Stages
<1>6. Shape(y)
  BY <1>1 DEF Shape, StageOfOp, TaskRecord
<1>7. task' = [task EXCEPT ![t] = y]
  BY <1>1 DEF Erase, Typed
<1> QED BY <1>1, <1>2, <1>4, <1>5, <1>6, <1>7, OneActs DEF Erase

LEMMA DropMoves ==
  ASSUME Typed, NEW t \in Tasks, Drop(t)
  PROVE  /\ task[t].stage = "drop" /\ task[t].link \in Links
         /\ db' \in RowSets /\ db' = db \ RowsOf(task[t].link)
         /\ Acts(t, Idle)
         /\ \A o \in Tasks \ {t} : task'[o].calm = task[o].calm \ {task[t].link}
         /\ gone' \in LinkSets
         /\ gone' = IF \/ In(task[t].link)
                       \/ \E o \in Tasks \ {t} : task[o].op # "delete" /\ Knows(o, task[t].link)
                    THEN gone ELSE gone \cup {task[t].link}
         /\ UNCHANGED <<core, born, doubt, revived>>
<1>1. Shape(task[t]) /\ task[t].stage = "drop"
  BY DEF Typed, Drop, At
<1>2. task[t].link \in Links
  BY <1>1 DEF Shape, StageOfOp
<1>3. db' = db \ RowsOf(task[t].link) /\ UNCHANGED <<core, born, doubt, revived>>
  BY DEF Drop
<1>4. gone' = IF \/ In(task[t].link)
                 \/ \E o \in Tasks \ {t} : task[o].op # "delete" /\ Knows(o, task[t].link)
              THEN gone ELSE gone \cup {task[t].link}
  BY DEF Drop
<1>5. db' \in RowSets
  BY <1>3 DEF Typed, RowSets
<1>6. gone' \in LinkSets
  BY <1>2, <1>4 DEF Typed, LinkSets
<1> QED BY <1>1, <1>2, <1>3, <1>4, <1>5, <1>6, DropActs
LEMMA ListGetMoves ==
  ASSUME Typed, NEW t \in Tasks, Get(t), task[t].op = "list"
  PROVE  /\ task[t].stage = "get"
         /\ Acts(t, [task[t] EXCEPT !.live = core, !.stage = "import"])
         /\ UNCHANGED <<db, core, born, doubt, revived, gone>>
<1> DEFINE y == [task[t] EXCEPT !.live = core, !.stage = "import"]
<1>1. task[t] \in TaskRecord /\ Shape(task[t]) /\ task[t].stage = "get" /\ core \in CoreState
  BY DEF Typed, Get, At
<1>2. y \in TaskRecord
  BY <1>1 DEF TaskRecord, Stages
<1>3. Shape(y)
  BY <1>1 DEF Shape, StageOfOp, TaskRecord
<1>4. task' = [task EXCEPT ![t] = y]
  BY <1>1 DEF Get, Typed
<1> QED BY <1>1, <1>2, <1>3, <1>4, OneActs DEF Get

(* The links of the Core as a reconciliation reads them.                   *)
Policies == [l \in Links |-> [core[l] EXCEPT !.used = 0]]

LEMMA PoliciesTyped ==
  ASSUME Typed
  PROVE  /\ Policies \in CoreState
         /\ \A l \in Links : /\ Policies[l].there = core[l].there
                             /\ Policy(Policies[l]) = Policy(core[l])
<1>1. \A l \in Links : core[l] \in CoreLinks
  BY CoreFields DEF Typed
<1> QED BY <1>1, LinkSyncAssumption DEF Policies, CoreState, CoreLinks, Policy

LEMMA DeployGetMoves ==
  ASSUME Typed, NEW t \in Tasks, Get(t), task[t].op # "list"
  PROVE  /\ task[t].stage = "get" /\ task[t].op = "deploy"
         /\ \/ Acts(t, Idle)
            \/ Acts(t, [task[t] EXCEPT !.live = Policies, !.stage = "match"])
         /\ UNCHANGED <<db, core, born, doubt, revived, gone>>
<1> DEFINE y == [task[t] EXCEPT !.live = Policies, !.stage = "match"]
<1>1. /\ task[t] \in TaskRecord /\ Shape(task[t]) /\ task[t].stage = "get"
      /\ Policies \in CoreState
  BY PoliciesTyped DEF Typed, Get, At
<1>1a. task[t].op = "deploy"
  BY <1>1, TaskFields DEF Shape, StageOfOp, Ops
<1>2. y \in TaskRecord
  BY <1>1 DEF TaskRecord, Stages
<1>3. Shape(y)
  BY <1>1, <1>1a DEF Shape, StageOfOp, TaskRecord
<1>4. Walk(t, y)
  BY <1>1 DEF Get, Policies
<1> QED BY <1>1, <1>1a, <1>2, <1>3, <1>4, WalkActs DEF Get

LEMMA ImportMoves ==
  ASSUME Typed, NEW t \in Tasks, NEW l \in Links, Import(t, l)
  PROVE  /\ task[t].stage = "import" /\ task[t].op = "list"
         /\ task[t].live[l].there /\ l \notin task[t].known
         /\ db' \in RowSets
         /\ db' = db \cup {Row(l, task[t].live[l].limit, task[t].live[l].active,
                               task[t].live[l].used)}
         /\ Acts(t, [task[t] EXCEPT !.known = task[t].known \cup {l}])
         /\ UNCHANGED <<core, born, doubt, revived, gone>>
<1> DEFINE y == [task[t] EXCEPT !.known = task[t].known \cup {l}]
<1>1. task[t] \in TaskRecord /\ Shape(task[t]) /\ task[t].stage = "import"
  BY DEF Typed, Import, At
<1>1a. task[t].op = "list"
  BY <1>1, TaskFields DEF Shape, StageOfOp, Ops
<1>2. task[t].known \cup {l} \in LinkSets
  BY <1>1, TaskFields DEF LinkSets
<1>3. y \in TaskRecord
  BY <1>1, <1>2 DEF TaskRecord
<1>4. Shape(y)
  BY <1>1, <1>1a DEF Shape, StageOfOp, TaskRecord
<1>5. task' = [task EXCEPT ![t] = y]
  BY <1>1 DEF Import, Typed
<1>6. Row(l, task[t].live[l].limit, task[t].live[l].active, task[t].live[l].used) \in Rows
  BY <1>1, TaskFields, CoreFields DEF Row, Rows
<1>7. db' \in RowSets
  BY <1>6 DEF Import, RowSets, Typed
<1> QED BY <1>1, <1>1a, <1>3, <1>4, <1>5, <1>7, OneActs DEF Import

LEMMA RereadMoves ==
  ASSUME Typed, NEW t \in Tasks, Reread(t)
  PROVE  /\ task[t].stage = "import" /\ task[t].op = "list"
         /\ \/ Acts(t, Idle)
            \/ Acts(t, [task[t] EXCEPT !.todo = {l \in LinksOf(db) : task[t].live[l].there},
                                       !.known = {}, !.stage = "refresh"])
         /\ UNCHANGED <<db, core, born, doubt, revived, gone>>
<1> DEFINE T == {l \in LinksOf(db) : task[t].live[l].there}
           y == [task[t] EXCEPT !.todo = T, !.known = {}, !.stage = "refresh"]
<1>1. task[t] \in TaskRecord /\ Shape(task[t]) /\ task[t].stage = "import"
  BY DEF Typed, Reread, At
<1>1a. task[t].op = "list"
  BY <1>1, TaskFields DEF Shape, StageOfOp, Ops
<1>2. T \in LinkSets /\ {} \in LinkSets /\ \A l \in T : task[t].live[l].there
  BY DEF LinkSets, LinksOf, Typed, RowSets, Rows
<1>3. Walk(t, y)
  BY DEF Reread
<1> HIDE DEF T
<1>4. y \in TaskRecord
  BY <1>1, <1>2 DEF TaskRecord, Stages
<1>5. Shape(y)
  BY <1>1, <1>1a, <1>2 DEF Shape, StageOfOp, TaskRecord
<1>6. Acts(t, Idle) \/ Acts(t, y)
  BY <1>3, <1>4, <1>5, WalkActs
<1> QED BY <1>1, <1>1a, <1>6 DEF Reread, T

LEMMA RefreshedTyped ==
  ASSUME NEW r \in Rows, NEW live \in CoreLinks
  PROVE  /\ Refreshed(r, live) \in Rows
         /\ Refreshed(r, live).link = r.link
         /\ Refreshed(r, live).used = live.used
         /\ Refreshed(r, live).active = live.active
         /\ Refreshed(r, live).limit = IF live.limit = 0 THEN r.limit ELSE live.limit
BY DEF Refreshed, Rows, CoreLinks

LEMMA RefreshMoves ==
  ASSUME Typed, NEW t \in Tasks, NEW l \in Links, Refresh(t, l)
  PROVE  /\ task[t].stage = "refresh" /\ task[t].op = "list"
         /\ l \in task[t].todo /\ task[t].live[l].there /\ task[t].live[l] \in CoreLinks
         /\ db' \in RowSets
         /\ db' = {IF r.link = l THEN Refreshed(r, task[t].live[l]) ELSE r : r \in db}
         /\ \/ Acts(t, Idle)
            \/ Acts(t, [task[t] EXCEPT !.todo = task[t].todo \ {l}])
         /\ UNCHANGED <<core, born, doubt, revived, gone>>
<1> DEFINE y == [task[t] EXCEPT !.todo = task[t].todo \ {l}]
<1>1. task[t] \in TaskRecord /\ Shape(task[t]) /\ task[t].stage = "refresh" /\ l \in task[t].todo
  BY DEF Typed, Refresh, At
<1>1a. task[t].op = "list"
  BY <1>1, TaskFields DEF Shape, StageOfOp, Ops
<1>2. task[t].todo \ {l} \in LinkSets
  BY <1>1, TaskFields DEF LinkSets
<1>3. y \in TaskRecord
  BY <1>1, <1>2 DEF TaskRecord
<1>4. Shape(y)
  BY <1>1, <1>1a DEF Shape, StageOfOp, TaskRecord
<1>5. Walk(t, y)
  BY DEF Refresh
<1>6. task[t].live[l] \in CoreLinks /\ task[t].live[l].there
  BY <1>1, TaskFields, CoreFields DEF Shape
<1>7. db' = {IF r.link = l THEN Refreshed(r, task[t].live[l]) ELSE r : r \in db}
  BY DEF Refresh
<1>8. db' \in RowSets
  BY <1>6, <1>7, RefreshedTyped DEF RowSets, Typed
<1>9. Acts(t, Idle) \/ Acts(t, y)
  BY <1>3, <1>4, <1>5, WalkActs
<1> QED BY <1>1, <1>1a, <1>6, <1>7, <1>8, <1>9 DEF Refresh

LEMMA ReadRowsMoves ==
  ASSUME Typed, NEW t \in Tasks, ReadRows(t)
  PROVE  /\ task[t].stage = "rows" /\ task[t].op = "deploy"
         /\ Acts(t, [task[t] EXCEPT !.rows = db, !.stage = "get"])
         /\ UNCHANGED <<db, core, born, doubt, revived, gone>>
<1> DEFINE y == [task[t] EXCEPT !.rows = db, !.stage = "get"]
<1>1. task[t] \in TaskRecord /\ Shape(task[t]) /\ task[t].stage = "rows" /\ db \in RowSets
  BY DEF Typed, ReadRows, At
<1>1a. task[t].op = "deploy"
  BY <1>1, TaskFields DEF Shape, StageOfOp, Ops
<1>2. y \in TaskRecord
  BY <1>1 DEF TaskRecord, Stages
<1>3. Shape(y)
  BY <1>1, <1>1a DEF Shape, StageOfOp, TaskRecord
<1>4. task' = [task EXCEPT ![t] = y]
  BY <1>1 DEF ReadRows, Typed
<1> QED BY <1>1, <1>1a, <1>2, <1>3, <1>4, OneActs DEF ReadRows
(* A row is done with: what the steps of a reconciliation have in common.  *)
LEMMA PassMoves ==
  ASSUME Typed, NEW t \in Tasks, NEW r \in task[t].rows, At(t, "match"), RowDone(t, r)
  PROVE  /\ task[t].stage = "match" /\ task[t].op = "deploy"
         /\ r \in Rows /\ r.link \in Links
         /\ \/ Acts(t, Idle)
            \/ Acts(t, [task[t] EXCEPT !.rows = task[t].rows \ {r}])
<1> DEFINE y == [task[t] EXCEPT !.rows = task[t].rows \ {r}]
<1>1. task[t] \in TaskRecord /\ Shape(task[t]) /\ task[t].stage = "match"
  BY DEF Typed, At
<1>1a. task[t].op = "deploy"
  BY <1>1, TaskFields DEF Shape, StageOfOp, Ops
<1>2. r \in Rows /\ r.link \in Links
  BY <1>1, TaskFields DEF RowSets, Rows
<1>3. task[t].rows \ {r} \in RowSets
  BY <1>1, TaskFields DEF RowSets
<1>4. y \in TaskRecord
  BY <1>1, <1>3 DEF TaskRecord
<1>5. Shape(y)
  BY <1>1, <1>1a DEF Shape, StageOfOp, TaskRecord
<1>6. Walk(t, y)
  BY DEF RowDone
<1>7. Acts(t, Idle) \/ Acts(t, y)
  BY <1>4, <1>5, <1>6, WalkActs
<1> QED BY <1>1, <1>1a, <1>2, <1>7

(* Only the policy of the row's link can become certain, when nothing      *)
(* disturbed the reconciliation and the link has that row alone.           *)
Settles(t, r) ==
  /\ r.link \in task[t].calm
  /\ RowsOf(r.link) = {r}
  /\ \A o \in Tasks : At(o, "insert") => task[o].link # r.link

LEMMA SettleMoves ==
  ASSUME Typed, NEW t \in Tasks, NEW r, r.link \in Links, Settle(t, r)
  PROVE  /\ doubt' \in [Links -> Doubts]
         /\ \A k \in Links : k # r.link => doubt'[k] = doubt[k]
         /\ doubt'[r.link] = IF Settles(t, r) THEN doubt[r.link] \ {"policy"} ELSE doubt[r.link]
<1>1. doubt' = IF Settles(t, r) THEN [doubt EXCEPT ![r.link] = @ \ {"policy"}] ELSE doubt
  BY DEF Settle, Settles
<1>2. doubt \in [Links -> Doubts]
  BY DEF Typed
<1>3. \A k \in Links : doubt[k] \ {"policy"} \in Doubts
  BY <1>2 DEF Doubts
<1> QED BY <1>1, <1>2, <1>3

LEMMA SkipMoves ==
  ASSUME Typed, NEW t \in Tasks, NEW r \in task[t].rows, Skip(t, r)
  PROVE  /\ task[t].stage = "match" /\ task[t].op = "deploy"
         /\ r \in Rows /\ r.link \in Links
         /\ task[t].live[r.link].there /\ Policy(r) = Policy(task[t].live[r.link])
         /\ \/ Acts(t, Idle)
            \/ Acts(t, [task[t] EXCEPT !.rows = task[t].rows \ {r}])
         /\ doubt' \in [Links -> Doubts]
         /\ \A k \in Links : k # r.link => doubt'[k] = doubt[k]
         /\ doubt'[r.link] = IF Settles(t, r) THEN doubt[r.link] \ {"policy"} ELSE doubt[r.link]
         /\ revived' \in LinkSets /\ revived' = revived \ {r.link}
         /\ UNCHANGED <<db, core, born, gone>>
<1>1. /\ At(t, "match") /\ RowDone(t, r) /\ Settle(t, r)
      /\ task[t].live[r.link].there /\ Policy(r) = Policy(task[t].live[r.link])
      /\ revived' = revived \ {r.link} /\ UNCHANGED <<db, core, born, gone>>
  BY DEF Skip, Same
<1>2. revived' \in LinkSets
  BY <1>1 DEF Typed, LinkSets
<1> QED BY <1>1, <1>2, PassMoves, SettleMoves

LEMMA MatchFailsMoves ==
  ASSUME Typed, NEW t \in Tasks, NEW r \in task[t].rows, MatchFails(t, r)
  PROVE  /\ task[t].stage = "match" /\ task[t].op = "deploy"
         /\ r \in Rows /\ r.link \in Links
         /\ \/ Acts(t, Idle)
            \/ Acts(t, [task[t] EXCEPT !.rows = task[t].rows \ {r}])
         /\ UNCHANGED <<db, core, born, doubt, revived, gone>>
BY PassMoves DEF MatchFails

LEMMA RestoreMoves ==
  ASSUME Typed, NEW t \in Tasks, NEW r \in task[t].rows, Restore(t, r)
  PROVE  /\ task[t].stage = "match" /\ task[t].op = "deploy"
         /\ r \in Rows /\ r.link \in Links
         /\ ~task[t].live[r.link].there
         /\ \/ Acts(t, Idle)
            \/ Acts(t, [task[t] EXCEPT !.rows = task[t].rows \ {r}])
         /\ core' \in CoreState
         /\ core'[r.link] = CoreLink(r.limit, TRUE, r.used)
         /\ \A k \in Links : k # r.link => core'[k] = core[k]
         /\ doubt' \in [Links -> Doubts]
         /\ \A k \in Links : k # r.link => doubt'[k] = doubt[k]
         /\ doubt'[r.link] = IF Settles(t, r) THEN doubt[r.link] \ {"policy"} ELSE doubt[r.link]
         /\ revived' \in LinkSets
         /\ revived' = IF r.active THEN revived \ {r.link} ELSE revived \cup {r.link}
         /\ UNCHANGED <<db, born, gone>>
<1>1. /\ At(t, "match") /\ RowDone(t, r) /\ Settle(t, r)
      /\ ~task[t].live[r.link].there
      /\ core' = [core EXCEPT ![r.link] = CoreLink(r.limit, TRUE, r.used)]
      /\ revived' = IF r.active THEN revived \ {r.link} ELSE revived \cup {r.link}
      /\ UNCHANGED <<db, born, gone>>
  BY DEF Restore
<1>2. /\ task[t].stage = "match" /\ task[t].op = "deploy"
      /\ r \in Rows /\ r.link \in Links
      /\ \/ Acts(t, Idle)
         \/ Acts(t, [task[t] EXCEPT !.rows = task[t].rows \ {r}])
  BY <1>1, PassMoves
<1>3. revived' \in LinkSets
  BY <1>1, <1>2 DEF Typed, LinkSets
<1>4. CoreLink(r.limit, TRUE, r.used) \in CoreLinks
  BY <1>2 DEF Rows, CoreLink, CoreLinks
<1>5. /\ core' \in CoreState
      /\ core'[r.link] = CoreLink(r.limit, TRUE, r.used)
      /\ \A k \in Links : k # r.link => core'[k] = core[k]
  BY <1>1, <1>2, <1>4 DEF CoreState, Typed
<1> QED BY <1>1, <1>2, <1>3, <1>5, SettleMoves

Repaired(c, r) == [c EXCEPT !.limit = r.limit, !.active = r.active]

LEMMA ReapplyMoves ==
  ASSUME Typed, NEW t \in Tasks, NEW r \in task[t].rows, Reapply(t, r)
  PROVE  /\ task[t].stage = "match" /\ task[t].op = "deploy"
         /\ r \in Rows /\ r.link \in Links
         /\ task[t].live[r.link].there /\ In(r.link)
         /\ ~Same(r, task[t].live[r.link])
         /\ \/ Acts(t, Idle)
            \/ Acts(t, [task[t] EXCEPT !.rows = task[t].rows \ {r}])
         /\ core' \in CoreState
         /\ core'[r.link] = Repaired(core[r.link], r)
         /\ \A k \in Links : k # r.link => core'[k] = core[k]
         /\ doubt' \in [Links -> Doubts]
         /\ \A k \in Links : k # r.link => doubt'[k] = doubt[k]
         /\ doubt'[r.link] = IF Settles(t, r) THEN doubt[r.link] \ {"policy"} ELSE doubt[r.link]
         /\ revived' \in LinkSets /\ revived' = revived \ {r.link}
         /\ UNCHANGED <<db, born, gone>>
<1>1. /\ At(t, "match") /\ RowDone(t, r) /\ Settle(t, r)
      /\ task[t].live[r.link].there /\ In(r.link)
      /\ ~Same(r, task[t].live[r.link])
      /\ core' = [core EXCEPT ![r.link].limit = r.limit, ![r.link].active = r.active]
      /\ revived' = revived \ {r.link}
      /\ UNCHANGED <<db, born, gone>>
  BY DEF Reapply
<1>2. /\ task[t].stage = "match" /\ task[t].op = "deploy"
      /\ r \in Rows /\ r.link \in Links
      /\ \/ Acts(t, Idle)
         \/ Acts(t, [task[t] EXCEPT !.rows = task[t].rows \ {r}])
  BY <1>1, PassMoves
<1>3. revived' \in LinkSets
  BY <1>1, <1>2 DEF Typed, LinkSets
<1> DEFINE c == Repaired(core[r.link], r)
<1>4. c \in CoreLinks
  <2>1. core[r.link] \in CoreLinks
    BY <1>2, CoreFields DEF Typed
  <2>2. r.limit \in Limits /\ r.active \in BOOLEAN
    BY <1>2 DEF Rows
  <2> QED BY <2>1, <2>2 DEF CoreLinks, Repaired
<1>5. core' = [core EXCEPT ![r.link] = c]
  BY <1>1, <1>2 DEF Typed, CoreState, CoreLinks, Repaired
<1>6. /\ core' \in CoreState /\ core'[r.link] = c
      /\ \A k \in Links : k # r.link => core'[k] = core[k]
  BY <1>2, <1>4, <1>5 DEF CoreState, Typed
<1> QED BY <1>1, <1>2, <1>3, <1>6, SettleMoves

LEMMA RelayMoves ==
  ASSUME Typed, NEW l \in Links, Relay(l)
  PROVE  /\ In(l)
         /\ core' \in CoreState
         /\ core'[l].there /\ Policy(core'[l]) = Policy(core[l])
         /\ core'[l].used = core[l].used + 1
         /\ \A k \in Links : k # l => core'[k] = core[k]
         /\ UNCHANGED <<db, born, task, doubt, revived, gone>>
<1> DEFINE c == [core[l] EXCEPT !.used = core[l].used + 1]
<1>1. /\ In(l) /\ core[l].used < MaxUsed
      /\ core' = [core EXCEPT ![l].used = @ + 1]
      /\ UNCHANGED <<db, born, task, doubt, revived, gone>>
  BY DEF Relay
<1>2. core[l] \in CoreLinks /\ core[l].used \in Nat
  BY CoreFields, LinkSyncAssumption DEF Typed
<1>3. core[l].used + 1 \in 0..MaxUsed
  BY <1>1, <1>2, LinkSyncAssumption
<1>4. c \in CoreLinks /\ c.there = core[l].there /\ c.used = core[l].used + 1
      /\ Policy(c) = Policy(core[l])
  BY <1>2, <1>3 DEF CoreLinks, Policy
<1>5. core' = [core EXCEPT ![l] = c]
  BY <1>1, <1>2 DEF Typed, CoreState, CoreLinks
<1>6. core' \in CoreState /\ core'[l] = c /\ \A k \in Links : k # l => core'[k] = core[k]
  BY <1>4, <1>5 DEF CoreState, Typed
<1> QED BY <1>1, <1>4, <1>6 DEF In
LEMMA WipeMoves ==
  ASSUME Typed, Wipe
  PROVE  /\ core' \in CoreState /\ \A l \in Links : core'[l] = Absent
         /\ UNCHANGED <<db, born, task, doubt, revived, gone>>
BY NoLiveTyped DEF Wipe, NoLive

(* An operation that starts: what it is about has a row, and it holds      *)
(* nothing else.                                                           *)
Starts(t, x) ==
  /\ x \in TaskRecord /\ Shape(x)
  /\ x.stage \in {"post", "patch", "erase", "get", "rows"}
  /\ x.rows = {} /\ x.todo = {} /\ x.live = NoLive
  /\ x.link \in Links => RowsOf(x.link) # {}
  /\ x.known = IF x.op = "list" THEN LinksOf(db) ELSE {}
  /\ Begin(t, x)
  /\ UNCHANGED <<db, core, born, revived, gone>>

LEMMA StartMoves ==
  ASSUME Typed, NEW t \in Tasks, Start(t)
  PROVE  \E x : Starts(t, x)
<1> USE DEF Starts
<1>0. /\ {} \in LinkSets /\ {} \in RowSets /\ NoLive \in CoreState /\ LinksOf(db) \in LinkSets
      /\ 0 \in Limits /\ None \notin Links
  BY NoLiveTyped, LinkSyncAssumption DEF LinkSets, RowSets, LinksOf, Typed, Rows
<1>1. ASSUME NEW m \in Limits, BeginCreate(t, m)
      PROVE  \E x : Starts(t, x)
  <2> DEFINE x == [Idle EXCEPT !.op = "create", !.stage = "post", !.limit = m]
  <2>1. x \in TaskRecord /\ Shape(x) /\ x.rows = {} /\ x.todo = {} /\ x.live = NoLive
        /\ x.link = None /\ x.known = {} /\ x.op = "create" /\ x.stage = "post"
    BY <1>0 DEF Idle, TaskRecord, Ops, Stages, Shape, StageOfOp
  <2> QED BY <1>0, <1>1, <2>1 DEF BeginCreate
<1>2. ASSUME NEW l \in Links, NEW e \in Edits, BeginUpdate(t, l, e)
      PROVE  \E x : Starts(t, x)
  <2> DEFINE x == [Idle EXCEPT !.op = "update", !.stage = "patch", !.link = l, !.edit = e]
  <2>1. x \in TaskRecord /\ Shape(x) /\ x.rows = {} /\ x.todo = {} /\ x.live = NoLive
        /\ x.link = l /\ x.known = {} /\ x.op = "update" /\ x.stage = "patch"
    BY <1>0 DEF Idle, TaskRecord, Ops, Stages, Shape, StageOfOp
  <2> QED BY <1>2, <2>1 DEF BeginUpdate
<1>3. ASSUME NEW l \in Links, BeginDelete(t, l)
      PROVE  \E x : Starts(t, x)
  <2> DEFINE x == [Idle EXCEPT !.op = "delete", !.stage = "erase", !.link = l]
  <2>1. x \in TaskRecord /\ Shape(x) /\ x.rows = {} /\ x.todo = {} /\ x.live = NoLive
        /\ x.link = l /\ x.known = {} /\ x.op = "delete" /\ x.stage = "erase"
    BY <1>0 DEF Idle, TaskRecord, Ops, Stages, Shape, StageOfOp
  <2> QED BY <1>3, <2>1 DEF BeginDelete
<1>4. ASSUME BeginList(t)
      PROVE  \E x : Starts(t, x)
  <2> DEFINE x == [Idle EXCEPT !.op = "list", !.stage = "get", !.known = LinksOf(db)]
  <2>1. x \in TaskRecord /\ Shape(x) /\ x.rows = {} /\ x.todo = {} /\ x.live = NoLive
        /\ x.link = None /\ x.known = LinksOf(db) /\ x.op = "list" /\ x.stage = "get"
    BY <1>0 DEF Idle, TaskRecord, Ops, Stages, Shape, StageOfOp
  <2> QED BY <1>0, <1>4, <2>1 DEF BeginList
<1>5. ASSUME NEW m \in Limits, BeginDeploy(t, m)
      PROVE  \E x : Starts(t, x)
  <2> DEFINE s == IF db = {} THEN "post" ELSE "rows"
             n == IF db = {} THEN m ELSE 0
             x == [Idle EXCEPT !.op = "deploy", !.stage = s, !.limit = n]
  <2>1. s \in {"post", "rows"} /\ n \in Limits
    BY <1>0
  <2>2. Begin(t, x) /\ UNCHANGED <<db, core, born, revived, gone>>
    BY <1>5 DEF BeginDeploy
  <2> HIDE DEF s, n
  <2>3. x \in TaskRecord /\ Shape(x) /\ x.rows = {} /\ x.todo = {} /\ x.live = NoLive
        /\ x.link = None /\ x.known = {} /\ x.op = "deploy" /\ x.stage = s
    BY <1>0, <2>1 DEF Idle, TaskRecord, Ops, Stages, Shape, StageOfOp
  <2> QED BY <1>0, <2>1, <2>2, <2>3
<1> QED BY <1>1, <1>2, <1>3, <1>4, <1>5 DEF Start

LEMMA StartTyped ==
  ASSUME Typed, NEW t \in Tasks, NEW x, Starts(t, x)
  PROVE  /\ \E y : /\ Acts(t, y) /\ Fresh(x, y)
                   /\ y.calm = IF x.op = "deploy" THEN Links \ MetWith(x) ELSE {}
         /\ \A o \in Tasks \ {t} : task'[o].calm = task[o].calm \ Met(x, task[o])
         /\ doubt' \in [Links -> Doubts]
         /\ \A l \in Links :
              doubt'[l] = IF l \in MetWith(x) THEN {"policy", "use"} ELSE doubt[l]
         /\ UNCHANGED <<db, core, born, revived, gone>>
BY ZenonT(60), BeginMoves, BlurTyped DEF Starts

(* What is left of the rows to be done with.                               *)
LEMMA WalkTyping ==
  ASSUME Typed, NEW t \in Tasks, NEW y, Acts(t, Idle) \/ Acts(t, y),
         db' \in RowSets, core' \in CoreState, born' \in LinkSets,
         doubt' \in [Links -> Doubts], revived' \in LinkSets, gone' \in LinkSets
  PROVE  Typed'
BY Typing

-----------------------------------------------------------------------------
(* Every state is well typed, and every operation at a stage of its own.   *)
LEMMA InitTyped == Init => Typed
<1> SUFFICES ASSUME Init PROVE Typed
  OBVIOUS
<1>1. {} \in LinkSets /\ {} \in RowSets /\ {} \in Doubts
  BY DEF LinkSets, RowSets, Doubts
<1>2. task \in [Tasks -> TaskRecord] /\ \A t \in Tasks : Shape(task[t])
  BY IdleTyped DEF Init
<1>3. doubt \in [Links -> Doubts]
  BY <1>1 DEF Init
<1> QED BY <1>1, <1>2, <1>3, NoLiveTyped DEF Init, Typed

LEMMA NextTyped == Typed /\ [Next]_vars => Typed'
<1> SUFFICES ASSUME Typed, [Next]_vars PROVE Typed'
  OBVIOUS
<1> USE DEF LinkSets
<1>0. /\ db \in RowSets /\ core \in CoreState /\ born \in LinkSets
      /\ doubt \in [Links -> Doubts] /\ revived \in LinkSets /\ gone \in LinkSets
  BY DEF Typed
<1>1. ASSUME NEW t \in Tasks, Start(t) PROVE Typed'
  <2>1. PICK x : Starts(t, x)
    BY <1>1, StartMoves
  <2> QED BY <1>0, <2>1, StartTyped, Typing
<1>2. ASSUME NEW t \in Tasks, Proceed(t) PROVE Typed'
  <2>1. CASE CallFails(t)
    BY <1>0, <2>1, CallFailsMoves, Typing
  <2>2. CASE Insert(t)
    BY <1>0, <2>2, InsertMoves, Typing
  <2>3. CASE Patch(t)
    BY <1>0, <2>3, PatchMoves, Typing
  <2>4. CASE Store(t)
    BY <1>0, <2>4, StoreMoves, Typing
  <2>5. CASE Erase(t)
    BY ZenonT(60), <1>0, <2>5, EraseMoves, Typing
  <2>6. CASE Drop(t)
    BY <1>0, <2>6, DropMoves, Typing
  <2>7. CASE Get(t)
    BY <1>0, <2>7, ListGetMoves, DeployGetMoves, Typing
  <2>8. CASE Reread(t)
    BY <1>0, <2>8, RereadMoves, WalkTyping
  <2>9. CASE ReadRows(t)
    BY <1>0, <2>9, ReadRowsMoves, Typing
  <2>10. ASSUME NEW l \in Links, Post(t, l) PROVE Typed'
    <3> DEFINE y == [task[t] EXCEPT !.stage = "insert", !.link = l]
    <3>1. Acts(t, Idle) \/ Acts(t, y)
      BY <2>10, PostMoves
    <3>2. core' \in CoreState /\ born' = born \cup {l} /\ UNCHANGED <<db, doubt, revived, gone>>
      BY <2>10, PostMoves
    <3> HIDE DEF y
    <3> QED BY <1>0, <3>1, <3>2, WalkTyping
  <2>11. ASSUME NEW l \in Links, Import(t, l) PROVE Typed'
    <3> DEFINE y == [task[t] EXCEPT !.known = task[t].known \cup {l}]
    <3>1. Acts(t, y) /\ db' \in RowSets /\ UNCHANGED <<core, born, doubt, revived, gone>>
      BY <2>11, ImportMoves
    <3> HIDE DEF y
    <3> QED BY <1>0, <3>1, Typing
  <2>12. ASSUME NEW l \in Links, Refresh(t, l) PROVE Typed'
    BY <1>0, <2>12, RefreshMoves, WalkTyping
  <2>13. ASSUME NEW r \in task[t].rows, Skip(t, r) PROVE Typed'
    BY <1>0, <2>13, SkipMoves, WalkTyping
  <2>14. ASSUME NEW r \in task[t].rows, MatchFails(t, r) PROVE Typed'
    BY <1>0, <2>14, MatchFailsMoves, WalkTyping
  <2>15. ASSUME NEW r \in task[t].rows, Restore(t, r) PROVE Typed'
    BY <1>0, <2>15, RestoreMoves, WalkTyping
  <2>16. ASSUME NEW r \in task[t].rows, Reapply(t, r) PROVE Typed'
    <3> DEFINE y == [task[t] EXCEPT !.rows = task[t].rows \ {r}]
    <3>1. Acts(t, Idle) \/ Acts(t, y)
      BY <2>16, ReapplyMoves
    <3>2. /\ core' \in CoreState /\ doubt' \in [Links -> Doubts] /\ revived' \in LinkSets
          /\ UNCHANGED <<db, born, gone>>
      BY <2>16, ReapplyMoves
    <3> HIDE DEF y
    <3> QED BY <1>0, <3>1, <3>2, WalkTyping
  <2> QED BY <1>2, <2>1, <2>2, <2>3, <2>4, <2>5, <2>6, <2>7, <2>8, <2>9, <2>10, <2>11,
             <2>12, <2>13, <2>14, <2>15, <2>16 DEF Proceed
<1>3. ASSUME NEW l \in Links, Relay(l) PROVE Typed'
  BY <1>0, <1>3, RelayMoves DEF Typed
<1>4. CASE Wipe
  BY <1>0, <1>4, WipeMoves DEF Typed
<1>5. CASE UNCHANGED vars
  BY <1>5 DEF vars, Typed
<1> QED BY <1>1, <1>2, <1>3, <1>4, <1>5 DEF Next

(* Typed says more than the type invariant of the module.                  *)
LEMMA TypedIsTypeOK == Typed => TypeOK
<1> SUFFICES ASSUME Typed PROVE TypeOK
  OBVIOUS
<1>1. ASSUME NEW t \in Tasks
      PROVE  /\ task[t].op \in Ops /\ task[t].stage \in Stages
             /\ task[t].link \in Links \cup {None}
             /\ task[t].known \subseteq Links /\ task[t].todo \subseteq Links
             /\ task[t].rows \subseteq Rows /\ task[t].live \in CoreState
  BY TaskFields DEF Typed, LinkSets, RowSets
<1> QED BY <1>1 DEF Typed, TypeOK, Ops, Stages, LinkSets, RowSets, Doubts

(* Rows, links of the Core and operations in progress stay well typed,     *)
(* whatever Console and Core do.                                           *)
THEOREM TypeCorrect == Spec => []TypeOK
<1>1. Spec => []Typed
  BY InitTyped, NextTyped, PTL DEF Spec
<1> QED BY <1>1, TypedIsTypeOK, PTL
-----------------------------------------------------------------------------
(* A deleted link stays deleted: what nobody remembers cannot come back.   *)
KnowsIn(x, l) ==
  l = x.link \/ l \in x.known \/ l \in LinksOf(x.rows) \/ x.live[l].there

(* A link that the Core, a row or an operation still has; a deletion has   *)
(* nothing to give back.                                                   *)
Remembered(l) ==
  \/ In(l)
  \/ RowsOf(l) # {}
  \/ \E t \in Tasks : task[t].op # "delete" /\ KnowsIn(task[t], l)

Drawn ==
  /\ \A l \in Links : Remembered(l) => l \in born
  /\ \A t \in Tasks : task[t].link \in Links => task[t].link \in born
  /\ gone \subseteq born /\ revived \subseteq born

Forgotten == \A l \in gone : ~Remembered(l)

LEMMA IdleKnowsNothing == \A l \in Links : ~KnowsIn(Idle, l)
BY NoLiveTyped, LinkSyncAssumption DEF KnowsIn, Idle, LinksOf

LEMMA KeepsKnowledge ==
  ASSUME NEW o, Keeps(o), NEW l
  PROVE  KnowsIn(task'[o], l) <=> KnowsIn(task[o], l)
BY DEF Keeps, KnowsIn, LinksOf

LEMMA Recall ==
  ASSUME Typed, NEW t \in Tasks, NEW y, Acts(t, y), NEW l \in Links,
         core'[l].there => Remembered(l),
         \A r \in db' : r.link = l => Remembered(l),
         y.op # "delete" /\ KnowsIn(y, l) => Remembered(l),
         Remembered(l)'
  PROVE  Remembered(l)
<1>1. CASE core'[l].there
  BY <1>1
<1>2. CASE \E r \in db' : r.link = l
  BY <1>2
<1>3. CASE \E o \in Tasks : task'[o].op # "delete" /\ KnowsIn(task'[o], l)
  <2>1. PICK o \in Tasks : task'[o].op # "delete" /\ KnowsIn(task'[o], l)
    BY <1>3
  <2>2. CASE o = t
    BY <2>1, <2>2 DEF Acts
  <2>3. CASE o # t
    BY <2>1, <2>3, KeepsKnowledge DEF Acts, Keeps, Remembered
  <2> QED BY <2>2, <2>3
<1> QED BY <1>1, <1>2, <1>3 DEF Remembered, In, RowsOf, KnowsIn

(* An operation that keeps or loses what it knew.                          *)
LEMMA RecallIdle ==
  ASSUME Typed, NEW t \in Tasks, NEW y, NEW l \in Links,
         Acts(t, Idle) \/ Acts(t, y),
         core'[l].there => Remembered(l),
         \A r \in db' : r.link = l => Remembered(l),
         y.op # "delete" /\ KnowsIn(y, l) => Remembered(l),
         Remembered(l)'
  PROVE  Remembered(l)
BY Recall, IdleKnowsNothing

LEMMA RemembersOwn ==
  ASSUME NEW t \in Tasks, NEW l, task[t].op # "delete", KnowsIn(task[t], l)
  PROVE  Remembered(l)
BY DEF Remembered

LEMMA RemembersRow ==
  ASSUME NEW r \in db
  PROVE  Remembered(r.link)
BY DEF Remembered, RowsOf

LEMMA RemembersIn ==
  ASSUME NEW l, core[l].there
  PROVE  Remembered(l)
BY DEF Remembered, In

(* Steps that leave the rows and the Core as they are.                     *)
LEMMA RecallQuiet ==
  ASSUME Typed, NEW t \in Tasks, NEW y, NEW l \in Links,
         Acts(t, Idle) \/ Acts(t, y), UNCHANGED <<db, core>>,
         y.op # "delete" /\ KnowsIn(y, l) => Remembered(l),
         Remembered(l)'
  PROVE  Remembered(l)
<1>1. core'[l].there => Remembered(l)
  BY RemembersIn
<1>2. \A r \in db' : r.link = l => Remembered(l)
  BY RemembersRow
<1> QED BY <1>1, <1>2, RecallIdle

(* Steps of a reconciliation that are done with a row.                     *)
LEMMA RecallPass ==
  ASSUME Typed, NEW t \in Tasks, NEW r \in task[t].rows, NEW l \in Links,
         \/ Acts(t, Idle)
         \/ Acts(t, [task[t] EXCEPT !.rows = task[t].rows \ {r}]),
         task[t].op = "deploy",
         \A k \in Links : k # r.link => core'[k] = core[k],
         db' = db, Remembered(l)'
  PROVE  Remembered(l)
<1> DEFINE y == [task[t] EXCEPT !.rows = task[t].rows \ {r}]
<1>1. y.op = "deploy" /\ KnowsIn(y, l) => KnowsIn(task[t], l)
  BY DEF Typed, TaskRecord, KnowsIn, LinksOf
<1>2. y.op # "delete" /\ KnowsIn(y, l) => Remembered(l)
  BY <1>1, RemembersOwn
<1>3. core'[l].there => Remembered(l)
  <2>1. CASE l = r.link
    BY <2>1, RemembersOwn DEF KnowsIn, LinksOf
  <2>2. CASE l # r.link
    BY <2>2, RemembersIn
  <2> QED BY <2>1, <2>2
<1>4. \A x \in db' : x.link = l => Remembered(l)
  BY RemembersRow
<1> HIDE DEF y
<1> QED BY <1>2, <1>3, <1>4, RecallIdle DEF y
(* Only a creation remembers a link that nobody had, and it is a new one.  *)
LEMMA NextRemembers ==
  ASSUME Typed, [Next]_vars, NEW l \in Links, Remembered(l)'
  PROVE  Remembered(l) \/ (l \notin born /\ l \in born')
<1> DEFINE Goal == Remembered(l) \/ (l \notin born /\ l \in born')
<1>1. ASSUME NEW t \in Tasks, Start(t) PROVE Remembered(l)
  <2>1. PICK x : Starts(t, x)
    BY <1>1, StartMoves
  <2>2. PICK y : Acts(t, y) /\ Fresh(x, y)
    BY <2>1, StartTyped
  <2>3. KnowsIn(y, l) => RowsOf(l) # {}
    BY <2>1, <2>2, NoLiveTyped DEF KnowsIn, Fresh, LinksOf, Starts, RowsOf
  <2>4. y.op # "delete" /\ KnowsIn(y, l) => Remembered(l)
    BY <2>3 DEF Remembered
  <2>5. UNCHANGED <<db, core>>
    BY <2>1 DEF Starts
  <2> QED BY <2>2, <2>4, <2>5, RecallQuiet
<1>2. ASSUME NEW t \in Tasks, Proceed(t) PROVE Goal
  <2> DEFINE x == task[t]
  <2>0. x \in TaskRecord /\ Shape(x)
    BY DEF Typed
  <2>1. CASE CallFails(t)
    BY <2>1, CallFailsMoves, RecallQuiet, IdleKnowsNothing
  <2>2. CASE Insert(t)
    <3> DEFINE y == [task[t] EXCEPT !.stage = "rows", !.link = None]
    <3>1. /\ Acts(t, Idle) \/ Acts(t, y)
          /\ core' = core /\ db' = db \cup {Row(x.link, x.limit, TRUE, 0)}
          /\ x.stage = "insert"
      BY <2>2, InsertMoves
    <3>2. y.op # "delete" /\ KnowsIn(y, l) => x.op # "delete" /\ KnowsIn(x, l)
      BY <2>0, LinkSyncAssumption DEF TaskRecord, KnowsIn
    <3>3. x.op # "delete"
      BY <2>0, <3>1 DEF Shape, StageOfOp
    <3>4. \A r \in db' : r.link = l => Remembered(l)
      BY <3>1, <3>3, RemembersRow, RemembersOwn DEF Row, KnowsIn
    <3>5. core'[l].there => Remembered(l)
      BY <3>1, RemembersIn
    <3> HIDE DEF y
    <3> QED BY <3>1, <3>2, <3>4, <3>5, RecallIdle, RemembersOwn
  <2>3. CASE Patch(t)
    <3> DEFINE y == [task[t] EXCEPT !.stage = "store"]
    <3>1. /\ Acts(t, Idle) \/ Acts(t, y)
          /\ db' = db /\ In(x.link) /\ \A k \in Links : k # x.link => core'[k] = core[k]
      BY <2>3, PatchMoves
    <3>2. y.op # "delete" /\ KnowsIn(y, l) => x.op # "delete" /\ KnowsIn(x, l)
      BY <2>0 DEF TaskRecord, KnowsIn
    <3>4. \A r \in db' : r.link = l => Remembered(l)
      BY <3>1, RemembersRow
    <3>5. core'[l].there => Remembered(l)
      BY <3>1, RemembersIn DEF In
    <3> HIDE DEF y
    <3> QED BY <3>1, <3>2, <3>4, <3>5, RecallIdle, RemembersOwn
  <2>4. CASE Store(t)
    <3>1. /\ Acts(t, Idle) /\ core' = core /\ x.edit \in Edits
          /\ db' = {IF r.link = x.link THEN Edited(r, x.edit) ELSE r : r \in db}
      BY <2>4, StoreMoves
    <3>2. \A r \in db : Edited(r, x.edit).link = r.link
      BY <3>1, EditedRow DEF Typed, RowSets
    <3>4. \A r \in db' : r.link = l => Remembered(l)
      BY <3>1, <3>2, RemembersRow
    <3>5. core'[l].there => Remembered(l)
      BY <3>1, RemembersIn
    <3> QED BY <3>1, <3>4, <3>5, Recall, IdleKnowsNothing
  <2>5. CASE Erase(t)
    <3> DEFINE y == [task[t] EXCEPT !.stage = "drop"]
    <3>1. /\ Acts(t, y) /\ db' = db /\ x.stage = "erase"
          /\ \A k \in Links : core'[k] # core[k] => core'[k] = Absent /\ k = task[t].link
      BY <2>5, EraseMoves
    <3>2. y.op = "delete"
      BY <2>0, <3>1 DEF TaskRecord, Shape, StageOfOp
    <3>4. \A r \in db' : r.link = l => Remembered(l)
      BY <3>1, RemembersRow
    <3>5. core'[l].there => Remembered(l)
      BY <3>1, RemembersIn DEF Absent
    <3> HIDE DEF y
    <3> QED BY <3>1, <3>2, <3>4, <3>5, Recall
  <2>6. CASE Drop(t)
    <3>1. Acts(t, Idle) /\ core' = core /\ db' \subseteq db
      BY <2>6, DropMoves
    <3>4. \A r \in db' : r.link = l => Remembered(l)
      BY <3>1, RemembersRow
    <3>5. core'[l].there => Remembered(l)
      BY <3>1, RemembersIn
    <3> QED BY <3>1, <3>4, <3>5, Recall, IdleKnowsNothing
  <2>7. CASE Get(t)
    <3>1. CASE x.op = "list"
      <4> DEFINE y == [task[t] EXCEPT !.live = core, !.stage = "import"]
      <4>1. Acts(t, y) /\ UNCHANGED <<db, core>>
        BY <2>7, <3>1, ListGetMoves
      <4>2. KnowsIn(y, l) => KnowsIn(x, l) \/ core[l].there
        BY <2>0 DEF TaskRecord, KnowsIn
      <4>3. KnowsIn(y, l) => Remembered(l)
        BY <3>1, <4>2, RemembersOwn, RemembersIn
      <4> HIDE DEF y
      <4> QED BY <4>1, <4>3, RecallQuiet
    <3>2. CASE x.op # "list"
      <4> DEFINE y == [task[t] EXCEPT !.live = Policies, !.stage = "match"]
      <4>1. (Acts(t, Idle) \/ Acts(t, y)) /\ x.op = "deploy" /\ UNCHANGED <<db, core>>
        BY <2>7, <3>2, DeployGetMoves
      <4>2. KnowsIn(y, l) => KnowsIn(x, l) \/ core[l].there
        BY <2>0, PoliciesTyped DEF TaskRecord, KnowsIn
      <4>3. KnowsIn(y, l) => Remembered(l)
        BY <4>1, <4>2, RemembersOwn, RemembersIn
      <4> HIDE DEF y
      <4> QED BY <4>1, <4>3, RecallQuiet
    <3> QED BY <3>1, <3>2
  <2>8. CASE Reread(t)
    <3> DEFINE T == {k \in LinksOf(db) : x.live[k].there}
               y == [task[t] EXCEPT !.todo = T, !.known = {}, !.stage = "refresh"]
    <3>1. (Acts(t, Idle) \/ Acts(t, y)) /\ UNCHANGED <<db, core>> /\ x.op = "list"
      BY <2>8, RereadMoves
    <3> HIDE DEF T
    <3>2. KnowsIn(y, l) => KnowsIn(x, l)
      BY <2>0 DEF TaskRecord, KnowsIn
    <3>3. KnowsIn(y, l) => Remembered(l)
      BY <3>1, <3>2, RemembersOwn
    <3> HIDE DEF y
    <3> QED BY <3>1, <3>3, RecallQuiet
  <2>9. CASE ReadRows(t)
    <3> DEFINE y == [task[t] EXCEPT !.rows = db, !.stage = "get"]
    <3>1. Acts(t, y) /\ UNCHANGED <<db, core>> /\ x.op = "deploy"
      BY <2>9, ReadRowsMoves
    <3>2. KnowsIn(y, l) => KnowsIn(x, l) \/ RowsOf(l) # {}
      BY <2>0 DEF TaskRecord, KnowsIn, LinksOf, RowsOf
    <3>3. KnowsIn(y, l) => Remembered(l)
      BY <3>1, <3>2, RemembersOwn DEF Remembered
    <3> HIDE DEF y
    <3> QED BY <3>1, <3>3, RecallQuiet
  <2>10. ASSUME NEW k \in Links, Post(t, k) PROVE Goal
    <3> DEFINE y == [task[t] EXCEPT !.stage = "insert", !.link = k]
    <3>1. /\ Acts(t, Idle) \/ Acts(t, y)
          /\ x.stage = "post" /\ k \notin born /\ born' = born \cup {k}
          /\ \A j \in Links : j # k => core'[j] = core[j]
          /\ db' = db
      BY <2>10, PostMoves
    <3>2. CASE l = k
      BY <3>1, <3>2
    <3>3. CASE l # k
      <4>1. KnowsIn(y, l) => KnowsIn(x, l)
        BY <2>0, <3>3 DEF TaskRecord, KnowsIn
      <4>2. x.op # "delete"
        BY <2>0, <3>1 DEF Shape, StageOfOp
      <4>3. KnowsIn(y, l) => Remembered(l)
        BY <4>1, <4>2, RemembersOwn
      <4>4. \A r \in db' : r.link = l => Remembered(l)
        BY <3>1, RemembersRow
      <4>5. core'[l].there => Remembered(l)
        BY <3>1, <3>3, RemembersIn
      <4> HIDE DEF y
      <4> QED BY <3>1, <4>3, <4>4, <4>5, RecallIdle
    <3> QED BY <3>2, <3>3
  <2>11. ASSUME NEW k \in Links, Import(t, k) PROVE Remembered(l)
    <3> DEFINE y == [task[t] EXCEPT !.known = task[t].known \cup {k}]
               n == Row(k, x.live[k].limit, x.live[k].active, x.live[k].used)
    <3>1. /\ Acts(t, y) /\ core' = core /\ db' = db \cup {n}
          /\ x.op = "list" /\ x.live[k].there
      BY <2>11, ImportMoves
    <3>2. KnowsIn(x, k) /\ n.link = k
      BY <3>1 DEF KnowsIn, Row
    <3>3. KnowsIn(y, l) => KnowsIn(x, l)
      BY <2>0, <3>1 DEF TaskRecord, KnowsIn
    <3> HIDE DEF y, n
    <3>4. \A r \in db' : r.link = l => Remembered(l)
      BY <3>1, <3>2, RemembersRow, RemembersOwn
    <3>5. core'[l].there => Remembered(l)
      BY <3>1, RemembersIn
    <3> QED BY <3>1, <3>3, <3>4, <3>5, Recall, RemembersOwn
  <2>12. ASSUME NEW k \in Links, Refresh(t, k) PROVE Remembered(l)
    <3> DEFINE y == [task[t] EXCEPT !.todo = task[t].todo \ {k}]
    <3>1. /\ Acts(t, Idle) \/ Acts(t, y)
          /\ core' = core /\ x.op = "list" /\ x.live[k] \in CoreLinks
          /\ db' = {IF r.link = k THEN Refreshed(r, x.live[k]) ELSE r : r \in db}
      BY <2>12, RefreshMoves
    <3>2. KnowsIn(y, l) => KnowsIn(x, l)
      BY <2>0 DEF TaskRecord, KnowsIn
    <3>3. \A r \in db : Refreshed(r, x.live[k]).link = r.link
      BY <3>1, RefreshedTyped DEF Typed, RowSets
    <3>4. \A r \in db' : r.link = l => Remembered(l)
      BY <3>1, <3>3, RemembersRow
    <3>5. core'[l].there => Remembered(l)
      BY <3>1, RemembersIn
    <3> HIDE DEF y
    <3> QED BY <3>1, <3>2, <3>4, <3>5, RecallIdle, RemembersOwn
  <2>13. ASSUME NEW r \in task[t].rows, Skip(t, r) PROVE Remembered(l)
    BY <2>13, SkipMoves, RecallPass
  <2>14. ASSUME NEW r \in task[t].rows, MatchFails(t, r) PROVE Remembered(l)
    BY <2>14, MatchFailsMoves, RecallPass
  <2>15. ASSUME NEW r \in task[t].rows, Restore(t, r) PROVE Remembered(l)
    BY <2>15, RestoreMoves, RecallPass
  <2>16. ASSUME NEW r \in task[t].rows, Reapply(t, r) PROVE Remembered(l)
    <3>1. At(t, "match") /\ RowDone(t, r) /\ db' = db
      BY <2>16 DEF Reapply
    <3>2. \A k \in Links : k # r.link => core'[k] = core[k]
      BY <2>16, ReapplyMoves
    <3> QED BY <3>1, <3>2, PassMoves, RecallPass
  <2> QED BY <1>2, <2>1, <2>2, <2>3, <2>4, <2>5, <2>6, <2>7, <2>8, <2>9, <2>10, <2>11,
             <2>12, <2>13, <2>14, <2>15, <2>16 DEF Proceed
<1>3. ASSUME NEW k \in Links, Relay(k) PROVE Remembered(l)
  <2>1. /\ In(k) /\ \A j \in Links : j # k => core'[j] = core[j]
        /\ db' = db /\ task' = task
    BY <1>3, RelayMoves
  <2> QED BY <2>1 DEF Remembered, In, RowsOf, KnowsIn, LinksOf
<1>4. CASE Wipe
  <2>1. (\A k \in Links : core'[k] = Absent) /\ db' = db /\ task' = task
    BY <1>4, WipeMoves
  <2> QED BY <2>1 DEF Remembered, In, RowsOf, KnowsIn, LinksOf, Absent
<1>5. CASE UNCHANGED vars
  BY <1>5 DEF vars, Remembered, In, RowsOf, KnowsIn, LinksOf
<1> QED BY <1>1, <1>2, <1>3, <1>4, <1>5 DEF Next
(* What an operation in progress stays: the same one, about the same link, *)
(* unless it creates one.                                                  *)
Continues(t, y) ==
  \/ y = Idle
  \/ /\ y.op = task[t].op /\ y.calm = task[t].calm /\ y.edit = task[t].edit
     /\ \/ y.link = task[t].link
        \/ task[t].op = "deploy" /\ (y.link \in Links => y.link \in born')
        \/ task[t].op = "create" /\ y.link \notin born /\ y.link \in born'

LEMMA ProceedContinues ==
  ASSUME Typed, NEW t \in Tasks, Proceed(t)
  PROVE  \E y : Acts(t, y) /\ Continues(t, y)
<1> DEFINE x == task[t]
<1>0. x \in TaskRecord
  BY DEF Typed
<1>1. CASE CallFails(t) \/ Store(t) \/ Drop(t)
  BY <1>1, CallFailsMoves, StoreMoves, DropMoves DEF Continues
<1>2. CASE Insert(t)
  <2> DEFINE y == [task[t] EXCEPT !.stage = "rows", !.link = None]
  <2>1. y.op = x.op /\ y.calm = x.calm /\ y.edit = x.edit /\ y.link \notin Links
    BY <1>0, LinkSyncAssumption DEF TaskRecord
  <2>2. Acts(t, Idle) \/ (Acts(t, y) /\ x.op = "deploy")
    BY <1>2, InsertMoves
  <2> HIDE DEF y
  <2> QED BY <2>1, <2>2 DEF Continues
<1>3. CASE Patch(t)
  <2> DEFINE y == [task[t] EXCEPT !.stage = "store"]
  <2>1. y.op = x.op /\ y.calm = x.calm /\ y.edit = x.edit /\ y.link = x.link
    BY <1>0 DEF TaskRecord
  <2>2. Acts(t, Idle) \/ Acts(t, y)
    BY <1>3, PatchMoves
  <2> HIDE DEF y
  <2> QED BY <2>1, <2>2 DEF Continues
<1>5. CASE Erase(t)
  <2> DEFINE y == [task[t] EXCEPT !.stage = "drop"]
  <2>1. y.op = x.op /\ y.calm = x.calm /\ y.edit = x.edit /\ y.link = x.link
    BY <1>0 DEF TaskRecord
  <2>2. Acts(t, y)
    BY <1>5, EraseMoves
  <2> HIDE DEF y
  <2> QED BY <2>1, <2>2 DEF Continues
<1>6. CASE Get(t) /\ x.op = "list"
  <2> DEFINE y == [task[t] EXCEPT !.live = core, !.stage = "import"]
  <2>1. y.op = x.op /\ y.calm = x.calm /\ y.edit = x.edit /\ y.link = x.link
    BY <1>0 DEF TaskRecord
  <2>2. Acts(t, y)
    BY <1>6, ListGetMoves
  <2> HIDE DEF y
  <2> QED BY <2>1, <2>2 DEF Continues
<1>7. CASE Get(t) /\ x.op # "list"
  <2> DEFINE y == [task[t] EXCEPT !.live = Policies, !.stage = "match"]
  <2>1. y.op = x.op /\ y.calm = x.calm /\ y.edit = x.edit /\ y.link = x.link
    BY <1>0 DEF TaskRecord
  <2>2. Acts(t, Idle) \/ Acts(t, y)
    BY <1>7, DeployGetMoves
  <2> HIDE DEF y
  <2> QED BY <2>1, <2>2 DEF Continues
<1>8. CASE Reread(t)
  <2> DEFINE T == {k \in LinksOf(db) : x.live[k].there}
             y == [task[t] EXCEPT !.todo = T, !.known = {}, !.stage = "refresh"]
  <2>1. Acts(t, Idle) \/ Acts(t, y)
    BY <1>8, RereadMoves
  <2> HIDE DEF T
  <2>2. y.op = x.op /\ y.calm = x.calm /\ y.edit = x.edit /\ y.link = x.link
    BY <1>0 DEF TaskRecord
  <2> HIDE DEF y
  <2> QED BY <2>1, <2>2 DEF Continues
<1>9. CASE ReadRows(t)
  <2> DEFINE y == [task[t] EXCEPT !.rows = db, !.stage = "get"]
  <2>1. y.op = x.op /\ y.calm = x.calm /\ y.edit = x.edit /\ y.link = x.link
    BY <1>0 DEF TaskRecord
  <2>2. Acts(t, y)
    BY <1>9, ReadRowsMoves
  <2> HIDE DEF y
  <2> QED BY <2>1, <2>2 DEF Continues
<1>10. ASSUME NEW k \in Links, Post(t, k)
       PROVE  \E y : Acts(t, y) /\ Continues(t, y)
  <2> DEFINE y == [task[t] EXCEPT !.stage = "insert", !.link = k]
  <2>1. y.op = x.op /\ y.calm = x.calm /\ y.edit = x.edit /\ y.link = k
    BY <1>0 DEF TaskRecord
  <2>2. (Acts(t, Idle) \/ Acts(t, y)) /\ k \notin born /\ k \in born' /\ x.stage = "post"
    BY <1>10, PostMoves
  <2>3. x.op \in {"create", "deploy"}
    BY <1>0, <2>2, TaskFields DEF Typed, Shape, StageOfOp, Ops
  <2> HIDE DEF y
  <2> QED BY <2>1, <2>2, <2>3 DEF Continues
<1>11. ASSUME NEW k \in Links, Import(t, k)
       PROVE  \E y : Acts(t, y) /\ Continues(t, y)
  <2> DEFINE y == [task[t] EXCEPT !.known = task[t].known \cup {k}]
  <2>1. y.op = x.op /\ y.calm = x.calm /\ y.edit = x.edit /\ y.link = x.link
    BY <1>0 DEF TaskRecord
  <2>2. Acts(t, y)
    BY <1>11, ImportMoves
  <2> HIDE DEF y
  <2> QED BY <2>1, <2>2 DEF Continues
<1>12. ASSUME NEW k \in Links, Refresh(t, k)
       PROVE  \E y : Acts(t, y) /\ Continues(t, y)
  <2> DEFINE y == [task[t] EXCEPT !.todo = task[t].todo \ {k}]
  <2>1. y.op = x.op /\ y.calm = x.calm /\ y.edit = x.edit /\ y.link = x.link
    BY <1>0 DEF TaskRecord
  <2>2. Acts(t, Idle) \/ Acts(t, y)
    BY <1>12, RefreshMoves
  <2> HIDE DEF y
  <2> QED BY <2>1, <2>2 DEF Continues
<1>13. ASSUME NEW r \in task[t].rows,
              Skip(t, r) \/ MatchFails(t, r) \/ Restore(t, r) \/ Reapply(t, r)
       PROVE  \E y : Acts(t, y) /\ Continues(t, y)
  <2> DEFINE y == [task[t] EXCEPT !.rows = task[t].rows \ {r}]
  <2>1. y.op = x.op /\ y.calm = x.calm /\ y.edit = x.edit /\ y.link = x.link
    BY <1>0 DEF TaskRecord
  <2>2. At(t, "match") /\ RowDone(t, r)
    BY <1>13 DEF Skip, MatchFails, Restore, Reapply
  <2>3. Acts(t, Idle) \/ Acts(t, y)
    BY <2>2, PassMoves
  <2> HIDE DEF y
  <2> QED BY <2>1, <2>3 DEF Continues
<1> QED BY <1>1, <1>2, <1>3, <1>5, <1>6, <1>7, <1>8, <1>9, <1>10, <1>11, <1>12, <1>13
        DEF Proceed

(* The link of an operation is one that has a row when it starts, or the   *)
(* one it has drawn.                                                       *)
LEMMA NextDraws ==
  ASSUME Typed, [Next]_vars, NEW t \in Tasks, task'[t].link \in Links
  PROVE  \/ task'[t].link = task[t].link
         \/ RowsOf(task'[t].link) # {}
         \/ task'[t].link \in born'
<1> DEFINE Goal == \/ task'[t].link = task[t].link
                   \/ RowsOf(task'[t].link) # {}
                   \/ task'[t].link \in born'
<1>0. ASSUME NEW o \in Tasks, NEW y, Acts(o, y), t # o PROVE Goal
  BY <1>0 DEF Acts, Keeps
<1>1. ASSUME NEW o \in Tasks, Start(o) PROVE Goal
  <2>1. PICK x : Starts(o, x)
    BY <1>1, StartMoves
  <2>2. PICK y : Acts(o, y) /\ Fresh(x, y)
    BY <2>1, StartTyped
  <2>3. CASE t = o
    BY <2>1, <2>2, <2>3 DEF Acts, Fresh, Starts
  <2> QED BY <1>0, <2>2, <2>3
<1>2. ASSUME NEW o \in Tasks, Proceed(o) PROVE Goal
  <2>1. PICK y : Acts(o, y) /\ Continues(o, y)
    BY <1>2, ProceedContinues
  <2>2. Idle.link \notin Links
    BY LinkSyncAssumption DEF Idle
  <2>3. CASE t = o
    BY <2>1, <2>2, <2>3 DEF Acts, Continues
  <2> QED BY <1>0, <2>1, <2>3
<1>3. CASE (\E k \in Links : Relay(k)) \/ Wipe \/ UNCHANGED vars
  BY <1>3 DEF Relay, Wipe, vars
<1> QED BY <1>1, <1>2, <1>3 DEF Next

(* A link is forgotten on purpose: nothing but a Drop makes it so.         *)
LEMMA NextForgets ==
  ASSUME Typed, [Next]_vars, NEW l \in gone', l \notin gone
  PROVE  \E t \in Tasks : Drop(t) /\ l = task[t].link
<1>1. ASSUME NEW t \in Tasks, Start(t) PROVE gone' = gone
  BY SMTT(30), <1>1, StartMoves DEF Starts
<1>2. ASSUME NEW t \in Tasks, Proceed(t), ~Drop(t) PROVE gone' = gone
  BY Zenon, <1>2 DEF Proceed, CallFails, Insert, Patch, Store, Erase, Get, Reread, ReadRows, Post,
              Import, Refresh, Skip, MatchFails, Restore, Reapply
<1>3. ASSUME NEW k \in Links, Relay(k) PROVE gone' = gone
  BY <1>3 DEF Relay
<1>4. CASE Wipe
  BY <1>4 DEF Wipe
<1>5. CASE UNCHANGED vars
  BY <1>5 DEF vars
<1>6. PICK t \in Tasks : Drop(t)
  BY <1>1, <1>2, <1>3, <1>4, <1>5 DEF Next
<1> QED BY <1>6, DropMoves

LEMMA NextRevives ==
  ASSUME Typed, [Next]_vars, NEW l \in revived', l \notin revived
  PROVE  \E t \in Tasks : \E r \in task[t].rows : Restore(t, r) /\ l = r.link
<1>1. ASSUME NEW t \in Tasks, Start(t) PROVE revived' = revived
  BY SMTT(30), <1>1, StartMoves DEF Starts
<1>2. ASSUME NEW t \in Tasks, Proceed(t),
             ~\E r \in task[t].rows : Restore(t, r)
      PROVE  revived' \subseteq revived
  BY Zenon, <1>2 DEF Proceed, CallFails, Insert, Patch, Store, Erase, Drop, Get, Reread, ReadRows,
              Post, Import, Refresh, Skip, MatchFails, Reapply
<1>3. ASSUME NEW k \in Links, Relay(k) PROVE revived' = revived
  BY <1>3 DEF Relay
<1>4. CASE Wipe
  BY <1>4 DEF Wipe
<1>5. CASE UNCHANGED vars
  BY <1>5 DEF vars
<1>6. PICK t \in Tasks : \E r \in task[t].rows : Restore(t, r)
  BY <1>1, <1>2, <1>3, <1>4, <1>5 DEF Next
<1>7. PICK r \in task[t].rows : Restore(t, r)
  BY <1>6
<1>8. revived' = IF r.active THEN revived \ {r.link} ELSE revived \cup {r.link}
  BY Zenon, <1>7, RestoreMoves
<1> QED BY <1>7, <1>8

LEMMA NextBorn == Typed /\ [Next]_vars => born \subseteq born'
<1> SUFFICES ASSUME Typed, [Next]_vars PROVE born \subseteq born'
  OBVIOUS
<1>1. ASSUME NEW t \in Tasks, Start(t) PROVE born' = born
  BY <1>1, StartMoves DEF Starts
<1>2. ASSUME NEW t \in Tasks, Proceed(t) PROVE born \subseteq born'
  BY Zenon, <1>2 DEF Proceed, CallFails, Insert, Patch, Store, Erase, Drop, Get, Reread, ReadRows,
              Post, Import, Refresh, Skip, MatchFails, Restore, Reapply
<1> QED BY <1>1, <1>2 DEF Next, Relay, Wipe, vars
LEMMA InitDrawn == Init => Drawn /\ Forgotten
<1> SUFFICES ASSUME Init PROVE Drawn /\ Forgotten
  OBVIOUS
<1>1. /\ db = {} /\ \A l \in Links : ~core[l].there
      /\ \A t \in Tasks : task[t] = Idle
      /\ revived = {} /\ gone = {}
  BY NoLiveTyped DEF Init
<1>2. \A l \in Links : ~Remembered(l)
  BY <1>1, IdleKnowsNothing DEF Remembered, In, RowsOf
<1>3. Idle.link \notin Links
  BY LinkSyncAssumption DEF Idle
<1> QED BY <1>1, <1>2, <1>3 DEF Drawn, Forgotten

LEMMA NextDrawn == Typed /\ Drawn /\ Forgotten /\ [Next]_vars => Drawn' /\ Forgotten'
<1> SUFFICES ASSUME Typed, Drawn, Forgotten, [Next]_vars PROVE Drawn' /\ Forgotten'
  OBVIOUS
<1>1. Typed'
  BY NextTyped
<1>2. born \subseteq born'
  BY NextBorn
<1>3. ASSUME NEW l \in Links, Remembered(l)' PROVE l \in born'
  BY <1>2, <1>3, NextRemembers DEF Drawn
<1>4. ASSUME NEW t \in Tasks, task'[t].link \in Links PROVE task'[t].link \in born'
  BY <1>2, <1>4, NextDraws DEF Drawn, Remembered
<1>5. ASSUME NEW l \in gone' PROVE l \in born' /\ ~Remembered(l)'
  <2>1. l \in Links
    BY <1>1 DEF Typed, LinkSets
  <2>2. CASE l \in gone
    BY <1>2, <2>1, <2>2, NextRemembers DEF Drawn, Forgotten
  <2>3. CASE l \notin gone
    <3>1. PICK t \in Tasks : Drop(t) /\ l = task[t].link
      BY <2>3, <1>5, NextForgets
    <3>2. /\ Acts(t, Idle) /\ core' = core /\ db' = db \ RowsOf(l)
          /\ ~In(l) /\ \A o \in Tasks \ {t} : task[o].op # "delete" => ~Knows(o, l)
      BY <2>3, <3>1, DropMoves
    <3>3. ~\E r \in db' : r.link = l
      BY <3>2 DEF RowsOf
    <3>4. ASSUME NEW o \in Tasks, task'[o].op # "delete" PROVE ~KnowsIn(task'[o], l)
      <4>1. CASE o = t
        BY <2>1, <3>2, <4>1, IdleKnowsNothing DEF Acts
      <4>2. CASE o # t
        <5>1. Keeps(o) /\ ~Knows(o, l)
          BY <3>2, <3>4, <4>2 DEF Acts, Keeps
        <5> QED BY <5>1, KeepsKnowledge DEF Knows, KnowsIn
      <4> QED BY <4>1, <4>2
    <3>5. ~core'[l].there
      BY <3>2 DEF In
    <3>6. ~Remembered(l)'
      BY <3>3, <3>4, <3>5 DEF Remembered, In, RowsOf, KnowsIn
    <3> QED BY <1>2, <2>1, <3>1, <3>6 DEF Drawn
  <2> QED BY <2>2, <2>3
<1>6. ASSUME NEW l \in revived' PROVE l \in born'
  <2>1. CASE l \in revived
    BY <1>2, <2>1 DEF Drawn
  <2>2. CASE l \notin revived
    <3>1. PICK t \in Tasks : \E r \in task[t].rows : Restore(t, r) /\ l = r.link
      BY <1>6, <2>2, NextRevives
    <3>2. PICK r \in task[t].rows : Restore(t, r) /\ l = r.link
      BY <3>1
    <3>3. task[t].op = "deploy" /\ r.link \in Links
      BY <3>2, RestoreMoves
    <3>4. Remembered(l)
      BY <3>2, <3>3, RemembersOwn DEF KnowsIn, LinksOf
    <3> QED BY <1>2, <3>2, <3>3, <3>4 DEF Drawn
  <2> QED BY <2>1, <2>2
<1>7. Drawn'
  BY <1>3, <1>4, <1>5, <1>6 DEF Drawn
<1>8. Forgotten'
  BY <1>5 DEF Forgotten
<1> QED BY <1>7, <1>8

(* A link deleted on both sides, when no listing, provisioning or          *)
(* reconciliation in progress had read it, is never imported or restored.  *)
THEOREM DeletedLinksStayDeleted == Spec => []DeletedStaysDeleted
<1>1. Init => Typed /\ Drawn /\ Forgotten
  BY InitTyped, InitDrawn
<1>2. Typed /\ Drawn /\ Forgotten /\ [Next]_vars => (Typed /\ Drawn /\ Forgotten)'
  BY NextTyped, NextDrawn
<1>3. Forgotten => DeletedStaysDeleted
  BY DEF Forgotten, DeletedStaysDeleted, Remembered
<1> QED BY <1>1, <1>2, <1>3, PTL DEF Spec
-----------------------------------------------------------------------------
(* Operations that meet on a link leave it in doubt, and a reconciliation  *)
(* is undisturbed on the links where it has met nobody.                    *)

Passes(t, r) == Skip(t, r) \/ Restore(t, r) \/ Reapply(t, r)

(* Doubt only grows, except for the policy of a link that settles.         *)
LEMMA DoubtShrinks ==
  ASSUME Typed, [Next]_vars, NEW l \in Links, ~(doubt[l] \subseteq doubt'[l])
  PROVE  \E t \in Tasks : \E r \in task[t].rows :
           /\ Passes(t, r) /\ l = r.link /\ Settles(t, r)
           /\ doubt'[l] = doubt[l] \ {"policy"}
<1>0. doubt[l] \in Doubts
  BY DEF Typed
<1>1. ASSUME NEW t \in Tasks, Start(t) PROVE FALSE
  <2>1. PICK x : Starts(t, x)
    BY <1>1, StartMoves
  <2> QED BY <1>0, <2>1, StartTyped DEF Doubts
<1>2. ASSUME NEW t \in Tasks, Proceed(t), ~\E r \in task[t].rows : Passes(t, r) PROVE FALSE
  <2>1. CASE Patch(t)
    <3>1. Blur({task[t].link}) \/ UNCHANGED doubt
      BY <2>1, PatchMoves
    <3> QED BY <1>0, <3>1, BlurTyped DEF Doubts
  <2>2. CASE ~Patch(t)
    <3>1. doubt' = doubt
      BY <1>2, <2>2 DEF Proceed, Passes, CallFails, Insert, Store, Erase, Drop, Get, Reread,
                        ReadRows, Post, Import, Refresh, MatchFails
    <3> QED BY <3>1
  <2> QED BY <2>1, <2>2
<1>3. ASSUME NEW k \in Links, Relay(k) PROVE FALSE
  BY <1>3 DEF Relay
<1>4. CASE Wipe
  BY <1>4 DEF Wipe
<1>5. CASE UNCHANGED vars
  BY <1>5 DEF vars
<1>6. PICK t \in Tasks : \E r \in task[t].rows : Passes(t, r)
  BY <1>1, <1>2, <1>3, <1>4, <1>5 DEF Next
<1>7. PICK r \in task[t].rows : Passes(t, r)
  BY <1>6
<1>8. At(t, "match") /\ RowDone(t, r) /\ Settle(t, r)
  BY <1>7 DEF Passes, Skip, Restore, Reapply
<1>9. r.link \in Links
  BY <1>8, PassMoves
<1>10. /\ \A k \in Links : k # r.link => doubt'[k] = doubt[k]
       /\ doubt'[r.link] = IF Settles(t, r) THEN doubt[r.link] \ {"policy"} ELSE doubt[r.link]
  BY <1>8, <1>9, SettleMoves
<1>11. l = r.link /\ Settles(t, r)
  BY <1>10
<1> QED BY <1>7, <1>10, <1>11
(* Two operations that clash on a link left both of its doubts.            *)
Apart ==
  \A t, o \in Tasks : t # o => \A l \in Met(task[t], task[o]) : doubt[l] = {"policy", "use"}

(* Where a reconciliation is undisturbed, no listing, no update of the     *)
(* link and no other reconciliation is in progress.                        *)
Quiet(x, l) == x.op \notin {"list", "deploy"} /\ (x.op = "update" => x.link # l)

Undisturbed ==
  \A t \in Tasks : \A l \in task[t].calm :
    task[t].op = "deploy" /\ \A o \in Tasks \ {t} : Quiet(task[o], l)

LEMMA MetSymmetric == ASSUME NEW x, NEW y PROVE Met(x, y) = Met(y, x)
BY DEF Met, Clash

LEMMA MetLinks == ASSUME NEW x, NEW y, NEW l \in Met(x, y)
                  PROVE  l \in Links /\ Clash(x, y) /\ l \in Touched(x) /\ l \in Touched(y)
BY DEF Met, Touched

LEMMA KeepsMeeting ==
  ASSUME NEW o, Keeps(o), NEW z
  PROVE  /\ Met(task'[o], z) = Met(task[o], z)
         /\ \A l : Quiet(task'[o], l) <=> Quiet(task[o], l)
BY DEF Keeps, Met, Clash, Touched, Quiet

LEMMA IdleMeetsNobody == ASSUME NEW z PROVE Met(Idle, z) = {} /\ \A l : Quiet(Idle, l)
BY DEF Met, Touched, Idle, Quiet

(* An operation that goes on meets nobody new: a link it has drawn is one  *)
(* that no other operation is about.                                       *)
LEMMA ContinuesMeeting ==
  ASSUME Typed, Drawn, NEW t \in Tasks, NEW o \in Tasks, NEW y, Continues(t, y)
  PROVE  Met(y, task[o]) \subseteq Met(task[t], task[o])
<1>1. CASE y = Idle
  BY <1>1, IdleMeetsNobody
<1>2. CASE y.op = task[t].op /\ (y.link = task[t].link \/ y.op = "deploy")
  BY <1>2 DEF Met, Clash, Touched
<1>3. CASE y.op = "create" /\ y.link \notin born
  <2>1. ASSUME NEW l \in Met(y, task[o]) PROVE FALSE
    <3>1. task[o].op = "update" /\ l = task[o].link /\ l = y.link /\ l \in Links
      BY <1>3, <2>1, MetLinks DEF Clash, Touched
    <3> QED BY <1>3, <3>1 DEF Drawn
  <2> QED BY <2>1
<1> QED BY <1>1, <1>2, <1>3 DEF Continues

LEMMA QuietMeetsNot ==
  ASSUME NEW x, NEW y, NEW l \in Met(x, y), Quiet(x, l), Quiet(y, l)
  PROVE  FALSE
BY MetLinks DEF Clash, Touched, Quiet

LEMMA DeployMeetsNot ==
  ASSUME NEW x, NEW y, x.op = "deploy", NEW l \in Met(x, y), Quiet(y, l)
  PROVE  FALSE
BY MetLinks DEF Clash, Touched, Quiet

LEMMA InitMeetings == Init => Apart /\ Undisturbed
<1> SUFFICES ASSUME Init PROVE Apart /\ Undisturbed
  OBVIOUS
<1>1. \A t \in Tasks : task[t] = Idle
  BY DEF Init
<1>2. Idle.calm = {}
  BY DEF Idle
<1> QED BY <1>1, <1>2, IdleMeetsNobody DEF Apart, Undisturbed

LEMMA NextUndisturbed ==
  ASSUME Typed, Undisturbed, [Next]_vars
  PROVE  Undisturbed'
<1>0. Typed'
  BY NextTyped
<1>d. \A t \in Tasks : \A l \in task'[t].calm : task'[t].op = "deploy"
  BY <1>0 DEF Typed, Shape
<1>1. ASSUME NEW a \in Tasks, Start(a) PROVE Undisturbed'
  <2>1. PICK x : Starts(a, x)
    BY <1>1, StartMoves
  <2>2. PICK y : /\ Acts(a, y) /\ Fresh(x, y)
                 /\ y.calm = IF x.op = "deploy" THEN Links \ MetWith(x) ELSE {}
    BY <2>1, StartTyped
  <2>3. \A o \in Tasks \ {a} : task'[o].calm = task[o].calm \ Met(x, task[o])
    BY <2>1, StartTyped
  <2>4. ASSUME NEW t \in Tasks, NEW l \in task'[t].calm, NEW o \in Tasks \ {t}
        PROVE  Quiet(task'[o], l)
    <3>0. l \in Links
      BY <1>0, <2>4, TaskFields DEF Typed, LinkSets
    <3>1. CASE t = a
      <4>1. x.op = "deploy" /\ l \notin Met(x, task[o])
        BY <2>2, <2>4, <3>1 DEF Acts, MetWith
      <4>2. Quiet(task[o], l)
        BY <3>0, <4>1 DEF Met, Clash, Touched, Quiet
      <4> QED BY <2>2, <2>4, <3>1, <4>1, <4>2, KeepsMeeting DEF Acts, Fresh
    <3>2. CASE t # a /\ o = a
      <4>1. task[t].op = "deploy" /\ l \notin Met(x, task[t]) /\ Keeps(t)
        BY <2>2, <2>3, <2>4, <3>2 DEF Acts, Undisturbed
      <4>2. Quiet(x, l)
        BY <3>0, <4>1 DEF Met, Clash, Touched, Quiet
      <4> QED BY <2>2, <3>2, <4>1, <4>2 DEF Acts, Fresh, Keeps, Quiet
    <3>3. CASE t # a /\ o # a
      <4>1. l \in task[t].calm /\ Keeps(t) /\ Keeps(o)
        BY <2>2, <2>4, <3>3 DEF Acts, Keeps
      <4> QED BY <4>1, <2>4, KeepsMeeting DEF Keeps, Undisturbed
    <3> QED BY <3>1, <3>2, <3>3
  <2> QED BY <1>d, <2>4 DEF Undisturbed, Quiet
<1>2. ASSUME NEW a \in Tasks, Proceed(a) PROVE Undisturbed'
  <2>1. PICK y : Acts(a, y) /\ Continues(a, y)
    BY <1>2, ProceedContinues
  <2>2. Idle.calm = {}
    BY DEF Idle
  <2>4. ASSUME NEW t \in Tasks, NEW l \in task'[t].calm, NEW o \in Tasks \ {t}
        PROVE  Quiet(task'[o], l)
    <3>1. l \in task[t].calm
      <4>1. CASE t = a
        BY <2>1, <2>2, <2>4, <4>1 DEF Acts, Continues
      <4>2. CASE t # a
        BY <2>1, <2>4, <4>2 DEF Acts, Keeps
      <4> QED BY <4>1, <4>2
    <3>2. task[t].op = "deploy" /\ Quiet(task[o], l)
      BY <2>4, <3>1 DEF Undisturbed
    <3>3. Quiet(task'[o], l)
      <4>1. CASE o = a
        BY <2>1, <3>2, <4>1, IdleMeetsNobody DEF Acts, Continues, Quiet
      <4>2. CASE o # a
        BY <2>1, <2>4, <3>2, <4>2, KeepsMeeting DEF Acts
      <4> QED BY <4>1, <4>2
    <3> QED BY <3>3
  <2> QED BY <1>d, <2>4 DEF Undisturbed, Quiet
<1>3. CASE (\E k \in Links : Relay(k)) \/ Wipe \/ UNCHANGED vars
  <2>1. task' = task
    BY <1>3 DEF Relay, Wipe, vars
  <2> QED BY <2>1 DEF Undisturbed, Quiet
<1> QED BY <1>1, <1>2, <1>3 DEF Next

LEMMA NextApart ==
  ASSUME Typed, Drawn, Undisturbed, Apart, [Next]_vars
  PROVE  Apart'
<1>0. Typed'
  BY NextTyped
<1> SUFFICES ASSUME NEW t \in Tasks, NEW o \in Tasks, t # o,
                    NEW l \in Met(task'[t], task'[o])
             PROVE  doubt'[l] = {"policy", "use"}
  BY DEF Apart, Met, Clash, Touched
<1>l. l \in Links /\ doubt[l] \in Doubts /\ doubt'[l] \in Doubts
  BY <1>0, MetLinks DEF Typed
<1>1. ASSUME NEW a \in Tasks, Start(a) PROVE doubt'[l] = {"policy", "use"}
  <2>1. PICK x : Starts(a, x)
    BY <1>1, StartMoves
  <2>2. PICK y : Acts(a, y) /\ Fresh(x, y)
    BY <2>1, StartTyped
  <2>3. \A z : Met(y, z) = Met(x, z)
    BY <2>2 DEF Fresh, Met, Clash, Touched
  <2>4. CASE t = a
    <3>1. l \in Met(x, task[o])
      BY <2>2, <2>3, <2>4, KeepsMeeting, MetSymmetric DEF Acts
    <3> QED BY <1>l, <2>1, <3>1, StartTyped DEF MetWith
  <2>5. CASE o = a
    <3>1. l \in Met(x, task[t])
      BY <2>2, <2>3, <2>5, KeepsMeeting, MetSymmetric DEF Acts
    <3> QED BY <1>l, <2>1, <3>1, StartTyped DEF MetWith
  <2>6. CASE t # a /\ o # a
    <3>1. Keeps(t) /\ Keeps(o)
      BY <2>2, <2>6 DEF Acts
    <3>2. l \in Met(task[t], task[o])
      BY <3>1, KeepsMeeting, MetSymmetric
    <3>3. doubt[l] = {"policy", "use"}
      BY <3>2 DEF Apart
    <3> QED BY <1>l, <2>1, <3>3, StartTyped
  <2> QED BY <2>4, <2>5, <2>6
<1>2. ASSUME NEW a \in Tasks, Proceed(a) PROVE doubt'[l] = {"policy", "use"}
  <2>1. PICK y : Acts(a, y) /\ Continues(a, y)
    BY <1>2, ProceedContinues
  <2>2. l \in Met(task[t], task[o])
    <3>1. CASE t = a
      <4>1. task'[t] = y /\ Keeps(o)
        BY <2>1, <3>1 DEF Acts
      <4>2. l \in Met(y, task[o])
        BY <4>1, KeepsMeeting, MetSymmetric
      <4> QED BY <2>1, <3>1, <4>2, ContinuesMeeting
    <3>2. CASE o = a
      <4>1. task'[o] = y /\ Keeps(t)
        BY <2>1, <3>2 DEF Acts
      <4>2. l \in Met(y, task[t])
        BY <4>1, KeepsMeeting, MetSymmetric
      <4> QED BY <2>1, <3>2, <4>2, ContinuesMeeting, MetSymmetric
    <3>3. CASE t # a /\ o # a
      <4>1. Keeps(t) /\ Keeps(o)
        BY <2>1, <3>3 DEF Acts
      <4> QED BY <4>1, KeepsMeeting, MetSymmetric
    <3> QED BY <3>1, <3>2, <3>3
  <2>3. doubt[l] = {"policy", "use"}
    BY <2>2 DEF Apart
  <2>4. doubt[l] \subseteq doubt'[l]
    <3> SUFFICES ASSUME ~(doubt[l] \subseteq doubt'[l]) PROVE FALSE
      OBVIOUS
    <3>1. PICK b \in Tasks : \E r \in task[b].rows : l = r.link /\ Settles(b, r)
      BY <1>l, DoubtShrinks
    <3>2. l \in task[b].calm
      BY <3>1 DEF Settles
    <3>3. task[b].op = "deploy" /\ \A c \in Tasks \ {b} : Quiet(task[c], l)
      BY <3>2 DEF Undisturbed
    <3>4. CASE t # b /\ o # b
      BY <2>2, <3>3, <3>4, QuietMeetsNot
    <3>5. CASE t = b
      BY <2>2, <3>3, <3>5, DeployMeetsNot
    <3>6. CASE o = b
      BY <2>2, <3>3, <3>6, DeployMeetsNot, MetSymmetric
    <3> QED BY <3>4, <3>5, <3>6
  <2> QED BY <1>l, <2>3, <2>4 DEF Doubts
<1>3. CASE (\E k \in Links : Relay(k)) \/ Wipe \/ UNCHANGED vars
  <2>1. task' = task /\ doubt' = doubt
    BY <1>3 DEF Relay, Wipe, vars
  <2> QED BY <2>1 DEF Apart
<1> QED BY <1>1, <1>2, <1>3 DEF Next
-----------------------------------------------------------------------------
(* Who else can be about a link that is not in doubt.                      *)
Certain(l) == doubt[l] # {"policy", "use"}

LEMMA UpdateAlone ==
  ASSUME Apart, NEW l \in Links, Certain(l), NEW t \in Tasks,
         task[t].op = "update", task[t].link = l, NEW o \in Tasks \ {t}
  PROVE  Quiet(task[o], l) /\ (task[o].op = "create" => task[o].link # l)
<1>1. l \notin Met(task[t], task[o])
  BY DEF Apart, Certain
<1> QED BY <1>1 DEF Met, Clash, Touched, Quiet

LEMMA ListAlone ==
  ASSUME Apart, NEW l \in Links, Certain(l), NEW t \in Tasks,
         task[t].op = "list", NEW o \in Tasks \ {t}
  PROVE  task[o].op # "deploy" /\ (task[o].op = "update" => task[o].link # l)
<1>1. l \notin Met(task[t], task[o])
  BY DEF Apart, Certain
<1> QED BY <1>1 DEF Met, Clash, Touched

LEMMA DeployAlone ==
  ASSUME Apart, NEW l \in Links, Certain(l), NEW t \in Tasks,
         task[t].op = "deploy", NEW o \in Tasks \ {t}
  PROVE  Quiet(task[o], l)
<1>1. l \notin Met(task[t], task[o])
  BY DEF Apart, Certain
<1> QED BY <1>1 DEF Met, Clash, Touched, Quiet

LEMMA QuietHoldsNothing ==
  ASSUME Typed, NEW o \in Tasks, NEW l \in Links, Quiet(task[o], l)
  PROVE  /\ task[o].rows = {} /\ ~task[o].live[l].there
         /\ task[o].stage \notin {"get", "import", "refresh", "match"}
         /\ task[o].stage \in {"store", "patch"} => task[o].link # l
<1>1. Shape(task[o]) /\ task[o].op \in Ops
  BY TaskFields DEF Typed
<1>2. task[o].op \notin {"list", "deploy"} /\ (task[o].op = "update" => task[o].link # l)
  BY DEF Quiet
<1> QED BY <1>1, <1>2, NoLiveTyped DEF Shape, StageOfOp, Ops

-----------------------------------------------------------------------------
(* No quota comes back.  A row of the link, what a listing has read of it  *)
(* and the rows a reconciliation has read never know more than is counted. *)
RowUse(l, D, c) ==
  c.there /\ (\E r \in D : r.link = l) => \E r \in D : r.link = l /\ r.used <= c.used

ListUse(x, l, c) ==
  x.stage \in {"import", "refresh"} /\ x.live[l].there /\ c.there
    => x.live[l].used <= c.used

PassUse(x, l, D) ==
  \A r \in x.rows : r.link = l /\ (\E s \in D : s.link = l)
                      => \E s \in D : s.link = l /\ s.used <= r.used

(* An update of the use that the Core has and the rows have not.           *)
Resets(x, l) == x.stage = "store" /\ x.link = l /\ "used" \in DOMAIN x.edit

Counted(l) ==
  /\ (\A t \in Tasks : ~Resets(task[t], l)) => RowUse(l, db, core[l])
  /\ \A t \in Tasks : ListUse(task[t], l, core[l]) /\ PassUse(task[t], l, db)

UseInv == \A l \in Links : "use" \notin doubt[l] => Counted(l)

LEMMA UseKept ==
  ASSUME Typed, NEW t \in Tasks, NEW y, Acts(t, y), NEW l \in Links,
         (\A o \in Tasks : ~Resets(task'[o], l)) => RowUse(l, db', core'[l]),
         \A o \in Tasks \ {t} : ListUse(task[o], l, core'[l]) /\ PassUse(task[o], l, db'),
         ListUse(y, l, core'[l]) /\ PassUse(y, l, db')
  PROVE  Counted(l)'
<1>1. ASSUME NEW o \in Tasks PROVE ListUse(task'[o], l, core'[l]) /\ PassUse(task'[o], l, db')
  <2>1. CASE o = t
    BY <2>1 DEF Acts
  <2>2. CASE o # t
    BY <2>2 DEF Acts, Keeps, ListUse, PassUse
  <2> QED BY <2>1, <2>2
<1> QED BY <1>1 DEF Counted, RowUse, ListUse, PassUse, Resets

(* The rows of l are the same, and the Core counts more of it or has it no *)
(* longer.                                                                 *)
SameRows(l)  == \A r : r.link = l => (r \in db' <=> r \in db)
CountsMore(l) == core'[l].there => core[l].there /\ core[l].used <= core'[l].used

LEMMA MoreUse ==
  ASSUME Typed, core' \in CoreState, NEW l \in Links, CountsMore(l), SameRows(l)
  PROVE  /\ RowUse(l, db, core[l]) => RowUse(l, db', core'[l])
         /\ \A o \in Tasks : ListUse(task[o], l, core[l]) => ListUse(task[o], l, core'[l])
         /\ \A x : PassUse(x, l, db) => PassUse(x, l, db')
<1>1. core[l].used \in Nat /\ core'[l].used \in Nat
  BY CoreFields, LinkSyncAssumption DEF Typed
<1>2. \A r \in db : r.used \in Nat
  BY LinkSyncAssumption DEF Typed, RowSets, Rows
<1>3. RowUse(l, db, core[l]) => RowUse(l, db', core'[l])
  <2> SUFFICES ASSUME RowUse(l, db, core[l]), core'[l].there, \E r \in db' : r.link = l
               PROVE  \E r \in db' : r.link = l /\ r.used <= core'[l].used
    BY DEF RowUse
  <2>1. PICK r \in db : r.link = l /\ r.used <= core[l].used
    BY DEF RowUse, SameRows, CountsMore
  <2> QED BY <1>1, <1>2, <2>1 DEF SameRows, CountsMore
<1>4. ASSUME NEW o \in Tasks, ListUse(task[o], l, core[l]) PROVE ListUse(task[o], l, core'[l])
  <2>1. task[o].live[l].used \in Nat
    BY TaskFields, CoreFields, LinkSyncAssumption DEF Typed
  <2> QED BY <1>1, <1>4, <2>1 DEF ListUse, CountsMore
<1>5. ASSUME NEW x, PassUse(x, l, db) PROVE PassUse(x, l, db')
  BY <1>5 DEF PassUse, SameRows
<1> QED BY <1>3, <1>4, <1>5

(* A step that does not touch what is counted of l.                        *)
LEMMA UseFrame ==
  ASSUME Typed, NEW t \in Tasks, NEW y, Acts(t, y) \/ Acts(t, Idle), NEW l \in Links,
         Counted(l), core' \in CoreState, CountsMore(l), SameRows(l), ~Resets(task[t], l),
         ListUse(y, l, core'[l]), PassUse(y, l, db)
  PROVE  Counted(l)'
<1> DEFINE z == task'[t]
<1>1. Acts(t, z)
  BY DEF Acts
<1>2. /\ ListUse(Idle, l, core'[l]) /\ PassUse(Idle, l, db)
  BY DEF ListUse, PassUse, Idle
<1>3. ListUse(z, l, core'[l]) /\ PassUse(z, l, db')
  BY <1>2, MoreUse DEF Acts
<1>4. ASSUME \A o \in Tasks : ~Resets(task'[o], l) PROVE RowUse(l, db', core'[l])
  <2>1. \A o \in Tasks : ~Resets(task[o], l)
    BY <1>1, <1>4 DEF Acts, Keeps, Resets
  <2> QED BY <2>1, MoreUse DEF Counted
<1>5. \A o \in Tasks \ {t} : ListUse(task[o], l, core'[l]) /\ PassUse(task[o], l, db')
  BY MoreUse DEF Counted
<1> QED BY <1>1, <1>3, <1>4, <1>5, UseKept
LEMMA SameUse ==
  ASSUME Typed, NEW l \in Links, core'[l] = core[l]
  PROVE  CountsMore(l)
<1>1. core[l].used \in Nat
  BY CoreFields, LinkSyncAssumption DEF Typed
<1> QED BY <1>1 DEF CountsMore

LEMMA AddedRow ==
  ASSUME NEW n, NEW l, n.link # l, db' = db \cup {n}
  PROVE  SameRows(l)
BY DEF SameRows

LEMMA CreateKeepsUse ==
  ASSUME Typed, Drawn, NEW l \in Links, Counted(l), NEW t \in Tasks,
         \/ CallFails(t) \/ Insert(t)
         \/ \E k \in Links : Post(t, k)
  PROVE  Counted(l)'
<1> DEFINE x == task[t]
<1>0. x \in TaskRecord /\ Shape(x) /\ core \in CoreState
  BY DEF Typed
<1>1. CASE CallFails(t)
  <2>1. Acts(t, Idle) /\ core' = core /\ db' = db /\ x.stage \in {"post", "patch", "get"}
    BY <1>1, CallFailsMoves DEF CallFails
  <2>2. ListUse(Idle, l, core'[l]) /\ PassUse(Idle, l, db)
    BY DEF ListUse, PassUse, Idle
  <2> QED BY <1>0, <2>1, <2>2, SameUse, UseFrame DEF SameRows, Resets
<1>2. CASE Insert(t)
  <2> DEFINE y == [task[t] EXCEPT !.stage = "rows", !.link = None]
             n == Row(x.link, x.limit, TRUE, 0)
  <2>1. /\ Acts(t, Idle) \/ Acts(t, y)
        /\ core' = core /\ db' = db \cup {n} /\ x.stage = "insert"
    BY <1>2, InsertMoves
  <2>2. y.stage = "rows" /\ y.rows = {} /\ n.link = x.link /\ n.used = 0
    BY <1>0, <2>1 DEF TaskRecord, Shape, Row
  <2>3. Idle.stage = "idle" /\ Idle.rows = {}
    BY DEF Idle
  <2> HIDE DEF y, n
  <2>4. ListUse(y, l, core'[l]) /\ \A D : PassUse(y, l, D)
    BY <2>2 DEF ListUse, PassUse
  <2>5. CASE x.link # l
    <3>1. SameRows(l) /\ CountsMore(l) /\ core' \in CoreState
      BY <1>0, <2>1, <2>2, <2>5, SameUse, AddedRow
    <3>2. ~Resets(task[t], l)
      BY <2>1 DEF Resets
    <3> QED BY <2>1, <2>4, <3>1, <3>2, UseFrame
  <2>6. CASE x.link = l
    <3> DEFINE z == task'[t]
    <3>1. Acts(t, z) /\ z \in {y, Idle}
      BY <2>1 DEF Acts
    <3>2. ListUse(z, l, core'[l]) /\ PassUse(z, l, db')
      BY <2>2, <2>3, <3>1 DEF ListUse, PassUse
    <3>3. n \in db' /\ n.link = l /\ n.used = 0
      BY <2>1, <2>2, <2>6
    <3>4. RowUse(l, db', core'[l])
      <4>1. core'[l].used \in Nat
        BY <1>0, <2>1, CoreFields, LinkSyncAssumption
      <4> QED BY <3>3, <4>1 DEF RowUse
    <3>5. ASSUME NEW o \in Tasks PROVE PassUse(task[o], l, db')
      <4>1. \A r \in task[o].rows : r.used \in Nat
        BY TaskFields, LinkSyncAssumption DEF Typed, RowSets, Rows
      <4> QED BY <3>3, <4>1 DEF PassUse
    <3>6. \A o \in Tasks : ListUse(task[o], l, core'[l])
      BY <2>1 DEF Counted
    <3> QED BY <3>1, <3>2, <3>4, <3>5, <3>6, UseKept
  <2> QED BY <2>5, <2>6
<1>3. ASSUME NEW k \in Links, Post(t, k) PROVE Counted(l)'
  <2> DEFINE y == [task[t] EXCEPT !.stage = "insert", !.link = k]
  <2>1. /\ Acts(t, Idle) \/ Acts(t, y)
        /\ x.stage = "post" /\ k \notin born
        /\ core' \in CoreState
        /\ \A j \in Links : j # k => core'[j] = core[j]
        /\ db' = db
    BY <1>3, PostMoves
  <2>2. y.stage = "insert" /\ y.rows = {}
    BY <1>0, <2>1 DEF TaskRecord, Shape
  <2> HIDE DEF y
  <2>3. ListUse(y, l, core'[l]) /\ PassUse(y, l, db)
    BY <2>2 DEF ListUse, PassUse
  <2>4. SameRows(l) /\ ~Resets(task[t], l)
    BY <2>1 DEF SameRows, Resets
  <2>5. CASE l # k
    <3>1. CountsMore(l)
      BY <2>1, <2>5, SameUse
    <3> QED BY <2>1, <2>3, <2>4, <3>1, UseFrame
  <2>6. CASE l = k
    <3>1. ~Remembered(l)
      BY <2>1, <2>6 DEF Drawn
    <3>2. ~\E r \in db' : r.link = l
      BY <2>1, <3>1 DEF Remembered, RowsOf
    <3>3. ASSUME NEW o \in Tasks PROVE ~task[o].live[l].there \/ task[o].op = "delete"
      BY <3>1 DEF Remembered, KnowsIn
    <3>4. ASSUME NEW o \in Tasks PROVE ListUse(task[o], l, core'[l]) /\ PassUse(task[o], l, db')
      BY <3>2, <3>3 DEF ListUse, PassUse, Typed, Shape, StageOfOp
    <3>5. RowUse(l, db', core'[l])
      BY <3>2 DEF RowUse
    <3>6. Acts(t, task'[t]) /\ task'[t] \in {y, Idle}
      BY <2>1 DEF Acts
    <3>7. ListUse(task'[t], l, core'[l]) /\ PassUse(task'[t], l, db')
      BY <2>3, <3>2, <3>6 DEF ListUse, PassUse, Idle
    <3> QED BY <3>4, <3>5, <3>6, <3>7, UseKept
  <2> QED BY <2>5, <2>6
<1> QED BY <1>1, <1>2, <1>3

LEMMA DeleteKeepsUse ==
  ASSUME Typed, NEW l \in Links, Counted(l), NEW t \in Tasks, Erase(t) \/ Drop(t)
  PROVE  Counted(l)'
<1> DEFINE x == task[t]
<1>0. x \in TaskRecord /\ Shape(x) /\ core \in CoreState
  BY DEF Typed
<1>1. CASE Erase(t)
  <2> DEFINE y == [task[t] EXCEPT !.stage = "drop"]
  <2>1. /\ Acts(t, y) /\ db' = db /\ x.stage = "erase" /\ core' \in CoreState
        /\ \A k \in Links : core'[k] # core[k] => core'[k] = Absent /\ k = task[t].link
    BY <1>1, EraseMoves
  <2>2. y.stage = "drop" /\ y.rows = {}
    BY <1>0, <2>1 DEF TaskRecord, Shape
  <2> HIDE DEF y
  <2>3. ListUse(y, l, core'[l]) /\ PassUse(y, l, db)
    BY <2>2 DEF ListUse, PassUse
  <2>4. SameRows(l) /\ ~Resets(task[t], l)
    BY <2>1 DEF SameRows, Resets
  <2>5. CountsMore(l)
    <3>1. CASE core'[l] = core[l]
      BY <3>1, SameUse
    <3>2. CASE core'[l] = Absent
      BY <3>2 DEF CountsMore, Absent
    <3> QED BY <2>1, <3>1, <3>2
  <2> QED BY <2>1, <2>3, <2>4, <2>5, UseFrame
<1>2. CASE Drop(t)
  <2>1. Acts(t, Idle) /\ core' = core /\ db' = db \ RowsOf(x.link) /\ x.stage = "drop"
    BY <1>2, DropMoves
  <2>2. ListUse(Idle, l, core'[l]) /\ PassUse(Idle, l, db) /\ PassUse(Idle, l, db')
    BY DEF ListUse, PassUse, Idle
  <2>3. CASE l # x.link
    <3>1. SameRows(l) /\ CountsMore(l) /\ ~Resets(task[t], l) /\ core' \in CoreState
      BY <1>0, <2>1, <2>3, SameUse DEF SameRows, RowsOf, Resets
    <3> QED BY <2>1, <2>2, <3>1, UseFrame
  <2>4. CASE l = x.link
    <3>1. ~\E r \in db' : r.link = l
      BY <2>1, <2>4 DEF RowsOf
    <3>2. RowUse(l, db', core'[l])
      BY <3>1 DEF RowUse
    <3>3. \A o \in Tasks : ListUse(task[o], l, core'[l]) /\ PassUse(task[o], l, db')
      BY <2>1, <3>1 DEF Counted, PassUse
    <3> QED BY <2>1, <2>2, <3>2, <3>3, UseKept
  <2> QED BY <2>3, <2>4
<1> QED BY <1>1, <1>2
LEMMA UpdateKeepsUse ==
  ASSUME Typed, Apart, NEW l \in Links, Counted(l), NEW t \in Tasks, Patch(t) \/ Store(t),
         "use" \notin doubt'[l], Certain(l)
  PROVE  Counted(l)'
<1> DEFINE x == task[t]
<1>0. x \in TaskRecord /\ Shape(x) /\ core \in CoreState
  BY DEF Typed
<1>1. CASE Patch(t)
  <2> DEFINE y == [task[t] EXCEPT !.stage = "store"]
  <2>1. /\ Acts(t, Idle) \/ Acts(t, y)
        /\ x.stage = "patch" /\ x.link \in Links /\ In(x.link) /\ x.edit \in Edits
        /\ core' \in CoreState
        /\ core'[x.link] = Edited(core[x.link], x.edit)
        /\ \A k \in Links : k # x.link => core'[k] = core[k]
        /\ db' = db
    BY <1>1, PatchMoves
  <2>2. y.stage = "store" /\ y.rows = {} /\ y.link = x.link /\ y.edit = x.edit
    BY <1>0, <2>1 DEF TaskRecord, Shape
  <2>3. l = x.link => Acts(t, y)
    <3>1. Blur({x.link}) => doubt'[x.link] = {"policy", "use"}
      BY <2>1, BlurTyped
    <3> QED BY <1>1, <3>1, PatchMoves
  <2> HIDE DEF y
  <2>4. ListUse(y, l, core'[l]) /\ PassUse(y, l, db)
    BY <2>2 DEF ListUse, PassUse
  <2>5. SameRows(l) /\ ~Resets(task[t], l)
    BY <2>1 DEF SameRows, Resets
  <2>6. CASE l # x.link \/ "used" \notin DOMAIN x.edit
    <3>1. CountsMore(l)
      <4>1. CASE l # x.link
        BY <2>1, <4>1, SameUse
      <4>2. CASE l = x.link /\ "used" \notin DOMAIN x.edit
        <5>1. core[l] \in CoreLinks /\ core[l].used \in Nat
          BY <1>0, CoreFields, LinkSyncAssumption
        <5>2. core'[l].there = core[l].there /\ core'[l].used = core[l].used
          BY <2>1, <4>2, <5>1, EditedLink
        <5> QED BY <5>1, <5>2 DEF CountsMore
      <4> QED BY <2>6, <4>1, <4>2
    <3> QED BY <2>1, <2>4, <2>5, <3>1, UseFrame
  <2>7. CASE l = x.link /\ "used" \in DOMAIN x.edit
    <3>1. task'[t] = y /\ Resets(y, l)
      BY <2>2, <2>3, <2>7 DEF Resets, Acts
    <3>2. ASSUME NEW o \in Tasks \ {t} PROVE ListUse(task[o], l, core'[l])
      <4>1. x.op = "update"
        BY <1>0, <2>1 DEF Shape, StageOfOp
      <4>2. Quiet(task[o], l)
        BY <2>7, <4>1, UpdateAlone
      <4> QED BY <4>2, QuietHoldsNothing DEF ListUse
    <3>3. \A o \in Tasks : PassUse(task[o], l, db')
      BY <2>1 DEF Counted
    <3> QED BY <2>1, <2>3, <2>4, <2>7, <3>1, <3>2, <3>3, UseKept
  <2> QED BY <2>6, <2>7
<1>2. CASE Store(t)
  <2>1. /\ Acts(t, Idle) /\ core' = core /\ x.stage = "store" /\ x.edit \in Edits
        /\ x.link \in Links
        /\ db' = {IF r.link = x.link THEN Edited(r, x.edit) ELSE r : r \in db}
    BY <1>2, StoreMoves
  <2>2. ListUse(Idle, l, core'[l]) /\ PassUse(Idle, l, db) /\ PassUse(Idle, l, db')
    BY DEF ListUse, PassUse, Idle
  <2>3. \A r \in db : /\ Edited(r, x.edit).link = r.link
                      /\ Edited(r, x.edit).used = IF "used" \in DOMAIN x.edit THEN 0 ELSE r.used
                      /\ r.used \in Nat
    BY <2>1, EditedRow, LinkSyncAssumption DEF Typed, RowSets, Rows
  <2>4. CASE l # x.link
    <3>1. SameRows(l)
      BY <2>1, <2>3, <2>4 DEF SameRows
    <3>2. CountsMore(l) /\ ~Resets(task[t], l)
      BY <2>1, <2>4, SameUse DEF Resets
    <3> QED BY <1>0, <2>1, <2>2, <3>1, <3>2, UseFrame
  <2>5. CASE l = x.link
    <3>1. x.op = "update"
      BY <1>0, <2>1 DEF Shape, StageOfOp
    <3>2. ASSUME NEW o \in Tasks \ {t} PROVE Quiet(task[o], l)
      BY <2>5, <3>1, UpdateAlone
    <3>3. ASSUME NEW o \in Tasks \ {t}
          PROVE  /\ ListUse(task[o], l, core'[l]) /\ PassUse(task[o], l, db')
                 /\ ~Resets(task[o], l)
      BY <3>2, QuietHoldsNothing DEF ListUse, PassUse, Resets
    <3>4. \A r \in db : r.link = l => Edited(r, x.edit) \in db'
      BY <2>1, <2>5
    <3>5. core[l].used \in Nat
      BY <1>0, CoreFields, LinkSyncAssumption
    <3>6. CASE "used" \in DOMAIN x.edit
      <4>1. RowUse(l, db', core'[l])
        BY <2>1, <2>3, <3>4, <3>5, <3>6, <2>5 DEF RowUse
      <4> QED BY <2>1, <2>2, <3>3, <4>1, UseKept
    <3>7. CASE "used" \notin DOMAIN x.edit
      <4>1. \A o \in Tasks : ~Resets(task[o], l)
        BY <3>3, <3>7 DEF Resets
      <4>2. RowUse(l, db, core[l])
        BY <4>1 DEF Counted
      <4>3. RowUse(l, db', core'[l])
        BY <2>1, <2>3, <2>5, <3>4, <3>5, <3>7, <4>2 DEF RowUse
      <4> QED BY <2>1, <2>2, <3>3, <4>3, UseKept
    <3> QED BY <3>6, <3>7
  <2> QED BY <2>4, <2>5
<1> QED BY <1>1, <1>2

LEMMA ListKeepsUse ==
  ASSUME Typed, Apart, NEW l \in Links, Counted(l), NEW t \in Tasks, Certain(l),
         \/ Get(t) /\ task[t].op = "list"
         \/ Reread(t)
         \/ \E k \in Links : Import(t, k) \/ Refresh(t, k)
  PROVE  Counted(l)'
<1> DEFINE x == task[t]
<1>0. /\ x \in TaskRecord /\ Shape(x) /\ core \in CoreState
      /\ core[l].used \in Nat /\ x.live[l].used \in Nat
  BY TaskFields, CoreFields, LinkSyncAssumption DEF Typed
<1>a. ASSUME x.op = "list", NEW o \in Tasks, NEW D PROVE PassUse(task[o], l, D)
  <2>1. task[o].op # "deploy"
    BY <1>a, ListAlone
  <2> QED BY <2>1 DEF Typed, Shape, PassUse
<1>b. ASSUME NEW y, y.rows = {}, NEW D PROVE PassUse(y, l, D)
  BY <1>b DEF PassUse
<1>1. CASE Get(t) /\ x.op = "list"
  <2> DEFINE y == [task[t] EXCEPT !.live = core, !.stage = "import"]
  <2>1. Acts(t, y) /\ UNCHANGED <<db, core>> /\ x.stage = "get"
    BY <1>1, ListGetMoves
  <2>2. y.live = core /\ y.rows = {}
    BY <1>0, <1>1 DEF TaskRecord, Shape
  <2> HIDE DEF y
  <2>3. ListUse(y, l, core'[l]) /\ PassUse(y, l, db)
    BY <1>0, <1>b, <2>1, <2>2 DEF ListUse
  <2>4. CountsMore(l) /\ SameRows(l) /\ ~Resets(task[t], l)
    BY <2>1, SameUse DEF SameRows, Resets
  <2> QED BY <1>0, <2>1, <2>3, <2>4, UseFrame
<1>2. CASE Reread(t)
  <2> DEFINE T == {k \in LinksOf(db) : x.live[k].there}
             y == [task[t] EXCEPT !.todo = T, !.known = {}, !.stage = "refresh"]
  <2>1. (Acts(t, Idle) \/ Acts(t, y)) /\ UNCHANGED <<db, core>> /\ x.stage = "import"
    BY <1>2, RereadMoves
  <2> HIDE DEF T
  <2>2. y.live = x.live /\ y.rows = {}
    BY <1>0, <2>1 DEF TaskRecord, Shape
  <2> HIDE DEF y
  <2>3. ListUse(x, l, core[l])
    BY DEF Counted
  <2>4. ListUse(y, l, core'[l]) /\ PassUse(y, l, db)
    BY <1>b, <2>1, <2>2, <2>3 DEF ListUse
  <2>5. CountsMore(l) /\ SameRows(l) /\ ~Resets(task[t], l)
    BY <2>1, SameUse DEF SameRows, Resets
  <2> QED BY <1>0, <2>1, <2>4, <2>5, UseFrame
<1>3. ASSUME NEW k \in Links, Import(t, k) PROVE Counted(l)'
  <2> DEFINE y == [task[t] EXCEPT !.known = task[t].known \cup {k}]
             n == Row(k, x.live[k].limit, x.live[k].active, x.live[k].used)
  <2>1. /\ Acts(t, y) /\ core' = core /\ db' = db \cup {n}
        /\ x.op = "list" /\ x.live[k].there /\ x.stage = "import"
    BY <1>3, ImportMoves
  <2>2. y.live = x.live /\ y.rows = {} /\ y.stage = "import"
    BY <1>0, <2>1 DEF TaskRecord, Shape
  <2>3. n.link = k /\ n.used = x.live[k].used
    BY DEF Row
  <2> HIDE DEF y, n
  <2>4. ListUse(x, l, core[l])
    BY DEF Counted
  <2>5. ListUse(y, l, core'[l])
    BY <2>1, <2>2, <2>4 DEF ListUse
  <2>6. \A o \in Tasks : ListUse(task[o], l, core'[l]) /\ PassUse(task[o], l, db')
    BY <1>a, <2>1 DEF Counted
  <2>7. ASSUME \A o \in Tasks : ~Resets(task'[o], l) PROVE RowUse(l, db', core'[l])
    <3>1. CASE l = k
      BY <2>1, <2>3, <2>4, <3>1 DEF RowUse, ListUse
    <3>2. CASE l # k
      <4>1. \A o \in Tasks : ~Resets(task[o], l)
        BY <2>1, <2>7 DEF Acts, Keeps, Resets
      <4>2. RowUse(l, db, core[l])
        BY <4>1 DEF Counted
      <4> QED BY <2>1, <2>3, <3>2, <4>2 DEF RowUse
    <3> QED BY <3>1, <3>2
  <2> QED BY <1>b, <2>1, <2>2, <2>5, <2>6, <2>7, UseKept
<1>4. ASSUME NEW k \in Links, Refresh(t, k) PROVE Counted(l)'
  <2> DEFINE y == [task[t] EXCEPT !.todo = task[t].todo \ {k}]
             z == task'[t]
  <2>1. /\ Acts(t, Idle) \/ Acts(t, y)
        /\ core' = core /\ x.op = "list" /\ x.live[k] \in CoreLinks /\ x.live[k].there
        /\ x.stage = "refresh"
        /\ db' = {IF r.link = k THEN Refreshed(r, x.live[k]) ELSE r : r \in db}
    BY <1>4, RefreshMoves
  <2>2. y.live = x.live /\ y.rows = {} /\ y.stage = "refresh"
    BY <1>0, <2>1 DEF TaskRecord, Shape
  <2> HIDE DEF y
  <2>3. \A r \in db : /\ Refreshed(r, x.live[k]).link = r.link
                      /\ Refreshed(r, x.live[k]).used = x.live[k].used
    BY <2>1, RefreshedTyped DEF Typed, RowSets
  <2>4. ListUse(x, l, core[l])
    BY DEF Counted
  <2>5. Acts(t, z) /\ ListUse(z, l, core'[l]) /\ z.rows = {}
    BY <2>1, <2>2, <2>4 DEF ListUse, Acts, Idle
  <2>6. \A o \in Tasks : ListUse(task[o], l, core'[l]) /\ PassUse(task[o], l, db')
    BY <1>a, <2>1 DEF Counted
  <2>7. ASSUME \A o \in Tasks : ~Resets(task'[o], l) PROVE RowUse(l, db', core'[l])
    <3>1. CASE l = k
      <4>1. \A r \in db' : r.link = l => r.used = x.live[l].used
        BY <2>1, <2>3, <3>1
      <4> QED BY <2>1, <2>4, <3>1, <4>1 DEF RowUse, ListUse
    <3>2. CASE l # k
      <4>1. \A o \in Tasks : ~Resets(task[o], l)
        BY <2>1, <2>5, <2>7 DEF Acts, Keeps, Resets
      <4>2. RowUse(l, db, core[l])
        BY <4>1 DEF Counted
      <4>3. SameRows(l)
        BY <2>1, <2>3, <3>2 DEF SameRows
      <4> QED BY <2>1, <4>2, <4>3 DEF RowUse, SameRows
    <3> QED BY <3>1, <3>2
  <2> QED BY <1>b, <2>5, <2>6, <2>7, UseKept
<1> QED BY <1>1, <1>2, <1>3, <1>4
LEMMA DeployKeepsUse ==
  ASSUME Typed, Apart, NEW l \in Links, Counted(l), NEW t \in Tasks, Certain(l),
         \/ Get(t) /\ task[t].op # "list"
         \/ ReadRows(t)
         \/ \E r \in task[t].rows : Passes(t, r) \/ MatchFails(t, r)
  PROVE  Counted(l)'
<1> DEFINE x == task[t]
<1>0. x \in TaskRecord /\ Shape(x) /\ core \in CoreState /\ core[l].used \in Nat
  BY CoreFields, LinkSyncAssumption DEF Typed
<1>1. CASE Get(t) /\ x.op # "list"
  <2> DEFINE y == [task[t] EXCEPT !.live = Policies, !.stage = "match"]
  <2>1. (Acts(t, Idle) \/ Acts(t, y)) /\ UNCHANGED <<db, core>> /\ x.stage = "get"
    BY <1>1, DeployGetMoves
  <2>2. y.stage = "match" /\ y.rows = x.rows
    BY <1>0, <1>1 DEF TaskRecord
  <2> HIDE DEF y
  <2>3. ListUse(y, l, core'[l]) /\ PassUse(y, l, db)
    BY <2>2 DEF ListUse, PassUse, Counted
  <2>4. CountsMore(l) /\ SameRows(l) /\ ~Resets(task[t], l)
    BY <2>1, SameUse DEF SameRows, Resets
  <2> QED BY <1>0, <2>1, <2>3, <2>4, UseFrame
<1>2. CASE ReadRows(t)
  <2> DEFINE y == [task[t] EXCEPT !.rows = db, !.stage = "get"]
  <2>1. Acts(t, y) /\ UNCHANGED <<db, core>> /\ x.stage = "rows"
    BY <1>2, ReadRowsMoves
  <2>2. y.stage = "get" /\ y.rows = db
    BY <1>0 DEF TaskRecord
  <2>3. \A r \in db : r.used \in Nat
    BY LinkSyncAssumption DEF Typed, RowSets, Rows
  <2> HIDE DEF y
  <2>4. ListUse(y, l, core'[l]) /\ PassUse(y, l, db)
    BY <2>2, <2>3 DEF ListUse, PassUse
  <2>5. CountsMore(l) /\ SameRows(l) /\ ~Resets(task[t], l)
    BY <2>1, SameUse DEF SameRows, Resets
  <2> QED BY <1>0, <2>1, <2>4, <2>5, UseFrame
<1>3. ASSUME NEW r \in task[t].rows, Passes(t, r) \/ MatchFails(t, r) PROVE Counted(l)'
  <2> DEFINE y == [task[t] EXCEPT !.rows = task[t].rows \ {r}]
             z == task'[t]
  <2>1. At(t, "match") /\ RowDone(t, r) /\ db' = db
    BY Zenon, <1>3 DEF Passes, Skip, Restore, Reapply, MatchFails
  <2>2. /\ Acts(t, Idle) \/ Acts(t, y)
        /\ x.stage = "match" /\ x.op = "deploy" /\ r.link \in Links /\ r \in Rows
    BY <2>1, PassMoves
  <2>3. y.stage = "match" /\ y.rows \subseteq x.rows
    BY <1>0, <2>2 DEF TaskRecord
  <2> HIDE DEF y
  <2>4. \A c : ListUse(y, l, c)
    BY <2>3 DEF ListUse
  <2>5. PassUse(y, l, db)
    BY <2>3 DEF PassUse, Counted
  <2>6. SameRows(l) /\ ~Resets(task[t], l)
    BY <2>1, <2>2 DEF SameRows, Resets
  <2>7. CASE core' \in CoreState /\ CountsMore(l)
    BY <2>2, <2>4, <2>5, <2>6, <2>7, UseFrame
  <2>8. CASE ~Restore(t, r) \/ l # r.link
    <3>1. core' \in CoreState
      BY <1>0, <1>3, RestoreMoves, ReapplyMoves DEF Passes, Skip, MatchFails
    <3>2. CASE Reapply(t, r) /\ l = r.link
      <4>1. In(l) /\ core[l] \in CoreLinks /\ core'[l] = Repaired(core[l], r)
        BY <1>0, <3>2, ReapplyMoves, CoreFields
      <4>2. core'[l].used = core[l].used
        BY <4>1 DEF Repaired, CoreLinks
      <4> QED BY <1>0, <2>7, <3>1, <4>1, <4>2 DEF CountsMore, In
    <3>3. CASE ~Reapply(t, r) \/ l # r.link
      <4>1. core'[l] = core[l]
        <5>1. CASE Restore(t, r)
          BY <2>8, <5>1, RestoreMoves
        <5>2. CASE Reapply(t, r)
          BY <3>3, <5>2, ReapplyMoves
        <5>3. CASE Skip(t, r) \/ MatchFails(t, r)
          BY <5>3 DEF Skip, MatchFails
        <5> QED BY <1>3, <5>1, <5>2, <5>3 DEF Passes
      <4> QED BY <2>7, <3>1, <4>1, SameUse
    <3> QED BY SMTT(30), <3>2, <3>3
  <2>9. CASE Restore(t, r) /\ l = r.link
    <3>1. core'[l] = CoreLink(r.limit, TRUE, r.used)
      BY <2>9, RestoreMoves
    <3>2. core'[l].used = r.used
      BY <3>1 DEF CoreLink
    <3>3. RowUse(l, db', core'[l])
      <4>1. PassUse(x, l, db)
        BY DEF Counted
      <4> QED BY <2>1, <2>9, <3>2, <4>1 DEF RowUse, PassUse
    <3>4. ASSUME NEW o \in Tasks \ {t}
          PROVE  ListUse(task[o], l, core'[l]) /\ PassUse(task[o], l, db')
      <4>1. Quiet(task[o], l)
        BY <2>2, DeployAlone
      <4> QED BY <4>1, QuietHoldsNothing DEF ListUse, PassUse
    <3>5. Acts(t, z) /\ z \in {y, Idle}
      BY <2>2 DEF Acts
    <3>6. ListUse(z, l, core'[l]) /\ PassUse(z, l, db')
      BY <2>1, <2>4, <2>5, <3>5 DEF ListUse, PassUse, Idle
    <3> QED BY <3>3, <3>4, <3>5, <3>6, UseKept
  <2> QED BY SMTT(30), <2>8, <2>9
<1> QED BY <1>1, <1>2, <1>3

LEMMA InitUse == Init => UseInv
<1> SUFFICES ASSUME Init PROVE UseInv
  OBVIOUS
<1>1. db = {} /\ \A t \in Tasks : task[t] = Idle
  BY DEF Init
<1>2. \A l \in Links : \A c : ListUse(Idle, l, c) /\ PassUse(Idle, l, db)
  BY DEF ListUse, PassUse, Idle
<1> QED BY <1>1, <1>2 DEF UseInv, Counted, RowUse

LEMMA NextUse ==
  ASSUME Typed, Drawn, Undisturbed, Apart, UseInv, [Next]_vars
  PROVE  UseInv'
<1> SUFFICES ASSUME NEW l \in Links, "use" \notin doubt'[l] PROVE Counted(l)'
  BY DEF UseInv, Counted, RowUse, ListUse, PassUse, Resets
<1>1. "use" \notin doubt[l]
  BY DoubtShrinks
<1>2. Counted(l) /\ Certain(l)
  BY <1>1 DEF UseInv, Certain
<1>3. ASSUME NEW t \in Tasks, Start(t) PROVE Counted(l)'
  <2>1. PICK x : Starts(t, x)
    BY <1>3, StartMoves
  <2>2. PICK y : Acts(t, y) /\ Fresh(x, y)
    BY <2>1, StartTyped
  <2>3. UNCHANGED <<db, core>> /\ At(t, "idle")
    BY <2>1 DEF Starts, Begin
  <2>4. y.stage \notin {"import", "refresh"} /\ y.rows = {}
    BY <2>1, <2>2 DEF Fresh, Starts
  <2>5. ListUse(y, l, core'[l]) /\ PassUse(y, l, db)
    BY <2>4 DEF ListUse, PassUse
  <2>6. CountsMore(l) /\ SameRows(l) /\ ~Resets(task[t], l) /\ core' \in CoreState
    BY <2>3, SameUse DEF SameRows, Resets, At, Typed
  <2> QED BY <1>2, <2>2, <2>5, <2>6, UseFrame
<1>4. ASSUME NEW t \in Tasks, Proceed(t) PROVE Counted(l)'
  <2>1. CASE CallFails(t) \/ Insert(t) \/ \E k \in Links : Post(t, k)
    BY <1>2, <2>1, CreateKeepsUse
  <2>2. CASE Erase(t) \/ Drop(t)
    BY <1>2, <2>2, DeleteKeepsUse
  <2>3. CASE Patch(t) \/ Store(t)
    BY <1>2, <2>3, UpdateKeepsUse
  <2>4. CASE \/ Get(t) /\ task[t].op = "list"
             \/ Reread(t)
             \/ \E k \in Links : Import(t, k) \/ Refresh(t, k)
    BY <1>2, <2>4, ListKeepsUse
  <2>5. CASE \/ Get(t) /\ task[t].op # "list"
             \/ ReadRows(t)
             \/ \E r \in task[t].rows : Passes(t, r) \/ MatchFails(t, r)
    BY <1>2, <2>5, DeployKeepsUse
  <2> QED BY <1>4, <2>1, <2>2, <2>3, <2>4, <2>5 DEF Proceed, Passes
<1>5. ASSUME core' \in CoreState, CountsMore(l), UNCHANGED <<db, task>> PROVE Counted(l)'
  <2>1. SameRows(l)
    BY <1>5 DEF SameRows
  <2>2. /\ RowUse(l, db, core[l]) => RowUse(l, db', core'[l])
        /\ \A o \in Tasks : ListUse(task[o], l, core[l]) => ListUse(task[o], l, core'[l])
    BY <1>5, <2>1, MoreUse
  <2> QED BY <1>2, <1>5, <2>2 DEF Counted, RowUse, ListUse, PassUse, Resets
<1>6. ASSUME NEW k \in Links, Relay(k) PROVE Counted(l)'
  <2>1. CountsMore(l) /\ core' \in CoreState /\ UNCHANGED <<db, task>>
    <3>1. core[l].used \in Nat
      BY CoreFields, LinkSyncAssumption DEF Typed
    <3> QED BY <1>6, <3>1, RelayMoves DEF CountsMore, In
  <2> QED BY <1>5, <2>1
<1>7. CASE Wipe
  <2>1. CountsMore(l) /\ core' \in CoreState /\ UNCHANGED <<db, task>>
    BY <1>7, WipeMoves DEF CountsMore, Absent
  <2> QED BY <1>5, <2>1
<1>8. CASE UNCHANGED vars
  <2>1. CountsMore(l) /\ core' \in CoreState /\ UNCHANGED <<db, task>>
    BY <1>8, SameUse DEF vars, Typed
  <2> QED BY <1>5, <2>1
<1> QED BY <1>3, <1>4, <1>6, <1>7, <1>8 DEF Next

(* A link that came back after a wipe has at least the use that the        *)
(* Console last recorded, if its row is the only one.                      *)
LEMMA CountedIsEnough == Typed /\ UseInv => UseNotForgotten
<1> SUFFICES ASSUME Typed, UseInv, NEW r \in db,
                    In(r.link), RowsOf(r.link) = {r}, "use" \notin doubt[r.link],
                    \A t \in Tasks : At(t, "store") => task[t].link # r.link
             PROVE  r.used <= core[r.link].used
  BY DEF UseNotForgotten
<1>1. r.link \in Links
  BY DEF Typed, RowSets, Rows
<1>2. \A t \in Tasks : ~Resets(task[t], r.link)
  BY DEF Resets, At
<1>3. RowUse(r.link, db, core[r.link])
  BY <1>1, <1>2 DEF UseInv, Counted
<1>4. \A s \in db : s.link = r.link => s = r
  BY DEF RowsOf
<1> QED BY <1>3, <1>4 DEF RowUse, In

Meetings == Typed /\ Drawn /\ Forgotten /\ Undisturbed /\ Apart

LEMMA InitMeets == Init => Meetings
BY InitTyped, InitDrawn, InitMeetings DEF Meetings

LEMMA NextMeets == Meetings /\ [Next]_vars => Meetings'
BY NextTyped, NextDrawn, NextUndisturbed, NextApart DEF Meetings

(* A wiped state file gives no quota back, however late it is noticed.     *)
THEOREM UseIsNotForgotten == Spec => []UseNotForgotten
<1>1. Init => Meetings /\ UseInv
  BY InitMeets, InitUse
<1>2. Meetings /\ UseInv /\ [Next]_vars => (Meetings /\ UseInv)'
  BY NextMeets, NextUse DEF Meetings
<1>3. Meetings /\ UseInv => UseNotForgotten
  BY CountedIsEnough DEF Meetings
<1> QED BY <1>1, <1>2, <1>3, PTL DEF Spec
-----------------------------------------------------------------------------
(* What an undisturbed reconciliation knows of a link: the rows it has     *)
(* still to look at are as it read them, and the policy of the Core too,   *)
(* unless it has dealt with another row of the link.                       *)
SamePolicy(x, y) == x.limit = y.limit /\ x.active = y.active

LEMMA PolicyFields == ASSUME NEW x, NEW y PROVE Policy(x) = Policy(y) <=> SamePolicy(x, y)
BY DEF Policy, SamePolicy

CalmTask(x, l, D, c) ==
  /\ \A r \in x.rows : r.link = l => r \in D
  /\ /\ x.stage = "match" /\ x.live[l].there /\ c.there
     /\ \E r \in x.rows : r.link = l
     => \/ SamePolicy(c, x.live[l])
        \/ \E s \in D : s.link = l /\ s \notin x.rows

CalmRows == \A t \in Tasks : \A l \in task[t].calm : CalmTask(task[t], l, db, core[l])

(* What no other operation does to an undisturbed link.                    *)
LeavesRows(l) == \A r \in db : r.link = l => r \in db'
LeavesPolicy(l) == core'[l].there => core[l].there /\ SamePolicy(core'[l], core[l])

LEMMA OthersLeaveCalm ==
  ASSUME Typed, Drawn, Undisturbed, NEW a \in Tasks, Proceed(a), NEW t \in Tasks, t # a,
         NEW l \in task'[t].calm, \E r \in task[t].rows : r.link = l
  PROVE  LeavesRows(l) /\ LeavesPolicy(l)
<1> USE DEF LeavesRows, LeavesPolicy, SamePolicy
<1> DEFINE x == task[a]
<1>0. Typed'
  BY NextTyped DEF Next
<1>1. PICK y : Acts(a, y)
  BY ProceedContinues
<1>2. Keeps(t) /\ l \in task[t].calm /\ l \in Links
  BY <1>0, <1>1, TaskFields DEF Acts, Keeps, Typed, LinkSets
<1>3. Quiet(x, l) /\ task[t].op = "deploy"
  BY <1>2 DEF Undisturbed
<1>4. x.op \notin {"list", "deploy"} /\ (x.op = "update" => x.link # l) /\ Shape(x)
  BY <1>3 DEF Quiet, Typed
<1>5. Remembered(l)
  BY <1>3, RemembersOwn DEF KnowsIn, LinksOf
<1>6. CASE CallFails(a)
  BY <1>6, CallFailsMoves
<1>7. CASE Insert(a)
  BY <1>7, InsertMoves
<1>8. CASE Patch(a)
  <2>1. x.link # l
    BY <1>4, <1>8, PatchMoves DEF Shape, StageOfOp
  <2> QED BY <1>2, <1>8, <2>1, PatchMoves
<1>9. CASE Store(a)
  <2>1. x.link # l
    BY <1>4, <1>9, StoreMoves DEF Shape, StageOfOp
  <2> QED BY <1>2, <1>9, <2>1, StoreMoves
<1>10. CASE Erase(a)
  <2>1. db' = db /\ (core'[l] # core[l] => core'[l] = Absent)
    BY <1>2, <1>10, EraseMoves
  <2> QED BY <2>1 DEF Absent
<1>11. CASE Drop(a)
  <2>1. core' = core /\ db' = db \ RowsOf(x.link) /\ task'[t].calm = task[t].calm \ {x.link}
    BY <1>11, DropMoves
  <2>2. l # x.link
    BY <2>1
  <2> QED BY <2>1, <2>2 DEF RowsOf
<1>12. ASSUME NEW k \in Links, Post(a, k) PROVE LeavesRows(l) /\ LeavesPolicy(l)
  <2>1. l # k
    BY <1>2, <1>5, <1>12, PostMoves DEF Drawn
  <2> QED BY ZenonT(60), <1>2, <1>12, <2>1, PostMoves
<1>13. CASE \/ Get(a) \/ Reread(a) \/ ReadRows(a)
            \/ \E k \in Links : Import(a, k) \/ Refresh(a, k)
            \/ \E r \in task[a].rows : Passes(a, r) \/ MatchFails(a, r)
  <2>1. x.stage \in {"get", "import", "rows", "refresh", "match"}
    BY Zenon, <1>13 DEF Get, Reread, ReadRows, Import, Refresh, Passes, Skip, Restore, Reapply,
                 MatchFails, At
  <2> QED BY <1>4, <2>1, TaskFields DEF Shape, StageOfOp, Typed, Ops
<1> QED BY <1>6, <1>7, <1>8, <1>9, <1>10, <1>11, <1>12, <1>13 DEF Proceed, Passes

LEMMA CalmKept ==
  ASSUME NEW x, NEW l, CalmTask(x, l, db, core[l]), LeavesRows(l), LeavesPolicy(l)
  PROVE  CalmTask(x, l, db', core'[l])
BY DEF CalmTask, LeavesRows, LeavesPolicy, SamePolicy

LEMMA NoRowsCalm ==
  ASSUME NEW x, NEW l, NEW D, NEW c, ~\E r \in x.rows : r.link = l
  PROVE  CalmTask(x, l, D, c)
BY DEF CalmTask

LEMMA KeepsCalm ==
  ASSUME NEW o, Keeps(o), NEW l, NEW D, NEW c, CalmTask(task[o], l, D, c)
  PROVE  CalmTask(task'[o], l, D, c)
BY DEF Keeps, CalmTask

(* The steps of the reconciliation itself.                                 *)
LEMMA OwnCalm ==
  ASSUME Typed, CalmRows, NEW t \in Tasks, Proceed(t), NEW l \in task'[t].calm
  PROVE  CalmTask(task'[t], l, db', core'[l])
<1> DEFINE x == task[t]
<1>0. x \in TaskRecord /\ Shape(x) /\ Typed'
  BY NextTyped DEF Typed, Next
<1>1. PICK w : Acts(t, w) /\ Continues(t, w)
  BY ProceedContinues
<1>2. l \in x.calm /\ l \in Links /\ task'[t] # Idle /\ task'[t].op = x.op /\ x.op = "deploy"
  <2>1. task'[t] # Idle
    BY DEF Idle
  <2>2. l \in x.calm /\ task'[t].op = x.op
    BY <1>1, <2>1 DEF Acts, Continues
  <2> QED BY <1>0, <2>1, <2>2, TaskFields DEF Shape, LinkSets
<1>3. CalmTask(x, l, db, core[l])
  BY <1>2 DEF CalmRows
<1>4. CASE task'[t].rows = {}
  BY <1>4, NoRowsCalm
<1>5. CASE Get(t)
  <2> DEFINE y == [task[t] EXCEPT !.live = Policies, !.stage = "match"]
  <2>1. Acts(t, y) /\ UNCHANGED <<db, core>>
    BY <1>2, <1>5, DeployGetMoves DEF Acts
  <2>2. y.live = Policies /\ y.rows = x.rows
    BY <1>0 DEF TaskRecord
  <2>3. SamePolicy(core[l], Policies[l])
    BY <1>2, PoliciesTyped, PolicyFields
  <2> HIDE DEF y
  <2> QED BY <1>3, <2>1, <2>2, <2>3 DEF Acts, CalmTask
<1>6. CASE ReadRows(t)
  <2> DEFINE y == [task[t] EXCEPT !.rows = db, !.stage = "get"]
  <2>1. Acts(t, y) /\ UNCHANGED <<db, core>>
    BY <1>6, ReadRowsMoves
  <2>2. y.stage = "get" /\ y.rows = db
    BY <1>0 DEF TaskRecord
  <2> HIDE DEF y
  <2> QED BY <2>1, <2>2 DEF Acts, CalmTask
<1>7. ASSUME NEW r \in task[t].rows, Passes(t, r) \/ MatchFails(t, r)
      PROVE  CalmTask(task'[t], l, db', core'[l])
  <2> DEFINE y == [task[t] EXCEPT !.rows = task[t].rows \ {r}]
  <2>1. At(t, "match") /\ RowDone(t, r) /\ db' = db
    BY <1>7 DEF Passes, Skip, Restore, Reapply, MatchFails
  <2>2. Acts(t, y) /\ r.link \in Links
    BY <1>2, <2>1, PassMoves DEF Acts
  <2>3. y.rows = x.rows \ {r} /\ y.live = x.live /\ y.stage = x.stage
    BY <1>0 DEF TaskRecord
  <2> HIDE DEF y
  <2>4. CASE core'[l] = core[l]
    <3>1. CalmTask(y, l, db, core[l])
      BY <1>3, <2>3 DEF CalmTask
    <3> QED BY <2>1, <2>2, <2>4, <3>1 DEF Acts, CalmTask
  <2>5. CASE l # r.link \/ Skip(t, r) \/ MatchFails(t, r)
    <3>1. core'[l] = core[l]
      <4>1. CASE Restore(t, r) /\ l # r.link
        BY <1>2, <4>1, RestoreMoves
      <4>2. CASE Reapply(t, r) /\ l # r.link
        BY <1>2, <4>2, ReapplyMoves
      <4>3. CASE Skip(t, r) \/ MatchFails(t, r)
        BY <4>3 DEF Skip, MatchFails
      <4> QED BY <1>7, <2>5, <4>1, <4>2, <4>3 DEF Passes
    <3> QED BY <2>4, <3>1
  <2>6. CASE l = r.link /\ Restore(t, r)
    <3>1. ~x.live[l].there
      BY <2>6, RestoreMoves
    <3> QED BY <1>3, <2>1, <2>2, <2>3, <3>1 DEF Acts, CalmTask
  <2>7. CASE l = r.link /\ Reapply(t, r)
    <3>1. r \in db /\ r \notin y.rows
      BY <1>3, <2>3, <2>7 DEF CalmTask
    <3> QED BY <1>3, <2>1, <2>2, <2>3, <2>7, <3>1 DEF Acts, CalmTask
  <2> QED BY <1>7, <2>5, <2>6, <2>7 DEF Passes
<1>8. CASE \/ CallFails(t) \/ Insert(t) \/ Patch(t) \/ Store(t) \/ Erase(t) \/ Drop(t)
           \/ \E k \in Links : Post(t, k)
  <2>1. x.stage \notin {"get", "match", "rows"} \/ CallFails(t)
    BY <1>8 DEF Insert, Patch, Store, Erase, Drop, Post, At
  <2>2. x.stage \in {"post", "insert"}
    BY <1>0, <1>2, <2>1, CallFailsMoves DEF Shape, StageOfOp, Acts
  <2>3. CASE Insert(t)
    <3> DEFINE y == [task[t] EXCEPT !.stage = "rows", !.link = None]
    <3>1. Acts(t, y)
      BY <1>2, <2>3, InsertMoves DEF Acts
    <3>2. y.rows = x.rows /\ x.rows = {}
      BY <1>0, <2>2 DEF TaskRecord, Shape
    <3> HIDE DEF y
    <3> QED BY <1>4, <3>1, <3>2 DEF Acts
  <2>4. ASSUME NEW k \in Links, Post(t, k) PROVE task'[t].rows = {}
    <3> DEFINE y == [task[t] EXCEPT !.stage = "insert", !.link = k]
    <3>1. Acts(t, y)
      BY <1>2, <2>4, PostMoves DEF Acts
    <3>2. y.rows = x.rows /\ x.rows = {}
      BY <1>0, <2>2 DEF TaskRecord, Shape
    <3> HIDE DEF y
    <3> QED BY <3>1, <3>2 DEF Acts
  <2>5. CASE CallFails(t)
    BY <1>2, <2>5, CallFailsMoves DEF Acts
  <2>6. CASE Patch(t) \/ Store(t) \/ Erase(t) \/ Drop(t)
    BY <2>2, <2>6 DEF Patch, Store, Erase, Drop, At
  <2> QED BY <1>4, <1>8, <2>3, <2>4, <2>5, <2>6
<1>9. CASE Reread(t) \/ \E k \in Links : Import(t, k) \/ Refresh(t, k)
  BY <1>2, <1>9, RereadMoves, ImportMoves, RefreshMoves
<1> QED BY <1>5, <1>6, <1>7, <1>8, <1>9 DEF Proceed, Passes

LEMMA NextCalm ==
  ASSUME Meetings, CalmRows, [Next]_vars
  PROVE  CalmRows'
<1> USE DEF Meetings
<1>1. ASSUME NEW a \in Tasks, Start(a), NEW t \in Tasks, NEW l \in task'[t].calm
      PROVE  CalmTask(task'[t], l, db', core'[l])
  <2>1. PICK x : Starts(a, x)
    BY <1>1, StartMoves
  <2>2. PICK y : Acts(a, y) /\ Fresh(x, y)
    BY <2>1, StartTyped
  <2>3. UNCHANGED <<db, core>>
    BY <2>1 DEF Starts
  <2>4. CASE t = a
    BY <2>2, <2>4, NoRowsCalm DEF Acts, Fresh
  <2>5. CASE t # a
    <3>1. Keeps(t) /\ l \in task[t].calm
      BY <1>1, <2>2, <2>5 DEF Acts, Keeps
    <3>2. CalmTask(task[t], l, db, core[l])
      BY <3>1 DEF CalmRows
    <3> QED BY <2>3, <3>1, <3>2, KeepsCalm
  <2> QED BY <2>4, <2>5
<1>2. ASSUME NEW a \in Tasks, Proceed(a), NEW t \in Tasks, NEW l \in task'[t].calm
      PROVE  CalmTask(task'[t], l, db', core'[l])
  <2>1. PICK y : Acts(a, y)
    BY <1>2, ProceedContinues
  <2>2. CASE t = a
    BY <1>2, <2>2, OwnCalm
  <2>3. CASE t # a
    <3>1. Keeps(t) /\ l \in task[t].calm
      BY <1>2, <2>1, <2>3 DEF Acts, Keeps
    <3>2. CalmTask(task[t], l, db, core[l])
      BY <3>1 DEF CalmRows
    <3>3. CASE \E r \in task[t].rows : r.link = l
      <4>1. LeavesRows(l) /\ LeavesPolicy(l)
        BY <1>2, <2>3, <3>3, OthersLeaveCalm
      <4> QED BY <3>1, <3>2, <4>1, CalmKept, KeepsCalm
    <3>4. CASE ~\E r \in task[t].rows : r.link = l
      BY <3>1, <3>4, NoRowsCalm DEF Keeps
    <3> QED BY <3>3, <3>4
  <2> QED BY <2>2, <2>3
<1>3. ASSUME UNCHANGED <<task, db>>, \A l \in Links : LeavesPolicy(l) PROVE CalmRows'
  <2>1. ASSUME NEW t \in Tasks, NEW l \in task[t].calm
        PROVE  CalmTask(task[t], l, db, core'[l])
    <3>1. l \in Links
      BY TaskFields DEF Typed, LinkSets
    <3>2. CalmTask(task[t], l, db, core[l])
      BY DEF CalmRows
    <3> QED BY <1>3, <3>1, <3>2, CalmKept DEF LeavesRows
  <2> QED BY <1>3, <2>1 DEF CalmRows, CalmTask
<1>4. ASSUME NEW k \in Links, Relay(k) PROVE CalmRows'
  <2>1. \A l \in Links : LeavesPolicy(l)
    <3>1. SamePolicy(core'[k], core[k]) /\ core[k].there
      BY <1>4, RelayMoves, PolicyFields DEF In
    <3> QED BY <1>4, <3>1, RelayMoves DEF LeavesPolicy, SamePolicy
  <2> QED BY <1>3, <1>4, <2>1, RelayMoves
<1>5. CASE Wipe
  BY <1>3, <1>5, WipeMoves DEF LeavesPolicy, Absent
<1>6. CASE UNCHANGED vars
  BY <1>3, <1>6 DEF vars, LeavesPolicy, SamePolicy
<1>7. ASSUME NEW a \in Tasks, Start(a) \/ Proceed(a) PROVE CalmRows'
  BY <1>1, <1>2, <1>7 DEF CalmRows, CalmTask
<1> QED BY <1>4, <1>5, <1>6, <1>7 DEF Next

LEMMA InitCalm == Init => CalmRows
BY DEF Init, CalmRows, Idle

-----------------------------------------------------------------------------
(* Where the policy of a link is not in doubt, all its rows have one       *)
(* policy p and the Core, if it has the link, one policy q; they differ    *)
(* only by what an update has still to store, or by the flag of a link     *)
(* that a reconciliation has revived.                                      *)
PolicyRecord == [limit : Limits, active : BOOLEAN]

Writes(x, l, f) == x.stage = "store" /\ x.link = l /\ f \in DOMAIN x.edit

Inserts(x, l) == x.stage = "insert" /\ x.link = l

(* What an operation holds of the policies, with the Core having the link  *)
(* or not, the revived links and the rows.                                 *)
TaskAgrees(x, l, p, q, there, rv, D) ==
  /\ Inserts(x, l) => p.limit = x.limit /\ p.active = TRUE /\ l \notin rv
  /\ Writes(x, l, "limit") => q.limit = x.edit["limit"]
  /\ Writes(x, l, "active") => q.active = x.edit["active"]
  /\ x.stage \in {"import", "refresh"} /\ x.live[l].there => SamePolicy(x.live[l], q)
  /\ /\ x.op = "list" /\ x.stage \in {"get", "import"}
     /\ l \notin x.known /\ l \in rv /\ \E r \in D : r.link = l
     => SamePolicy(p, q)
  /\ \A r \in x.rows : r.link = l => SamePolicy(r, p)
  /\ /\ x.stage = "match" /\ x.live[l].there /\ there
     /\ \E r \in x.rows : r.link = l
     => SamePolicy(x.live[l], q) \/ SamePolicy(q, p)

RowsAgree(l, p, D) == \A r \in D : r.link = l => SamePolicy(r, p)

Agrees(l, p, q) ==
  /\ RowsAgree(l, p, db)
  /\ core[l].there => SamePolicy(core[l], q)
  /\ (\A t \in Tasks : ~Writes(task[t], l, "limit")) => q.limit = p.limit
  /\ (\A t \in Tasks : ~Writes(task[t], l, "active")) /\ l \notin revived
       => q.active = p.active
  /\ \A t \in Tasks : TaskAgrees(task[t], l, p, q, core[l].there, revived, db)

PolicyFor(l) == \E p, q \in PolicyRecord : Agrees(l, p, q)

PolicyInv == \A l \in Links : "policy" \notin doubt[l] => PolicyFor(l)

LEMMA KeepsAgreement ==
  ASSUME NEW o, Keeps(o), NEW l, NEW p, NEW q, NEW there, NEW rv, NEW D,
         TaskAgrees(task[o], l, p, q, there, rv, D)
  PROVE  TaskAgrees(task'[o], l, p, q, there, rv, D)
BY DEF Keeps, TaskAgrees, Writes, Inserts

LEMMA KeepsWrites ==
  ASSUME NEW o, Keeps(o), NEW l, NEW f
  PROVE  Writes(task'[o], l, f) <=> Writes(task[o], l, f)
BY DEF Keeps, Writes

(* Operations that hold nothing of the link.                               *)
LEMMA BlankAgrees ==
  ASSUME NEW x, NEW l, NEW p, NEW q, NEW there, NEW rv, NEW D,
         x.stage \notin {"insert", "store", "import", "refresh", "match"},
         x.op # "list", \A r \in x.rows : r.link # l
  PROVE  TaskAgrees(x, l, p, q, there, rv, D)
BY DEF TaskAgrees, Writes, Inserts

LEMMA IdleAgrees ==
  ASSUME NEW l, NEW p, NEW q, NEW there, NEW rv, NEW D
  PROVE  TaskAgrees(Idle, l, p, q, there, rv, D)
BY DEF TaskAgrees, Writes, Inserts, Idle

LEMMA QuietAgrees ==
  ASSUME Typed, NEW o \in Tasks, NEW l \in Links, Quiet(task[o], l),
         NEW p, NEW q, NEW there, NEW rv, NEW D,
         Inserts(task[o], l) => p.limit = task[o].limit /\ p.active = TRUE /\ l \notin rv
  PROVE  TaskAgrees(task[o], l, p, q, there, rv, D)
<1>1. /\ task[o].rows = {} /\ ~task[o].live[l].there
      /\ task[o].stage \notin {"get", "import", "refresh", "match"}
      /\ task[o].stage = "store" => task[o].link # l
  BY QuietHoldsNothing
<1> QED BY <1>1 DEF TaskAgrees, Writes

(* The step of an operation, seen from the policies after it.              *)
LEMMA AgreesAfter ==
  ASSUME NEW t \in Tasks, NEW y, Acts(t, y), NEW l \in Links,
         NEW p \in PolicyRecord, NEW q \in PolicyRecord,
         RowsAgree(l, p, db'),
         core'[l].there => SamePolicy(core'[l], q),
         ~Writes(y, l, "limit") /\ (\A o \in Tasks \ {t} : ~Writes(task[o], l, "limit"))
           => q.limit = p.limit,
         ~Writes(y, l, "active") /\ (\A o \in Tasks \ {t} : ~Writes(task[o], l, "active"))
           /\ l \notin revived' => q.active = p.active,
         \A o \in Tasks \ {t} : TaskAgrees(task[o], l, p, q, core'[l].there, revived', db'),
         TaskAgrees(y, l, p, q, core'[l].there, revived', db')
  PROVE  PolicyFor(l)'
<1>1. ASSUME NEW o \in Tasks
      PROVE  TaskAgrees(task'[o], l, p, q, core'[l].there, revived', db')
  BY <1>1, KeepsAgreement DEF Acts
<1>2. ASSUME NEW f, \A o \in Tasks : ~Writes(task'[o], l, f)
      PROVE  ~Writes(y, l, f) /\ \A o \in Tasks \ {t} : ~Writes(task[o], l, f)
  BY <1>2, KeepsWrites DEF Acts
<1>3. (\A o \in Tasks : ~Writes(task'[o], l, "limit")) => q.limit = p.limit
  BY <1>2
<1>4. (\A o \in Tasks : ~Writes(task'[o], l, "active")) /\ l \notin revived'
        => q.active = p.active
  BY <1>2
<1> QED BY <1>1, <1>3, <1>4 DEF PolicyFor, Agrees

(* A step that leaves both policies as they are.                           *)
LEMMA AgreeFrame ==
  ASSUME NEW t \in Tasks, NEW y, Acts(t, y) \/ Acts(t, Idle), NEW l \in Links,
         NEW p \in PolicyRecord, NEW q \in PolicyRecord, Agrees(l, p, q),
         RowsAgree(l, p, db'),
         l \notin revived \/ ((\E r \in db' : r.link = l) => \E r \in db : r.link = l),
         core'[l].there => core[l].there /\ SamePolicy(core'[l], q),
         l \in revived' <=> l \in revived,
         ~(task[t].stage = "store" /\ task[t].link = l),
         TaskAgrees(y, l, p, q, core'[l].there, revived', db')
  PROVE  PolicyFor(l)'
<1>1. ASSUME NEW o \in Tasks
      PROVE  TaskAgrees(task[o], l, p, q, core'[l].there, revived', db')
  <2>1. TaskAgrees(task[o], l, p, q, core[l].there, revived, db)
    BY DEF Agrees
  <2> QED BY <2>1 DEF TaskAgrees
<1>2. ~Writes(task[t], l, "limit") /\ ~Writes(task[t], l, "active")
  BY DEF Writes
<1>3. (\A o \in Tasks \ {t} : ~Writes(task[o], l, "limit")) => q.limit = p.limit
  BY <1>2 DEF Agrees
<1>4. (\A o \in Tasks \ {t} : ~Writes(task[o], l, "active")) /\ l \notin revived'
        => q.active = p.active
  BY <1>2 DEF Agrees
<1>5. ASSUME NEW z, Acts(t, z), TaskAgrees(z, l, p, q, core'[l].there, revived', db')
      PROVE  PolicyFor(l)'
  <2>1. \A o \in Tasks \ {t} : TaskAgrees(task[o], l, p, q, core'[l].there, revived', db')
    BY <1>1
  <2>2. ~Writes(z, l, "limit") /\ (\A o \in Tasks \ {t} : ~Writes(task[o], l, "limit"))
          => q.limit = p.limit
    BY <1>3
  <2>3. ~Writes(z, l, "active") /\ (\A o \in Tasks \ {t} : ~Writes(task[o], l, "active"))
          /\ l \notin revived' => q.active = p.active
    BY <1>4
  <2>4. core'[l].there => SamePolicy(core'[l], q)
    OBVIOUS
  <2> QED BY ONLY t \in Tasks, l \in Links, p \in PolicyRecord, q \in PolicyRecord,
                  RowsAgree(l, p, db'), <1>5, <2>1, <2>2, <2>3, <2>4, AgreesAfter
<1>6. TaskAgrees(Idle, l, p, q, core'[l].there, revived', db')
  BY IdleAgrees
<1> QED BY <1>5, <1>6

(* The frame of a step that also leaves the rows, the Core and the revived *)
(* links.                                                                  *)
LEMMA AgreeStill ==
  ASSUME NEW t \in Tasks, NEW y, Acts(t, y) \/ Acts(t, Idle), NEW l \in Links,
         NEW p \in PolicyRecord, NEW q \in PolicyRecord, Agrees(l, p, q),
         UNCHANGED <<db, core, revived>>,
         ~(task[t].stage = "store" /\ task[t].link = l),
         TaskAgrees(y, l, p, q, core[l].there, revived, db)
  PROVE  PolicyFor(l)'
<1>1. RowsAgree(l, p, db') /\ (core'[l].there => core[l].there /\ SamePolicy(core'[l], q))
  BY DEF Agrees
<1> QED BY <1>1, AgreeFrame

LEMMA CreateKeepsPolicy ==
  ASSUME Typed, Drawn, NEW l \in Links, PolicyFor(l), NEW t \in Tasks,
         \/ CallFails(t) \/ Insert(t)
         \/ \E k \in Links : Post(t, k)
  PROVE  PolicyFor(l)'
<1> DEFINE x == task[t]
<1>0. x \in TaskRecord /\ Shape(x)
  BY DEF Typed
<1>p. PICK p, q \in PolicyRecord : Agrees(l, p, q)
  BY DEF PolicyFor
<1>1. CASE CallFails(t)
  <2>1. Acts(t, Idle) /\ UNCHANGED <<db, core, revived>> /\ x.stage # "store"
    BY <1>1, CallFailsMoves DEF CallFails
  <2> QED BY <1>p, <2>1, AgreeStill, IdleAgrees
<1>2. CASE Insert(t)
  <2> DEFINE y == [task[t] EXCEPT !.stage = "rows", !.link = None]
             n == Row(x.link, x.limit, TRUE, 0)
  <2>1. /\ (Acts(t, y) /\ x.op = "deploy") \/ Acts(t, Idle)
        /\ UNCHANGED <<core, revived>> /\ db' = db \cup {n} /\ x.stage = "insert"
    BY <1>2, InsertMoves
  <2>2. /\ y.stage = "rows" /\ y.rows = {} /\ y.op = x.op
        /\ n.link = x.link /\ n.limit = x.limit /\ n.active = TRUE
    BY <1>0, <2>1 DEF TaskRecord, Shape, Row
  <2> HIDE DEF y, n
  <2>3. PICK z \in {y, Idle} : Acts(t, z) /\ \A D : TaskAgrees(z, l, p, q, core'[l].there, revived', D)
    BY <2>1, <2>2, BlankAgrees, IdleAgrees
  <2>4. core'[l].there => core[l].there /\ SamePolicy(core'[l], q)
    BY <1>p, <2>1 DEF Agrees
  <2>5. RowsAgree(l, p, db) /\ TaskAgrees(x, l, p, q, core[l].there, revived, db)
    BY <1>p DEF Agrees
  <2>6. RowsAgree(l, p, db')
    BY <2>1, <2>2, <2>5 DEF RowsAgree, TaskAgrees, Inserts, SamePolicy
  <2>7. l \notin revived \/ ((\E r \in db' : r.link = l) => \E r \in db : r.link = l)
    BY <2>1, <2>2, <2>5 DEF TaskAgrees, Inserts
  <2> QED BY <1>p, <2>1, <2>3, <2>4, <2>6, <2>7, AgreeFrame
<1>3. ASSUME NEW k \in Links, Post(t, k) PROVE PolicyFor(l)'
  <2> DEFINE y == [task[t] EXCEPT !.stage = "insert", !.link = k]
  <2>1. /\ Acts(t, y) \/ Acts(t, Idle)
        /\ x.stage = "post" /\ k \notin born
        /\ core'[k] = CoreLink(x.limit, TRUE, 0)
        /\ \A j \in Links : j # k => core'[j] = core[j]
        /\ UNCHANGED <<db, revived>>
    BY <1>3, PostMoves
  <2>2. /\ y.stage = "insert" /\ y.link = k /\ y.rows = {} /\ y.op \in {"create", "deploy"}
        /\ y.limit = x.limit /\ y.live = x.live
    BY <1>0, <2>1 DEF TaskRecord, Shape, StageOfOp, Ops
  <2> HIDE DEF y
  <2>3. CASE l # k
    <3>1. TaskAgrees(y, l, p, q, core[l].there, revived, db)
      BY <2>2, <2>3 DEF TaskAgrees, Inserts, Writes
    <3>2. /\ RowsAgree(l, p, db') /\ core'[l].there = core[l].there
          /\ core'[l].there => core[l].there /\ SamePolicy(core'[l], q)
      BY <1>p, <2>1, <2>3 DEF Agrees
    <3> QED BY <1>p, <2>1, <3>1, <3>2, AgreeFrame
  <2>4. CASE l = k
    <3>1. PICK p2 \in PolicyRecord : p2.limit = x.limit /\ p2.active = TRUE
      <4>1. [limit |-> x.limit, active |-> TRUE] \in PolicyRecord
        BY <1>0, TaskFields DEF PolicyRecord
      <4> QED BY <4>1
    <3>2. ~Remembered(l) /\ l \notin revived /\ \A o \in Tasks : task[o].link # l
      BY <2>1, <2>4 DEF Drawn
    <3>3. ASSUME NEW o \in Tasks, NEW there, NEW D
          PROVE  TaskAgrees(task[o], l, p2, p2, there, revived, D)
      <4>1. Shape(task[o])
        BY DEF Typed
      <4>2. ~task[o].live[l].there \/ task[o].stage \in {"erase", "drop"}
        BY <3>2, <4>1 DEF Remembered, KnowsIn, Shape, StageOfOp
      <4>3. ~(\E r \in task[o].rows : r.link = l)
        BY <3>2, <4>1 DEF Remembered, KnowsIn, Shape, StageOfOp, LinksOf
      <4> QED BY <3>2, <4>2, <4>3 DEF TaskAgrees, Inserts, Writes, SamePolicy
    <3>4. \A there, D : TaskAgrees(y, l, p2, p2, there, revived, D)
      BY <2>2, <3>1, <3>2 DEF TaskAgrees, Inserts, Writes
    <3>5. PICK z : Acts(t, z) /\ \A there, D : TaskAgrees(z, l, p2, p2, there, revived, D)
      BY <2>1, <3>4, IdleAgrees
    <3>6. RowsAgree(l, p2, db')
      BY <2>1, <3>2 DEF RowsAgree, Remembered, RowsOf
    <3>7. SamePolicy(core'[l], p2)
      <4>1. core'[l] = CoreLink(x.limit, TRUE, 0)
        BY <2>1, <2>4
      <4>2. core'[l].limit = x.limit /\ core'[l].active = TRUE
        BY <4>1 DEF CoreLink
      <4> QED BY <3>1, <4>2 DEF SamePolicy
    <3> QED BY <2>1, <3>3, <3>5, <3>6, <3>7, AgreesAfter
  <2> QED BY <2>3, <2>4
<1> QED BY <1>1, <1>2, <1>3

LEMMA DeleteKeepsPolicy ==
  ASSUME Typed, NEW l \in Links, PolicyFor(l), NEW t \in Tasks, Erase(t) \/ Drop(t)
  PROVE  PolicyFor(l)'
<1> DEFINE x == task[t]
<1>0. x \in TaskRecord /\ Shape(x)
  BY DEF Typed
<1>p. PICK p, q \in PolicyRecord : Agrees(l, p, q)
  BY DEF PolicyFor
<1>1. RowsAgree(l, p, db) /\ (core[l].there => SamePolicy(core[l], q))
  BY <1>p DEF Agrees
<1>2. CASE Erase(t)
  <2> DEFINE y == [task[t] EXCEPT !.stage = "drop"]
  <2>1. /\ Acts(t, y) /\ UNCHANGED <<db, revived>> /\ x.stage = "erase"
        /\ \A k \in Links : core'[k] # core[k] => core'[k] = Absent /\ k = task[t].link
    BY <1>2, EraseMoves
  <2>2. y.stage = "drop" /\ y.rows = {} /\ y.op # "list"
    BY <1>0, <2>1 DEF TaskRecord, Shape, StageOfOp
  <2> HIDE DEF y
  <2>3. core'[l] = core[l] \/ ~core'[l].there
    BY <2>1 DEF Absent
  <2>4. TaskAgrees(y, l, p, q, core'[l].there, revived', db')
    BY <2>2, BlankAgrees
  <2> QED BY <1>p, <1>1, <2>1, <2>3, <2>4, AgreeFrame
<1>3. CASE Drop(t)
  <2>1. Acts(t, Idle) /\ UNCHANGED <<core, revived>> /\ db' = db \ RowsOf(x.link)
        /\ x.stage = "drop"
    BY <1>3, DropMoves
  <2>2. RowsAgree(l, p, db') /\ ((\E r \in db' : r.link = l) => \E r \in db : r.link = l)
    BY <1>1, <2>1 DEF RowsAgree
  <2> QED BY <1>p, <1>1, <2>1, <2>2, AgreeFrame, IdleAgrees
<1> QED BY <1>2, <1>3

LEMMA UpdateKeepsPolicy ==
  ASSUME Typed, Apart, NEW l \in Links, PolicyFor(l), NEW t \in Tasks, Patch(t) \/ Store(t),
         "policy" \notin doubt'[l], Certain(l)
  PROVE  PolicyFor(l)'
<1> DEFINE x == task[t]
<1>0. x \in TaskRecord /\ Shape(x) /\ x.op = "update" /\ x.rows = {}
  BY DEF Typed, Shape, StageOfOp, Patch, Store, At
<1>p. PICK p, q \in PolicyRecord : Agrees(l, p, q)
  BY DEF PolicyFor
<1>1. RowsAgree(l, p, db) /\ (core[l].there => SamePolicy(core[l], q))
  BY <1>p DEF Agrees
<1>2. ASSUME x.link = l, NEW o \in Tasks \ {t}, NEW p2, NEW q2, NEW there, NEW D
      PROVE  /\ TaskAgrees(task[o], l, p2, q2, there, revived, D)
             /\ \A f : ~Writes(task[o], l, f)
  <2>1. Quiet(task[o], l) /\ (task[o].op = "create" => task[o].link # l)
    BY <1>0, <1>2, UpdateAlone
  <2>2. ~Inserts(task[o], l)
    <3>1. Shape(task[o]) /\ task[o].op \in Ops
      BY TaskFields DEF Typed
    <3> QED BY <2>1, <3>1 DEF Quiet, Inserts, Shape, StageOfOp, Ops
  <2>3. \A f : ~Writes(task[o], l, f)
    BY <2>1, QuietHoldsNothing DEF Writes
  <2> QED BY <2>1, <2>2, <2>3, QuietAgrees
<1>3. CASE Patch(t)
  <2> DEFINE y == [task[t] EXCEPT !.stage = "store"]
             e == x.edit
  <2>1. /\ x.stage = "patch" /\ x.link \in Links /\ In(x.link) /\ e \in Edits
        /\ core' \in CoreState /\ core'[x.link] = Edited(core[x.link], e)
        /\ \A k \in Links : k # x.link => core'[k] = core[k]
        /\ Acts(t, y) \/ (Acts(t, Idle) /\ Blur({x.link}))
        /\ UNCHANGED <<db, revived>>
    BY <1>3, PatchMoves
  <2>2. /\ y.stage = "store" /\ y.rows = {} /\ y.op = "update" /\ y.link = x.link
        /\ y.edit = e
    BY <1>0 DEF TaskRecord
  <2> HIDE DEF y
  <2>3. CASE x.link # l
    <3>1. TaskAgrees(y, l, p, q, core'[l].there, revived', db')
      BY <2>2, <2>3 DEF TaskAgrees, Inserts, Writes
    <3>2. core'[l] = core[l] /\ x.stage # "store"
      BY <2>1, <2>3
    <3>3. Acts(t, y) \/ Acts(t, Idle)
      BY <2>1
    <3> QED BY <1>p, <1>1, <2>1, <3>1, <3>2, <3>3, AgreeFrame
  <2>4. CASE x.link = l
    <3>1. Acts(t, y)
      BY <2>1, <2>4, BlurTyped
    <3>2. PICK q2 \in PolicyRecord :
            /\ q2.limit = IF "limit" \in DOMAIN e THEN e["limit"] ELSE q.limit
            /\ q2.active = IF "active" \in DOMAIN e THEN e["active"] ELSE q.active
      <4>1. /\ "limit" \in DOMAIN e => e["limit"] \in Limits
            /\ "active" \in DOMAIN e => e["active"] \in BOOLEAN
        BY <2>1 DEF Edits
      <4> DEFINE z == [limit |-> IF "limit" \in DOMAIN e THEN e["limit"] ELSE q.limit,
                       active |-> IF "active" \in DOMAIN e THEN e["active"] ELSE q.active]
      <4>2. z \in PolicyRecord
        BY <4>1 DEF PolicyRecord
      <4> QED BY <4>2
    <3>3. SamePolicy(core'[l], q2)
      <4>1. SamePolicy(core[l], q) /\ core[l] \in CoreLinks
        BY <1>1, <2>1, <2>4, CoreFields DEF In, Typed
      <4>2. /\ core'[l].limit = IF "limit" \in DOMAIN e THEN e["limit"] ELSE core[l].limit
            /\ core'[l].active = IF "active" \in DOMAIN e THEN e["active"] ELSE core[l].active
        BY <2>1, <2>4, <4>1, EditedLink
      <4> QED BY <3>2, <4>1, <4>2 DEF SamePolicy
    <3>4. \A f : ~Writes(x, l, f)
      BY <2>1 DEF Writes
    <3>5. "limit" \notin DOMAIN e => q2.limit = p.limit
      BY <1>p, <1>2, <2>4, <3>2, <3>4 DEF Agrees
    <3>6. "active" \notin DOMAIN e /\ l \notin revived' => q2.active = p.active
      BY <1>p, <1>2, <2>1, <2>4, <3>2, <3>4 DEF Agrees
    <3>7. TaskAgrees(y, l, p, q2, core'[l].there, revived', db')
      BY <2>2, <3>2 DEF TaskAgrees, Inserts, Writes
    <3>8. \A o \in Tasks \ {t} : TaskAgrees(task[o], l, p, q2, core'[l].there, revived', db')
      BY <1>2, <2>1, <2>4
    <3>9. ~Writes(y, l, "limit") => q2.limit = p.limit
      BY <2>2, <2>4, <3>5 DEF Writes
    <3>10. ~Writes(y, l, "active") /\ l \notin revived' => q2.active = p.active
      BY <2>2, <2>4, <3>6 DEF Writes
    <3>11. RowsAgree(l, p, db')
      BY <1>1, <2>1
    <3> QED BY <3>1, <3>3, <3>7, <3>8, <3>9, <3>10, <3>11, AgreesAfter
  <2> QED BY <2>3, <2>4
<1>4. CASE Store(t)
  <2> DEFINE e == x.edit
  <2>1. /\ x.stage = "store" /\ x.link \in Links /\ e \in Edits
        /\ db' = {IF r.link = x.link THEN Edited(r, e) ELSE r : r \in db}
        /\ Acts(t, Idle) /\ UNCHANGED <<core, revived>>
    BY <1>4, StoreMoves
  <2>2. ASSUME NEW r \in db
        PROVE  /\ r \in Rows /\ Edited(r, e).link = r.link
               /\ Edited(r, e).limit = IF "limit" \in DOMAIN e THEN e["limit"] ELSE r.limit
               /\ Edited(r, e).active = IF "active" \in DOMAIN e THEN e["active"] ELSE r.active
    BY <2>1, EditedRow DEF Typed, RowSets
  <2>3. CASE x.link # l
    <3>1. ASSUME NEW r \in db', r.link = l PROVE r \in db
      BY <2>1, <2>2, <2>3, <3>1
    <3>2. RowsAgree(l, p, db') /\ ((\E r \in db' : r.link = l) => \E r \in db : r.link = l)
      BY <1>1, <3>1 DEF RowsAgree
    <3> QED BY <1>p, <1>1, <2>1, <2>3, <3>2, AgreeFrame, IdleAgrees
  <2>4. CASE x.link = l
    <3>2. PICK p2 \in PolicyRecord :
            /\ p2.limit = IF "limit" \in DOMAIN e THEN e["limit"] ELSE p.limit
            /\ p2.active = IF "active" \in DOMAIN e THEN e["active"] ELSE p.active
      <4>1. /\ "limit" \in DOMAIN e => e["limit"] \in Limits
            /\ "active" \in DOMAIN e => e["active"] \in BOOLEAN
        BY <2>1 DEF Edits
      <4> DEFINE z == [limit |-> IF "limit" \in DOMAIN e THEN e["limit"] ELSE p.limit,
                       active |-> IF "active" \in DOMAIN e THEN e["active"] ELSE p.active]
      <4>2. z \in PolicyRecord
        BY <4>1 DEF PolicyRecord
      <4> QED BY <4>2
    <3>3. ASSUME NEW r \in db', r.link = l PROVE SamePolicy(r, p2)
      <4>1. PICK s \in db : r = IF s.link = x.link THEN Edited(s, e) ELSE s
        BY <2>1
      <4>2. s.link = l /\ r = Edited(s, e)
        BY <2>2, <2>4, <3>3, <4>1
      <4>3. SamePolicy(s, p)
        BY <1>1, <4>2 DEF RowsAgree
      <4> QED BY <2>2, <3>2, <4>2, <4>3 DEF SamePolicy
    <3>4. \A f : Writes(x, l, f) <=> f \in DOMAIN e
      BY <2>1, <2>4 DEF Writes
    <3>5. TaskAgrees(x, l, p, q, core[l].there, revived, db)
      BY <1>p DEF Agrees
    <3>6. q.limit = p2.limit
      <4>1. CASE "limit" \in DOMAIN e
        BY <3>2, <3>4, <3>5, <4>1 DEF TaskAgrees
      <4>2. CASE "limit" \notin DOMAIN e
        BY <1>p, <1>2, <2>4, <3>2, <3>4, <4>2 DEF Agrees
      <4> QED BY <4>1, <4>2
    <3>7. l \notin revived' => q.active = p2.active
      <4>1. CASE "active" \in DOMAIN e
        BY <3>2, <3>4, <3>5, <4>1 DEF TaskAgrees
      <4>2. CASE "active" \notin DOMAIN e
        BY <1>p, <1>2, <2>1, <2>4, <3>2, <3>4, <4>2 DEF Agrees
      <4> QED BY <4>1, <4>2
    <3>8. \A o \in Tasks \ {t} : TaskAgrees(task[o], l, p2, q, core'[l].there, revived', db')
      BY <1>2, <2>1, <2>4
    <3>9. RowsAgree(l, p2, db') /\ (core'[l].there => SamePolicy(core'[l], q))
      BY <1>1, <2>1, <3>3 DEF RowsAgree
    <3>10. TaskAgrees(Idle, l, p2, q, core'[l].there, revived', db')
      BY IdleAgrees
    <3> QED BY <2>1, <3>6, <3>7, <3>8, <3>9, <3>10, AgreesAfter
  <2> QED BY <2>3, <2>4
<1> QED BY <1>3, <1>4

(* A listing on a link that is certain finds, with nobody else to write    *)
(* it, that rows and Core may take the policy of the Core.                 *)
LEMMA ListLevels ==
  ASSUME Typed, Apart, NEW l \in Links, Certain(l), NEW t \in Tasks, task[t].op = "list",
         NEW p, NEW q, Agrees(l, p, q)
  PROVE  /\ q.limit = p.limit
         /\ l \notin revived => q.active = p.active
         /\ \A o \in Tasks \ {t} : \A D :
              TaskAgrees(task[o], l, q, q, core[l].there, revived, D)
<1>1. ASSUME NEW o \in Tasks
      PROVE  ~Writes(task[o], l, "limit") /\ ~Writes(task[o], l, "active")
  <2>1. task[o].op = "update" => task[o].link # l
    BY ListAlone
  <2>2. task[o].stage = "store" => task[o].op = "update"
    BY DEF Typed, Shape, StageOfOp
  <2> QED BY <2>1, <2>2 DEF Writes
<1>2. q.limit = p.limit /\ (l \notin revived => q.active = p.active)
  BY <1>1 DEF Agrees
<1>3. ASSUME NEW o \in Tasks \ {t}, NEW D
      PROVE  TaskAgrees(task[o], l, q, q, core[l].there, revived, D)
  <2>1. TaskAgrees(task[o], l, p, q, core[l].there, revived, db)
    BY DEF Agrees
  <2>2. task[o].rows = {} /\ task[o].stage # "match"
    <3>1. task[o].op # "deploy"
      BY ListAlone
    <3>2. Shape(task[o]) /\ task[o].op \in Ops /\ task[o].stage \in Stages
      BY TaskFields DEF Typed
    <3> QED BY <3>1, <3>2 DEF Shape, StageOfOp, Ops
  <2>3. Inserts(task[o], l) => q.limit = task[o].limit /\ q.active = TRUE /\ l \notin revived
    BY <1>2, <2>1 DEF TaskAgrees
  <2> QED BY <1>1, <2>1, <2>2, <2>3 DEF TaskAgrees, SamePolicy
<1> QED BY <1>2, <1>3

(* The step of a listing after which the rows have the policy of the Core. *)
LEMMA ListLevelled ==
  ASSUME Typed, Apart, NEW l \in Links, Certain(l), NEW t \in Tasks, task[t].op = "list",
         NEW p \in PolicyRecord, NEW q \in PolicyRecord, Agrees(l, p, q),
         NEW y, Acts(t, y), UNCHANGED <<core, revived>>,
         RowsAgree(l, q, db'), TaskAgrees(y, l, q, q, core[l].there, revived, db')
  PROVE  PolicyFor(l)'
<1>1. \A o \in Tasks \ {t} : TaskAgrees(task[o], l, q, q, core'[l].there, revived', db')
  BY ListLevels
<1>2. core'[l].there => SamePolicy(core'[l], q)
  BY DEF Agrees
<1> QED BY <1>1, <1>2, AgreesAfter

LEMMA ListKeepsPolicy ==
  ASSUME Typed, Apart, NEW l \in Links, PolicyFor(l), NEW t \in Tasks, Certain(l),
         \/ Get(t) /\ task[t].op = "list"
         \/ Reread(t)
         \/ \E k \in Links : Import(t, k) \/ Refresh(t, k)
  PROVE  PolicyFor(l)'
<1> DEFINE x == task[t]
<1>0. x \in TaskRecord /\ Shape(x)
  BY DEF Typed
<1>p. PICK p, q \in PolicyRecord : Agrees(l, p, q)
  BY DEF PolicyFor
<1>1. /\ RowsAgree(l, p, db) /\ (core[l].there => SamePolicy(core[l], q))
      /\ TaskAgrees(x, l, p, q, core[l].there, revived, db)
  BY <1>p DEF Agrees
<1>2. CASE Get(t) /\ x.op = "list"
  <2> DEFINE y == [task[t] EXCEPT !.live = core, !.stage = "import"]
  <2>1. Acts(t, y) /\ UNCHANGED <<db, core, revived>> /\ x.stage = "get"
    BY <1>2, ListGetMoves
  <2>2. /\ y.stage = "import" /\ y.rows = x.rows /\ y.op = "list" /\ y.live = core
        /\ y.known = x.known
    BY <1>0, <1>2 DEF TaskRecord
  <2> HIDE DEF y
  <2>3. TaskAgrees(y, l, p, q, core[l].there, revived, db)
    BY <1>1, <1>2, <2>1, <2>2 DEF TaskAgrees, Inserts, Writes
  <2> QED BY <1>p, <2>1, <2>3, AgreeStill
<1>3. CASE Reread(t)
  <2> DEFINE y == [task[t] EXCEPT !.todo = {k \in LinksOf(db) : task[t].live[k].there},
                                  !.known = {}, !.stage = "refresh"]
  <2>1. /\ Acts(t, y) \/ Acts(t, Idle)
        /\ UNCHANGED <<db, core, revived>> /\ x.stage = "import" /\ x.op = "list"
    BY <1>3, RereadMoves
  <2>2. y.stage = "refresh" /\ y.rows = x.rows /\ y.op = "list" /\ y.live = x.live
    BY <1>0, <2>1 DEF TaskRecord
  <2> HIDE DEF y
  <2>3. TaskAgrees(y, l, p, q, core[l].there, revived, db)
    BY <1>1, <2>1, <2>2 DEF TaskAgrees, Inserts, Writes
  <2> QED BY <1>p, <2>1, <2>3, AgreeStill
<1>4. ASSUME NEW k \in Links, Import(t, k) PROVE PolicyFor(l)'
  <2> DEFINE y == [task[t] EXCEPT !.known = task[t].known \cup {k}]
             n == Row(k, x.live[k].limit, x.live[k].active, x.live[k].used)
  <2>1. /\ Acts(t, y) /\ UNCHANGED <<core, revived>> /\ x.stage = "import" /\ x.op = "list"
        /\ x.live[k].there /\ k \notin x.known /\ db' = db \cup {n}
    BY <1>4, ImportMoves
  <2>2. /\ y.stage = "import" /\ y.rows = {} /\ y.op = "list" /\ y.live = x.live
        /\ y.known = x.known \cup {k}
        /\ n.link = k /\ SamePolicy(n, x.live[k])
    BY <1>0, <2>1 DEF TaskRecord, Shape, Row, SamePolicy
  <2> HIDE DEF y, n
  <2>3. CASE k # l
    <3>1. RowsAgree(l, p, db') /\ ((\E r \in db' : r.link = l) => \E r \in db : r.link = l)
      BY <1>1, <2>1, <2>2, <2>3 DEF RowsAgree
    <3>2. TaskAgrees(y, l, p, q, core'[l].there, revived', db')
      BY <1>1, <2>1, <2>2, <2>3, <3>1 DEF TaskAgrees, Inserts, Writes
    <3>3. (core'[l].there => core[l].there /\ SamePolicy(core'[l], q)) /\ x.stage # "store"
      BY <1>1, <2>1
    <3> QED BY <1>p, <2>1, <3>1, <3>2, <3>3, AgreeFrame
  <2>4. CASE k = l
    <3>1. SamePolicy(x.live[l], q)
      BY <1>1, <2>1, <2>4 DEF TaskAgrees
    <3>2. (\E r \in db : r.link = l) => SamePolicy(p, q)
      <4>1. CASE l \in revived
        BY <1>1, <2>1, <2>4, <4>1 DEF TaskAgrees
      <4>2. CASE l \notin revived
        BY <1>p, <2>1, <4>2, ListLevels DEF SamePolicy
      <4> QED BY <4>1, <4>2
    <3>3. RowsAgree(l, q, db')
      BY <1>1, <2>1, <2>2, <2>4, <3>1, <3>2 DEF RowsAgree, SamePolicy
    <3>4. TaskAgrees(y, l, q, q, core[l].there, revived, db')
      BY <2>2, <3>1 DEF TaskAgrees, Inserts, Writes, SamePolicy
    <3> QED BY <1>p, <2>1, <3>3, <3>4, ListLevelled
  <2> QED BY <2>3, <2>4
<1>5. ASSUME NEW k \in Links, Refresh(t, k) PROVE PolicyFor(l)'
  <2> DEFINE y == [task[t] EXCEPT !.todo = task[t].todo \ {k}]
  <2>1. /\ Acts(t, y) \/ Acts(t, Idle)
        /\ UNCHANGED <<core, revived>> /\ x.stage = "refresh" /\ x.op = "list"
        /\ x.live[k].there /\ x.live[k] \in CoreLinks
        /\ db' = {IF r.link = k THEN Refreshed(r, x.live[k]) ELSE r : r \in db}
    BY <1>5, RefreshMoves
  <2>2. /\ y.stage = "refresh" /\ y.rows = {} /\ y.op = "list" /\ y.live = x.live
    BY <1>0, <2>1 DEF TaskRecord, Shape
  <2> HIDE DEF y
  <2>3. ASSUME NEW r \in db
        PROVE  /\ Refreshed(r, x.live[k]).link = r.link
               /\ Refreshed(r, x.live[k]).active = x.live[k].active
               /\ Refreshed(r, x.live[k]).limit
                    = IF x.live[k].limit = 0 THEN r.limit ELSE x.live[k].limit
    BY <2>1, RefreshedTyped DEF Typed, RowSets
  <2>4. CASE k # l
    <3>1. ASSUME NEW r \in db', r.link = l PROVE r \in db
      BY <2>1, <2>3, <2>4, <3>1
    <3>2. RowsAgree(l, p, db') /\ ((\E r \in db' : r.link = l) => \E r \in db : r.link = l)
      BY <1>1, <3>1 DEF RowsAgree
    <3>3. TaskAgrees(y, l, p, q, core'[l].there, revived', db')
      BY <1>1, <2>1, <2>2 DEF TaskAgrees, Inserts, Writes
    <3>4. (core'[l].there => core[l].there /\ SamePolicy(core'[l], q)) /\ x.stage # "store"
      BY <1>1, <2>1
    <3> QED BY <1>p, <2>1, <3>2, <3>3, <3>4, AgreeFrame
  <2>5. CASE k = l
    <3>1. SamePolicy(x.live[l], q) /\ q.limit = p.limit
      <4>1. SamePolicy(x.live[l], q)
        BY <1>1, <2>1, <2>5 DEF TaskAgrees
      <4> QED BY <1>p, <2>1, <4>1, ListLevels
    <3>2. ASSUME NEW r \in db', r.link = l PROVE SamePolicy(r, q)
      <4>1. PICK s \in db : r = IF s.link = k THEN Refreshed(s, x.live[k]) ELSE s
        BY <2>1
      <4>2. s.link = l /\ r = Refreshed(s, x.live[k])
        BY <2>3, <2>5, <3>2, <4>1
      <4>3. SamePolicy(s, p)
        BY <1>1, <4>2 DEF RowsAgree
      <4> QED BY <2>3, <2>5, <3>1, <4>2, <4>3 DEF SamePolicy
    <3>3. RowsAgree(l, q, db')
      BY <3>2 DEF RowsAgree
    <3>4. TaskAgrees(y, l, q, q, core[l].there, revived, db')
      BY <2>2, <3>1 DEF TaskAgrees, Inserts, Writes, SamePolicy
    <3>5. PICK z : Acts(t, z) /\ TaskAgrees(z, l, q, q, core[l].there, revived, db')
      BY <2>1, <3>4, IdleAgrees
    <3> QED BY <1>p, <2>1, <3>3, <3>5, ListLevelled
  <2> QED BY <2>4, <2>5
<1> QED BY <1>2, <1>3, <1>4, <1>5

(* A reconciliation that is done with a row of the link, which has the     *)
(* policy of all its rows, while nobody else is about the link: the Core   *)
(* has that policy too, unless the flag of a disabled link is revived.     *)
LEMMA PassAgrees ==
  ASSUME Typed, NEW l \in Links, NEW t \in Tasks, NEW r \in task[t].rows,
         Passes(t, r), l = r.link,
         NEW p \in PolicyRecord, SamePolicy(r, p), RowsAgree(l, p, db),
         \A s \in task[t].rows : s.link = l => SamePolicy(s, p),
         \A o \in Tasks \ {t} :
           /\ Quiet(task[o], l)
           /\ Inserts(task[o], l)
                => p.limit = task[o].limit /\ p.active = TRUE /\ l \notin revived,
         Skip(t, r) /\ core[l].there => SamePolicy(core[l], p)
  PROVE  PolicyFor(l)'
<1> DEFINE x == task[t]
           y == [task[t] EXCEPT !.rows = task[t].rows \ {r}]
<1>0. x \in TaskRecord /\ Shape(x)
  BY DEF Typed
<1>1. /\ x.stage = "match" /\ x.op = "deploy" /\ db' = db
      /\ Acts(t, y) \/ Acts(t, Idle)
  BY SkipMoves, RestoreMoves, ReapplyMoves DEF Passes
<1>2. y.stage = "match" /\ y.op = "deploy" /\ y.rows = x.rows \ {r} /\ y.live = x.live
  <2>1. y.stage = x.stage /\ y.op = x.op /\ y.rows = x.rows \ {r} /\ y.live = x.live
    BY <1>0 DEF TaskRecord
  <2> HIDE DEF y
  <2> QED BY <1>1, <2>1
<1> HIDE DEF y
<1>3. ASSUME NEW q \in PolicyRecord, q.limit = p.limit,
             core'[l].there => SamePolicy(core'[l], q),
             \/ q.active = p.active /\ l \notin revived'
             \/ p.active = FALSE /\ l \in revived' /\ ~x.live[l].there
      PROVE  PolicyFor(l)'
  <2>1. ASSUME NEW o \in Tasks \ {t}
        PROVE  TaskAgrees(task[o], l, p, q, core'[l].there, revived', db')
    BY <1>3, QuietAgrees
  <2>2. TaskAgrees(y, l, p, q, core'[l].there, revived', db')
    BY <1>2, <1>3 DEF TaskAgrees, Inserts, Writes, SamePolicy
  <2>3. PICK z : Acts(t, z) /\ TaskAgrees(z, l, p, q, core'[l].there, revived', db')
    BY <1>1, <2>2, IdleAgrees
  <2>4. RowsAgree(l, p, db') /\ (l \notin revived' => q.active = p.active)
    BY <1>1, <1>3
  <2> QED BY <1>3, <2>1, <2>3, <2>4, AgreesAfter
<1>4. CASE Skip(t, r)
  <2>1. core' = core /\ l \notin revived'
    BY <1>4, SkipMoves
  <2> QED BY <1>3, <1>4, <2>1
<1>5. CASE Reapply(t, r)
  <2>1. l \notin revived' /\ core'[l] = Repaired(core[l], r) /\ core[l] \in CoreLinks
    <3>1. l \notin revived' /\ core'[l] = Repaired(core[l], r)
      BY <1>5, ReapplyMoves
    <3> QED BY <3>1, CoreFields DEF Typed
  <2>2. SamePolicy(core'[l], r)
    BY <2>1 DEF SamePolicy, Repaired, CoreLinks
  <2>3. SamePolicy(core'[l], p)
    BY <2>2 DEF SamePolicy
  <2> QED BY <1>3, <2>1, <2>3
<1>6. CASE Restore(t, r)
  <2>1. /\ ~x.live[l].there /\ core'[l] = CoreLink(r.limit, TRUE, r.used)
        /\ r \in Rows
        /\ revived' = IF r.active THEN revived \ {r.link} ELSE revived \cup {r.link}
    BY <1>6, RestoreMoves
  <2>2. core'[l].limit = r.limit /\ core'[l].active = TRUE /\ r.active \in BOOLEAN
    BY <2>1 DEF CoreLink, Rows
  <2>3. CASE r.active
    <3>1. SamePolicy(core'[l], p) /\ l \notin revived'
      BY <2>1, <2>2, <2>3 DEF SamePolicy
    <3> QED BY <1>3, <3>1
  <2>4. CASE ~r.active
    <3>1. p.active = FALSE /\ l \in revived'
      BY <2>1, <2>2, <2>4 DEF SamePolicy
    <3>2. PICK q \in PolicyRecord : q.limit = p.limit /\ q.active = TRUE
      <4>1. [limit |-> p.limit, active |-> TRUE] \in PolicyRecord
        BY DEF PolicyRecord
      <4> QED BY <4>1
    <3>3. SamePolicy(core'[l], q)
      BY <2>2, <3>2 DEF SamePolicy
    <3> QED BY <1>3, <2>1, <3>1, <3>2, <3>3
  <2> QED BY <2>3, <2>4
<1> QED BY <1>4, <1>5, <1>6 DEF Passes

LEMMA DeployKeepsPolicy ==
  ASSUME Typed, Apart, NEW l \in Links, PolicyFor(l), NEW t \in Tasks, Certain(l),
         \/ Get(t) /\ task[t].op # "list"
         \/ ReadRows(t)
         \/ \E r \in task[t].rows : Passes(t, r) \/ MatchFails(t, r)
  PROVE  PolicyFor(l)'
<1> DEFINE x == task[t]
<1>0. x \in TaskRecord /\ Shape(x)
  BY DEF Typed
<1>p. PICK p, q \in PolicyRecord : Agrees(l, p, q)
  BY DEF PolicyFor
<1>1. /\ RowsAgree(l, p, db) /\ (core[l].there => SamePolicy(core[l], q))
      /\ TaskAgrees(x, l, p, q, core[l].there, revived, db)
  BY <1>p DEF Agrees
<1>2. CASE Get(t) /\ x.op # "list"
  <2> DEFINE y == [task[t] EXCEPT !.live = Policies, !.stage = "match"]
  <2>1. /\ Acts(t, y) \/ Acts(t, Idle)
        /\ UNCHANGED <<db, core, revived>> /\ x.stage = "get" /\ x.op = "deploy"
    BY <1>2, DeployGetMoves
  <2>2. y.stage = "match" /\ y.rows = x.rows /\ y.op = "deploy" /\ y.live = Policies
    BY <1>0, <2>1 DEF TaskRecord
  <2>3. core[l].there => SamePolicy(Policies[l], q)
    <3>1. SamePolicy(Policies[l], core[l])
      BY PoliciesTyped, PolicyFields
    <3> QED BY <1>1, <3>1 DEF SamePolicy
  <2> HIDE DEF y
  <2>4. TaskAgrees(y, l, p, q, core[l].there, revived, db)
    BY <1>1, <2>2, <2>3 DEF TaskAgrees, Inserts, Writes
  <2> QED BY <1>p, <2>1, <2>4, AgreeStill
<1>3. CASE ReadRows(t)
  <2> DEFINE y == [task[t] EXCEPT !.rows = db, !.stage = "get"]
  <2>1. Acts(t, y) /\ UNCHANGED <<db, core, revived>> /\ x.stage = "rows" /\ x.op = "deploy"
    BY <1>3, ReadRowsMoves
  <2>2. y.stage = "get" /\ y.rows = db /\ y.op = "deploy"
    BY <1>0, <2>1 DEF TaskRecord
  <2> HIDE DEF y
  <2>3. TaskAgrees(y, l, p, q, core[l].there, revived, db)
    BY <1>1, <2>2 DEF TaskAgrees, Inserts, Writes, RowsAgree
  <2> QED BY <1>p, <2>1, <2>3, AgreeStill
<1>4. ASSUME NEW r \in x.rows, MatchFails(t, r) \/ (Passes(t, r) /\ l # r.link)
      PROVE  PolicyFor(l)'
  <2> DEFINE y == [task[t] EXCEPT !.rows = task[t].rows \ {r}]
  <2>1. /\ Acts(t, y) \/ Acts(t, Idle)
        /\ db' = db /\ x.stage = "match" /\ x.op = "deploy"
        /\ core'[l] = core[l] /\ (l \in revived' <=> l \in revived)
    <3>1. CASE MatchFails(t, r)
      BY <3>1, MatchFailsMoves
    <3>2. CASE Skip(t, r) /\ l # r.link
      BY <3>2, SkipMoves
    <3>3. CASE Restore(t, r) /\ l # r.link
      <4>1. /\ core'[l] = core[l]
            /\ revived' = IF r.active THEN revived \ {r.link} ELSE revived \cup {r.link}
        BY <3>3, RestoreMoves
      <4>2. Acts(t, y) \/ Acts(t, Idle)
        BY <3>3, RestoreMoves
      <4>3. db' = db /\ x.stage = "match" /\ x.op = "deploy"
        BY <3>3, RestoreMoves
      <4> HIDE DEF y
      <4> QED BY <3>3, <4>1, <4>2, <4>3
    <3>4. CASE Reapply(t, r) /\ l # r.link
      BY <3>4, ReapplyMoves
    <3> QED BY <1>4, <3>1, <3>2, <3>3, <3>4 DEF Passes
  <2>2. y.stage = "match" /\ y.rows = x.rows \ {r} /\ y.op = "deploy" /\ y.live = x.live
    BY <1>0, <2>1 DEF TaskRecord
  <2> HIDE DEF y
  <2>3. TaskAgrees(y, l, p, q, core'[l].there, revived', db')
    BY <1>1, <2>1, <2>2 DEF TaskAgrees, Inserts, Writes
  <2>4. RowsAgree(l, p, db') /\ x.stage # "store"
    BY <1>1, <2>1
  <2> QED BY <1>p, <1>1, <2>1, <2>3, <2>4, AgreeFrame
<1>5. ASSUME NEW r \in x.rows, Passes(t, r), l = r.link PROVE PolicyFor(l)'
  <2>1. x.stage = "match" /\ x.op = "deploy"
    BY <1>5, SkipMoves, RestoreMoves, ReapplyMoves DEF Passes
  <2>2. \A s \in x.rows : s.link = l => SamePolicy(s, p)
    BY <1>1 DEF TaskAgrees
  <2>3. ASSUME NEW o \in Tasks \ {t}
        PROVE  /\ Quiet(task[o], l)
               /\ Inserts(task[o], l)
                    => p.limit = task[o].limit /\ p.active = TRUE /\ l \notin revived
    <3>1. TaskAgrees(task[o], l, p, q, core[l].there, revived, db)
      BY <1>p DEF Agrees
    <3> QED BY <2>1, <3>1, DeployAlone DEF TaskAgrees
  <2>4. SamePolicy(r, p)
    BY <1>5, <2>2
  <2>5. Skip(t, r) /\ core[l].there => SamePolicy(core[l], p)
    <3>1. ASSUME Skip(t, r), core[l].there PROVE SamePolicy(core[l], p)
      <4>1. x.live[l].there /\ SamePolicy(r, x.live[l])
        BY <1>5, <3>1, SkipMoves, PolicyFields
      <4>2. SamePolicy(x.live[l], q) \/ SamePolicy(q, p)
        BY <1>1, <1>5, <2>1, <3>1, <4>1 DEF TaskAgrees
      <4> QED BY <1>1, <2>4, <3>1, <4>1, <4>2 DEF SamePolicy
    <3> QED BY <3>1
  <2> QED BY <1>1, <1>5, <2>2, <2>3, <2>4, <2>5, PassAgrees
<1>6. ASSUME NEW r \in x.rows, Passes(t, r) \/ MatchFails(t, r) PROVE PolicyFor(l)'
  BY <1>4, <1>5, <1>6
<1> QED BY <1>2, <1>3, <1>6

(* An undisturbed pass over the only row of a link settles its policy.     *)
LEMMA SettledAgrees ==
  ASSUME Typed, Undisturbed, CalmRows, NEW l \in Links, NEW t \in Tasks,
         NEW r \in task[t].rows, Passes(t, r), l = r.link, Settles(t, r)
  PROVE  PolicyFor(l)'
<1> DEFINE x == task[t]
<1>1. x.stage = "match" /\ r \in Rows /\ l \in x.calm
  BY SkipMoves, RestoreMoves, ReapplyMoves DEF Passes, Settles
<1>2. CalmTask(x, l, db, core[l])
  BY <1>1 DEF CalmRows
<1>3. \A s \in db : s.link = l => s = r
  BY DEF Settles, RowsOf
<1>4. \A s \in x.rows : s.link = l => s = r
  BY <1>2, <1>3 DEF CalmTask
<1>5. PICK p \in PolicyRecord : SamePolicy(r, p)
  <2>1. [limit |-> r.limit, active |-> r.active] \in PolicyRecord
    BY <1>1 DEF Rows, PolicyRecord
  <2>2. SamePolicy(r, [limit |-> r.limit, active |-> r.active])
    BY DEF SamePolicy
  <2> QED BY <2>1, <2>2
<1>6. RowsAgree(l, p, db) /\ \A s \in x.rows : s.link = l => SamePolicy(s, p)
  BY <1>3, <1>4, <1>5 DEF RowsAgree
<1>7. \A o \in Tasks \ {t} : Quiet(task[o], l) /\ ~Inserts(task[o], l)
  BY <1>1 DEF Undisturbed, Settles, Inserts, At
<1>8. Skip(t, r) /\ core[l].there => SamePolicy(core[l], p)
  <2>1. ASSUME Skip(t, r), core[l].there PROVE SamePolicy(core[l], p)
    <3>1. x.live[l].there /\ SamePolicy(r, x.live[l])
      BY <2>1, SkipMoves, PolicyFields
    <3>2. SamePolicy(core[l], x.live[l])
      BY <1>1, <1>2, <1>3, <2>1, <3>1 DEF CalmTask
    <3> QED BY <1>5, <3>1, <3>2 DEF SamePolicy
  <2> QED BY <2>1
<1> QED BY <1>5, <1>6, <1>7, <1>8, PassAgrees

LEMMA InitPolicy == Init => PolicyInv
<1> SUFFICES ASSUME Init, NEW l \in Links PROVE PolicyFor(l)
  BY DEF PolicyInv
<1>1. PICK p \in PolicyRecord : p.limit = 0 /\ p.active = TRUE
  <2>1. [limit |-> 0, active |-> TRUE] \in PolicyRecord
    BY LinkSyncAssumption DEF PolicyRecord
  <2> QED BY <2>1
<1>2. db = {} /\ ~core[l].there /\ \A t \in Tasks : task[t] = Idle
  BY NoLiveTyped DEF Init
<1>3. Agrees(l, p, p)
  BY <1>2, IdleAgrees DEF Agrees, RowsAgree
<1> QED BY <1>3 DEF PolicyFor

LEMMA StartKeepsPolicy ==
  ASSUME Typed, NEW l \in Links, PolicyFor(l), NEW t \in Tasks, Start(t)
  PROVE  PolicyFor(l)'
<1>1. PICK x : Starts(t, x)
  BY StartMoves
<1>2. PICK y : Acts(t, y) /\ Fresh(x, y)
  BY <1>1, StartTyped
<1>3. PICK p, q \in PolicyRecord : Agrees(l, p, q)
  BY DEF PolicyFor
<1>4. /\ y.stage \in {"post", "patch", "erase", "get", "rows"} /\ y.rows = {}
      /\ y.known = IF y.op = "list" THEN LinksOf(db) ELSE {}
      /\ UNCHANGED <<db, core, revived>> /\ task[t].stage = "idle"
  BY <1>1, <1>2 DEF Starts, Fresh, Begin, At
<1>5. TaskAgrees(y, l, p, q, core[l].there, revived, db)
  BY <1>4 DEF TaskAgrees, Inserts, Writes, LinksOf
<1> QED BY <1>2, <1>3, <1>4, <1>5, AgreeStill

LEMMA CoreKeepsPolicy ==
  ASSUME NEW l \in Links, PolicyFor(l), UNCHANGED <<db, task, revived>>, LeavesPolicy(l)
  PROVE  PolicyFor(l)'
<1>1. PICK p, q \in PolicyRecord : Agrees(l, p, q)
  BY DEF PolicyFor
<1>2. core'[l].there => SamePolicy(core'[l], q) /\ core[l].there
  BY <1>1 DEF Agrees, LeavesPolicy, SamePolicy
<1>3. ASSUME NEW t \in Tasks
      PROVE  TaskAgrees(task[t], l, p, q, core'[l].there, revived, db)
  <2>1. TaskAgrees(task[t], l, p, q, core[l].there, revived, db)
    BY <1>1 DEF Agrees
  <2> QED BY <1>2, <2>1 DEF TaskAgrees
<1> QED BY <1>1, <1>2, <1>3 DEF Agrees, PolicyFor

LEMMA NextPolicy ==
  ASSUME Meetings, CalmRows, PolicyInv, [Next]_vars
  PROVE  PolicyInv'
<1> USE DEF Meetings
<1> SUFFICES ASSUME NEW l \in Links, "policy" \notin doubt'[l] PROVE PolicyFor(l)'
  BY DEF PolicyInv
<1>1. CASE "policy" \in doubt[l]
  <2>1. PICK t \in Tasks : \E r \in task[t].rows :
          Passes(t, r) /\ l = r.link /\ Settles(t, r)
    BY <1>1, DoubtShrinks
  <2> QED BY <2>1, SettledAgrees
<1>2. CASE "policy" \notin doubt[l]
  <2>1. PolicyFor(l) /\ Certain(l)
    BY <1>2 DEF PolicyInv, Certain
  <2>2. ASSUME NEW t \in Tasks, Start(t) PROVE PolicyFor(l)'
    BY <2>1, <2>2, StartKeepsPolicy
  <2>3. ASSUME NEW t \in Tasks, Proceed(t) PROVE PolicyFor(l)'
    <3>1. CASE CallFails(t) \/ Insert(t) \/ \E k \in Links : Post(t, k)
      BY <2>1, <3>1, CreateKeepsPolicy
    <3>2. CASE Erase(t) \/ Drop(t)
      BY <2>1, <3>2, DeleteKeepsPolicy
    <3>3. CASE Patch(t) \/ Store(t)
      BY <2>1, <3>3, UpdateKeepsPolicy
    <3>4. CASE \/ Get(t) /\ task[t].op = "list"
               \/ Reread(t)
               \/ \E k \in Links : Import(t, k) \/ Refresh(t, k)
      BY <2>1, <3>4, ListKeepsPolicy
    <3>5. CASE \/ Get(t) /\ task[t].op # "list"
               \/ ReadRows(t)
               \/ \E r \in task[t].rows : Passes(t, r) \/ MatchFails(t, r)
      BY <2>1, <3>5, DeployKeepsPolicy
    <3> QED BY <2>3, <3>1, <3>2, <3>3, <3>4, <3>5 DEF Proceed, Passes
  <2>4. ASSUME NEW k \in Links, Relay(k) PROVE PolicyFor(l)'
    <3>1. LeavesPolicy(l)
      <4>1. SamePolicy(core'[k], core[k]) /\ core[k].there
        BY <2>4, RelayMoves, PolicyFields DEF In
      <4> QED BY <2>4, <4>1, RelayMoves DEF LeavesPolicy, SamePolicy
    <3> QED BY <2>1, <2>4, <3>1, RelayMoves, CoreKeepsPolicy
  <2>5. CASE Wipe
    <3>1. LeavesPolicy(l)
      BY <2>5, WipeMoves DEF LeavesPolicy, Absent
    <3> QED BY <2>1, <2>5, <3>1, WipeMoves, CoreKeepsPolicy
  <2>6. CASE UNCHANGED vars
    <3>1. LeavesPolicy(l) /\ UNCHANGED <<db, task, revived>>
      BY <2>6 DEF vars, LeavesPolicy, SamePolicy
    <3> QED BY <2>1, <3>1, CoreKeepsPolicy
  <2> QED BY <2>2, <2>3, <2>4, <2>5, <2>6 DEF Next
<1> QED BY <1>1, <1>2

LEMMA AgreementIsEnough == Typed /\ PolicyInv => PolicyHolds
<1> SUFFICES ASSUME Typed, PolicyInv PROVE PolicyAgrees
  BY TypedIsTypeOK DEF PolicyHolds
<1> SUFFICES ASSUME NEW r \in db, In(r.link), "policy" \notin doubt[r.link],
                    r.link \notin revived,
                    \A t \in Tasks : At(t, "store") => task[t].link # r.link
             PROVE  Policy(r) = Policy(core[r.link])
  BY DEF PolicyAgrees
<1>1. r.link \in Links
  BY DEF Typed, RowSets, Rows
<1>2. PICK p, q \in PolicyRecord : Agrees(r.link, p, q)
  BY <1>1 DEF PolicyInv, PolicyFor
<1>3. \A t \in Tasks : ~Writes(task[t], r.link, "limit") /\ ~Writes(task[t], r.link, "active")
  BY DEF Writes, At
<1>4. SamePolicy(r, p) /\ SamePolicy(core[r.link], q) /\ SamePolicy(p, q)
  BY <1>2, <1>3 DEF Agrees, RowsAgree, In, SamePolicy
<1>5. SamePolicy(r, core[r.link])
  BY <1>4 DEF SamePolicy
<1> QED BY <1>5, PolicyFields

(* Unless two operations met on the link, an answer was lost since the     *)
(* last undisturbed reconciliation, or a disabled link was brought back,   *)
(* the row and the Core have the same policy whenever no update is between *)
(* its two writes (PATCH to the Core, UPDATE of the row): no interleaving  *)
(* of imports, listings, restores, repairs, deletions and wiped Cores sets *)
(* them apart, for every number of links, operations and limits.           *)
THEOREM RowsAndCoreAgree == Spec => []PolicyHolds
<1>1. Init => Meetings /\ CalmRows /\ PolicyInv
  BY InitMeets, InitCalm, InitPolicy
<1>2. Meetings /\ CalmRows /\ PolicyInv /\ [Next]_vars => (Meetings /\ CalmRows /\ PolicyInv)'
  BY NextMeets, NextCalm, NextPolicy
<1>3. Meetings /\ CalmRows /\ PolicyInv => PolicyHolds
  BY AgreementIsEnough DEF Meetings
<1> QED BY <1>1, <1>2, <1>3, PTL DEF Spec
=============================================================================
