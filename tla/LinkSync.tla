------------------------------ MODULE LinkSync ------------------------------
(***************************************************************************)
(* The configs (links) of one instance, kept twice: as rows of the         *)
(* Console's table instance_links and as links of the Core, which enforces *)
(* them (console/api/emunel_console/services/links.py; the provisioning    *)
(* and the reconciliation of services/deployments.py; the link handlers of *)
(* core/emunel_core/app.py).                                               *)
(*                                                                         *)
(* Every operation is a coroutine that switches at each statement to the   *)
(* database and at each call to the Core, so operations on one link        *)
(* interleave.  A call may fail before it reaches the Core, or lose its    *)
(* answer after the Core has acted.                                        *)
(*                                                                         *)
(* A policy is a limit and the active flag: expiry, speed and IP cap are   *)
(* read, sent and stored at the same places as the limit.  Labels,         *)
(* validation, activity events and protocols are left out; so is the       *)
(* Core's own state file (StateStore): a Core keeps all links or loses all.*)
(***************************************************************************)
EXTENDS Naturals, FiniteSets, TLC

CONSTANTS
  Links,    \* UUIDs; the Core draws a new one for every link it creates
  Tasks,    \* requests and deployments in progress at a time
  Limits,   \* limits the operator sets, 0 = unlimited
  MaxUsed,  \* bound of the model: bytes a link relays
  None

ASSUME LinkSyncAssumption ==
  /\ 0 \in Limits /\ Limits \subseteq Nat
  /\ MaxUsed \in Nat
  /\ None \notin Links

VARIABLES
  db,       \* instance_links: a set, because nothing keeps a UUID unique
  core,     \* the LinkStore of the Core
  born,     \* UUIDs drawn so far
  task,     \* the operations in progress
  doubt,    \* history: what of a link two operations, or a lost answer, blurred
  revived,  \* history: links restored in the Core while their row is disabled
  gone      \* history: links deleted on both sides that nobody remembers

vars == <<db, core, born, task, doubt, revived, gone>>

Symmetry == Permutations(Tasks)   \* for TLC

Absent == [limit |-> 0, active |-> FALSE, used |-> 0, there |-> FALSE]
CoreLink(limit, active, used) ==
  [limit |-> limit, active |-> active, used |-> used, there |-> TRUE]
Row(l, limit, active, used) == [link |-> l, limit |-> limit, active |-> active, used |-> used]

(* What a PATCH changes: a key that the body does not have stays.          *)
Edits == [{"limit"} -> Limits] \cup [{"active"} -> BOOLEAN] \cup [{"used"} -> {0}]
Edited(x, e) == [f \in DOMAIN x |-> IF f \in DOMAIN e THEN e[f] ELSE x[f]]

NoLive == [l \in Links |-> Absent]
Idle ==
  [op |-> "none", stage |-> "idle", link |-> None, edit |-> << >>, limit |-> 0,
   known |-> {}, todo |-> {}, rows |-> {}, live |-> NoLive, calm |-> {}]

At(t, s)    == task[t].stage = s
In(l)       == core[l].there
RowsOf(l)   == {r \in db : r.link = l}
LinksOf(rs) == {r.link : r \in rs}
Policy(x)   == <<x.limit, x.active>>

Finish(t)     == task' = [task EXCEPT ![t] = Idle]
Walk(t, x)    == task' = [task EXCEPT ![t] = IF x.rows = {} /\ x.todo = {} THEN Idle ELSE x]
RowDone(t, r) == Walk(t, [task[t] EXCEPT !.rows = @ \ {r}])
Blur(ls)      == doubt' = [l \in Links |-> IF l \in ls THEN {"policy", "use"} ELSE doubt[l]]
Knows(t, l)   == \/ l = task[t].link \/ l \in task[t].known \/ l \in LinksOf(task[t].rows)
                 \/ task[t].live[l].there

-----------------------------------------------------------------------------
(* The links whose policy an operation reads or writes on both sides.      *)
Touched(x) ==
  CASE x.op \in {"list", "deploy"}   -> Links
    [] x.op \in {"update", "create"} -> {x.link} \cap Links
    [] OTHER                         -> {}

(* Two such operations on one link, unless both are listings or one of     *)
(* them only records a new link.                                           *)
Clash(x, y) ==
  /\ x.op # "list" \/ y.op # "list"
  /\ "create" \in {x.op, y.op} => "update" \in {x.op, y.op}

Met(x, y) == IF Clash(x, y) THEN Touched(x) \cap Touched(y) ELSE {}

(* An operation starts: the links on which it meets another one are no     *)
(* longer certain, nor is a reconciliation undisturbed there.              *)
Begin(t, x) ==
  LET met == UNION {Met(x, task[o]) : o \in Tasks} IN
  /\ At(t, "idle")
  /\ task' = [o \in Tasks |->
                IF o = t THEN [x EXCEPT !.calm = IF x.op = "deploy" THEN Links \ met ELSE {}]
                ELSE [task[o] EXCEPT !.calm = @ \ Met(x, task[o])]]
  /\ Blur(met)

(* Bound of the model: nothing is created when the UUIDs have run out.     *)
BeginCreate(t, limit) ==
  /\ born # Links
  /\ Begin(t, [Idle EXCEPT !.op = "create", !.stage = "post", !.limit = limit])
  /\ UNCHANGED <<db, core, born, revived, gone>>

(* update_link and delete_link look for the row first: without it, 404.    *)
BeginUpdate(t, l, e) ==
  /\ RowsOf(l) # {}
  /\ Begin(t, [Idle EXCEPT !.op = "update", !.stage = "patch", !.link = l, !.edit = e])
  /\ UNCHANGED <<db, core, born, revived, gone>>

BeginDelete(t, l) ==
  /\ RowsOf(l) # {}
  /\ Begin(t, [Idle EXCEPT !.op = "delete", !.stage = "erase", !.link = l])
  /\ UNCHANGED <<db, core, born, revived, gone>>

BeginList(t) ==
  /\ Begin(t, [Idle EXCEPT !.op = "list", !.stage = "get", !.known = LinksOf(db)])
  /\ UNCHANGED <<db, core, born, revived, gone>>

(* _provision_default_link: an instance without a row gets its first link  *)
(* with the policy of the wizard; any other one is reconciled at once.     *)
BeginDeploy(t, limit) ==
  /\ db = {} => born # Links
  /\ Begin(t, [Idle EXCEPT !.op = "deploy", !.stage = IF db = {} THEN "post" ELSE "rows",
                           !.limit = IF db = {} THEN limit ELSE 0])
  /\ UNCHANGED <<db, core, born, revived, gone>>

-----------------------------------------------------------------------------
(* The call fails, or the Core answers 404: the operation ends with an     *)
(* error.  A listing without the Core shows the rows as they are.          *)
CallFails(t) ==
  /\ task[t].stage \in {"post", "patch", "get"}
  /\ Finish(t)
  /\ UNCHANGED <<db, core, born, doubt, revived, gone>>

(* core_links_create, with a UUID of its own.                              *)
Post(t, l) ==
  /\ At(t, "post")
  /\ l \notin born
  /\ born' = born \cup {l}
  /\ core' = [core EXCEPT ![l] = CoreLink(task[t].limit, TRUE, 0)]
  /\ \/ Finish(t)
     \/ task' = [task EXCEPT ![t].stage = "insert", ![t].link = l]
  /\ UNCHANGED <<db, doubt, revived, gone>>

Insert(t) ==
  /\ At(t, "insert")
  /\ db' = db \cup {Row(task[t].link, task[t].limit, TRUE, 0)}
  /\ IF task[t].op = "deploy"
     THEN task' = [task EXCEPT ![t].stage = "rows", ![t].link = None]
     ELSE Finish(t)
  /\ UNCHANGED <<core, born, doubt, revived, gone>>

(* core_links_update: the Core changes at once; the row only after the     *)
(* answer, which may be lost.                                              *)
Patch(t) ==
  LET l == task[t].link IN
  /\ At(t, "patch")
  /\ In(l)
  /\ core' = [core EXCEPT ![l] = Edited(@, task[t].edit)]
  /\ \/ Finish(t) /\ Blur({l})
     \/ task' = [task EXCEPT ![t].stage = "store"] /\ UNCHANGED doubt
  /\ UNCHANGED <<db, born, revived, gone>>

Store(t) ==
  LET l == task[t].link IN
  /\ At(t, "store")
  /\ db' = {IF r.link = l THEN Edited(r, task[t].edit) ELSE r : r \in db}
  /\ Finish(t)
  /\ UNCHANGED <<core, born, doubt, revived, gone>>

(* delete_link: whatever becomes of the DELETE, the row is dropped after.  *)
Erase(t) ==
  /\ At(t, "erase")
  /\ \/ core' = [core EXCEPT ![task[t].link] = Absent]
     \/ UNCHANGED core
  /\ task' = [task EXCEPT ![t].stage = "drop"]
  /\ UNCHANGED <<db, born, doubt, revived, gone>>

(* Mutant of Drop: only one row with the UUID is deleted.                  *)
DropFirst(t) ==
  LET l == task[t].link IN
  /\ At(t, "drop")
  /\ IF RowsOf(l) = {} THEN UNCHANGED db ELSE \E r \in RowsOf(l) : db' = db \ {r}
  /\ gone' = IF In(l) \/ \E o \in Tasks \ {t} : task[o].op # "delete" /\ Knows(o, l)
             THEN gone ELSE gone \cup {l}
  /\ task' = [o \in Tasks |-> IF o = t THEN Idle ELSE [task[o] EXCEPT !.calm = @ \ {l}]]
  /\ UNCHANGED <<core, born, doubt, revived>>

(* The row goes, and no reconciliation is undisturbed on the link.         *)
Drop(t) ==
  LET l == task[t].link IN
  /\ At(t, "drop")
  /\ db' = db \ RowsOf(l)
  /\ gone' = IF In(l) \/ \E o \in Tasks \ {t} : task[o].op # "delete" /\ Knows(o, l)
             THEN gone ELSE gone \cup {l}
  /\ task' = [o \in Tasks |-> IF o = t THEN Idle ELSE [task[o] EXCEPT !.calm = @ \ {l}]]
  /\ UNCHANGED <<core, born, doubt, revived>>

-----------------------------------------------------------------------------
(* The links of the Core as they are now; a reconciliation looks at their  *)
(* policies only.                                                          *)
Get(t) ==
  /\ At(t, "get")
  /\ IF task[t].op = "list"
     THEN task' = [task EXCEPT ![t].live = core, ![t].stage = "import"]
     ELSE Walk(t, [task[t] EXCEPT !.live = [l \in Links |-> [core[l] EXCEPT !.used = 0]],
                                  !.stage = "match"])
  /\ UNCHANGED <<db, core, born, doubt, revived, gone>>

(* _import_core_only: a link that the rows read before do not have.        *)
Import(t, l) ==
  LET live == task[t].live[l] IN
  /\ At(t, "import")
  /\ live.there /\ l \notin task[t].known
  /\ db' = db \cup {Row(l, live.limit, live.active, live.used)}
  /\ task' = [task EXCEPT ![t].known = @ \cup {l}]
  /\ UNCHANGED <<core, born, doubt, revived, gone>>

(* The rows are read again; those the Core knows are refreshed in turn,    *)
(* each by its UUID, so that a second row of the link changes nothing.     *)
Reread(t) ==
  /\ At(t, "import")
  /\ \A l \in Links : task[t].live[l].there => l \in task[t].known
  /\ Walk(t, [task[t] EXCEPT !.todo = {l \in LinksOf(db) : task[t].live[l].there},
                             !.known = {}, !.stage = "refresh"])
  /\ UNCHANGED <<db, core, born, doubt, revived, gone>>

(* Mutant of Refreshed: the use is added to the cached use.                *)
RefreshedAdds(r, live) ==
  [r EXCEPT !.used = @ + live.used, !.active = live.active,
            !.limit = IF live.limit = 0 THEN @ ELSE live.limit]

(* COALESCE: an unlimited link of the Core leaves the limit of the row.    *)
Refreshed(r, live) ==
  [r EXCEPT !.used = live.used, !.active = live.active,
            !.limit = IF live.limit = 0 THEN @ ELSE live.limit]

Refresh(t, l) ==
  /\ At(t, "refresh")
  /\ l \in task[t].todo
  /\ db' = {IF r.link = l THEN Refreshed(r, task[t].live[l]) ELSE r : r \in db}
  /\ Walk(t, [task[t] EXCEPT !.todo = @ \ {l}])
  /\ UNCHANGED <<core, born, doubt, revived, gone>>

-----------------------------------------------------------------------------
(* reconcile_after_deploy reads the rows, then the links of the Core.      *)
ReadRows(t) ==
  /\ At(t, "rows")
  /\ task' = [task EXCEPT ![t].rows = db, ![t].stage = "get"]
  /\ UNCHANGED <<db, core, born, doubt, revived, gone>>

(* After an undisturbed pass the policy of the link is certain again, if   *)
(* the link has one row and no creation is about to add another.           *)
Settle(t, r) ==
  doubt' = IF /\ r.link \in task[t].calm
              /\ RowsOf(r.link) = {r}
              /\ \A o \in Tasks : At(o, "insert") => task[o].link # r.link
           THEN [doubt EXCEPT ![r.link] = @ \ {"policy"}] ELSE doubt

(* Mutant of Same: the active flag is not compared.                        *)
SameLimit(r, live) == r.limit = live.limit

Same(r, live) == Policy(r) = Policy(live)

Skip(t, r) ==
  /\ At(t, "match") /\ r \in task[t].rows
  /\ task[t].live[r.link].there /\ Same(r, task[t].live[r.link])
  /\ RowDone(t, r)
  /\ Settle(t, r)
  /\ revived' = revived \ {r.link}
  /\ UNCHANGED <<db, core, born, gone>>

(* A call of the reconciliation that fails is logged and passed over.      *)
MatchFails(t, r) ==
  /\ At(t, "match") /\ r \in task[t].rows
  /\ ~(task[t].live[r.link].there /\ Same(r, task[t].live[r.link]))
  /\ RowDone(t, r)
  /\ UNCHANGED <<db, core, born, doubt, revived, gone>>

(* Mutant of Restore:  the use of the link starts again from nothing.      *)
RestoreUnused(t, r) ==
  /\ At(t, "match") /\ r \in task[t].rows
  /\ ~task[t].live[r.link].there
  /\ core' = [core EXCEPT ![r.link] = CoreLink(r.limit, TRUE, 0)]
  /\ RowDone(t, r)
  /\ Settle(t, r)
  /\ revived' = IF r.active THEN revived \ {r.link} ELSE revived \cup {r.link}
  /\ UNCHANGED <<db, born, gone>>

(* The Core has lost the link: POST with its UUID, limit and cached use,   *)
(* and without the active flag, which core_links_create takes for TRUE.    *)
Restore(t, r) ==
  /\ At(t, "match") /\ r \in task[t].rows
  /\ ~task[t].live[r.link].there
  /\ core' = [core EXCEPT ![r.link] = CoreLink(r.limit, TRUE, r.used)]
  /\ RowDone(t, r)
  /\ Settle(t, r)
  /\ revived' = IF r.active THEN revived \ {r.link} ELSE revived \cup {r.link}
  /\ UNCHANGED <<db, born, gone>>

(* Limit and flag differ: PATCH with both, or 404 by now (MatchFails).     *)
Reapply(t, r) ==
  /\ At(t, "match") /\ r \in task[t].rows
  /\ task[t].live[r.link].there /\ ~Same(r, task[t].live[r.link])
  /\ In(r.link)
  /\ core' = [core EXCEPT ![r.link].limit = r.limit, ![r.link].active = r.active]
  /\ RowDone(t, r)
  /\ Settle(t, r)
  /\ revived' = revived \ {r.link}
  /\ UNCHANGED <<db, born, gone>>

-----------------------------------------------------------------------------
(* A tunnel of the link is counted, while its link is allowed.             *)
Relay(l) ==
  /\ In(l) /\ core[l].active
  /\ core[l].limit > 0 => core[l].used < core[l].limit
  /\ core[l].used < MaxUsed
  /\ core' = [core EXCEPT ![l].used = @ + 1]
  /\ UNCHANGED <<db, born, task, doubt, revived, gone>>

(* The Core comes back without its state file.                             *)
Wipe ==
  /\ \E l \in Links : In(l)
  /\ core' = NoLive
  /\ UNCHANGED <<db, born, task, doubt, revived, gone>>

Init ==
  /\ db = {}
  /\ core = NoLive
  /\ born = {}
  /\ task = [t \in Tasks |-> Idle]
  /\ doubt = [l \in Links |-> {}]
  /\ revived = {}
  /\ gone = {}

Start(t) ==
  \/ \E m \in Limits : BeginCreate(t, m) \/ BeginDeploy(t, m)
  \/ \E l \in Links : BeginDelete(t, l) \/ \E e \in Edits : BeginUpdate(t, l, e)
  \/ BeginList(t)

Proceed(t) ==
  \/ CallFails(t) \/ Insert(t) \/ Patch(t) \/ Store(t) \/ Erase(t) \/ Drop(t)
  \/ Get(t) \/ Reread(t) \/ ReadRows(t)
  \/ \E l \in Links : Post(t, l) \/ Import(t, l) \/ Refresh(t, l)
  \/ \E r \in task[t].rows :
       \/ Skip(t, r) \/ MatchFails(t, r) \/ Restore(t, r) \/ Reapply(t, r)

Next ==
  \/ \E t \in Tasks : Start(t) \/ Proceed(t)
  \/ \E l \in Links : Relay(l)
  \/ Wipe

Spec == Init /\ [][Next]_vars

-----------------------------------------------------------------------------
Rows == [link : Links, limit : Limits, active : BOOLEAN, used : 0..MaxUsed]
CoreLinks == [limit : Limits, active : BOOLEAN, used : 0..MaxUsed, there : BOOLEAN]
CoreState == [Links -> CoreLinks]

TypeOK ==
  /\ db \subseteq Rows
  /\ core \in CoreState
  /\ born \subseteq Links
  /\ \A t \in Tasks :
       /\ task[t].op \in {"none", "create", "update", "delete", "list", "deploy"}
       /\ task[t].stage \in {"idle", "post", "insert", "patch", "store", "erase", "drop",
                             "rows", "get", "import", "refresh", "match"}
       /\ task[t].link \in Links \cup {None}
       /\ task[t].known \subseteq Links /\ task[t].todo \subseteq Links
       /\ task[t].rows \subseteq Rows
       /\ task[t].live \in CoreState
  /\ doubt \in [Links -> SUBSET {"policy", "use"}]
  /\ revived \subseteq Links /\ gone \subseteq Links

(* Unless two operations met on the link, an answer was lost since the     *)
(* last undisturbed reconciliation, or that reconciliation brought back a  *)
(* disabled link, the row and the Core have the same policy whenever no    *)
(* update is between its two writes: imports, listings, restores, drift    *)
(* repairs and deletions that fail half way never set them apart.          *)
PolicyAgrees ==
  \A r \in db :
    /\ In(r.link)
    /\ "policy" \notin doubt[r.link]
    /\ r.link \notin revived
    /\ \A t \in Tasks : At(t, "store") => task[t].link # r.link
    => Policy(r) = Policy(core[r.link])

(* A link that came back after a wipe has at least the use that the        *)
(* Console last recorded, if its row is the only one (a listing may import *)
(* a link that a creation then records again): a wiped state file gives no *)
(* quota back, however late it is noticed.                                 *)
UseNotForgotten ==
  \A r \in db :
    /\ In(r.link) /\ RowsOf(r.link) = {r}
    /\ "use" \notin doubt[r.link]
    /\ \A t \in Tasks : At(t, "store") => task[t].link # r.link
    => r.used <= core[r.link].used

(* A link deleted on both sides, when no listing, provisioning or          *)
(* reconciliation in progress had read it, is never imported or restored.  *)
DeletedStaysDeleted == \A l \in gone : ~In(l) /\ RowsOf(l) = {}

(* The first, for well-typed rows and Cores.                               *)
PolicyHolds == TypeOK /\ PolicyAgrees
=============================================================================
