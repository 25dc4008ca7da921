---------------------------- MODULE ConfigBackup ----------------------------
(***************************************************************************)
(* The rows that say which instances there are (routers/instances.py) and  *)
(* the configuration backup over them (services/backup.py, routers/        *)
(* backup.py): an export of one Console, restored into another one.        *)
(*                                                                         *)
(* create_instance asks twice and then inserts four rows, each a statement *)
(* that commits by itself; a backup reads, or checks and inserts, in one   *)
(* transaction that excludes those statements.  Of a document are kept the *)
(* instances with their owner, slug and status, and the ids that have a    *)
(* configuration and an endpoint.  The owner is one user of both Consoles'.*)
(***************************************************************************)
EXTENDS Integers, FiniteSets

CONSTANTS
  Slugs,         \* names, as slugify leaves them
  Creates,       \* requests that create an instance; each has an id of its own
  InstanceCap,   \* instances a user may have
  MaxRows        \* MAX_ROWS of a document

ASSUME BackupAssumption ==
  {InstanceCap, MaxRows} \subseteq Nat \ {0} /\ IsFiniteSet(Creates)

Consoles == {"source", "target"}

VARIABLES
  instances,   \* the rows of each Console: [id, slug, status]
  configs,     \* ids with a row in instance_configs
  endpoints,   \* the rows of domains: [id, active]
  create,      \* of each request: [at, where, slug]
  document,    \* the exported backup, [instances, configs, endpoints], its set "none" before
  imported,    \* history: ids restored into the target
  overlap      \* history: for each Console the most requests it had between count and INSERT

backupDbVars == <<instances, configs, endpoints, create, document, imported, overlap>>

NoDocument == [ready |-> FALSE, instances |-> {}, configs |-> {}, endpoints |-> {}]
Unborn == [at |-> "idle", where |-> "source", slug |-> "none"]

ConfigInit ==
  /\ instances = [c \in Consoles |-> {}]
  /\ configs = [c \in Consoles |-> {}]
  /\ endpoints = [c \in Consoles |-> {}]
  /\ create = [q \in Creates |-> Unborn]
  /\ document = NoDocument /\ imported = {}
  /\ overlap = [c \in Consoles |-> 0]

Ids(rows) == {r.id : r \in rows}
Existing(rows) == {r \in rows : r.status # "deleted"}

(* Mutant of Collides: a schema without UNIQUE (user_id, slug).            *)
CollidesById(rows, id, slug) == \E r \in rows : r.id = id

(* UNIQUE (user_id, slug), and the primary key: over deleted rows too.     *)
Collides(rows, id, slug) == \E r \in rows : r.id = id \/ r.slug = slug

-----------------------------------------------------------------------------
(* create_instance: the count, the look for the name, then the INSERTs.    *)
Moves(q, from, to) == create[q].at = from /\ create' = [create EXCEPT ![q].at = to]

Asking(c) == {q \in Creates : create[q].where = c /\ create[q].at \in {"name", "insert"}}
Larger(m, n) == IF m >= n THEN m ELSE n

CountInstances(q, c, slug) ==
  /\ create[q].at = "idle"
  /\ Cardinality(Existing(instances[c])) < InstanceCap
  /\ create' = [create EXCEPT ![q] = [at |-> "name", where |-> c, slug |-> slug]]
  /\ overlap' = [overlap EXCEPT ![c] = Larger(@, Cardinality(Asking(c) \cup {q}))]
  /\ UNCHANGED <<instances, configs, endpoints, document, imported>>

FindName(q) ==
  LET rows == instances[create[q].where]
      dup == \E r \in Existing(rows) : r.slug = create[q].slug
  IN /\ Moves(q, "name", IF dup THEN "refused" ELSE "insert")
     /\ UNCHANGED <<instances, configs, endpoints, document, imported, overlap>>

(* Where the name was taken in between, or belonged to a deleted instance, *)
(* the constraint refuses what the look allowed.                           *)
InsertInstance(q) ==
  LET c == create[q].where
      row == [id |-> q, slug |-> create[q].slug, status |-> "stopped"]
  IN /\ IF Collides(instances[c], q, row.slug)
        THEN Moves(q, "insert", "refused") /\ UNCHANGED instances
        ELSE /\ Moves(q, "insert", "config")
             /\ instances' = [instances EXCEPT ![c] = @ \cup {row}]
     /\ UNCHANGED <<configs, endpoints, document, imported, overlap>>

InsertConfig(q) ==
  /\ Moves(q, "config", "endpoint")
  /\ configs' = [configs EXCEPT ![create[q].where] = @ \cup {q}]
  /\ UNCHANGED <<instances, endpoints, document, imported, overlap>>

InsertEndpoint(q) ==
  /\ Moves(q, "endpoint", "done")
  /\ endpoints' = [endpoints EXCEPT ![create[q].where] = @ \cup {[id |-> q, active |-> TRUE]}]
  /\ UNCHANGED <<instances, configs, document, imported, overlap>>

(* The Console is killed: its requests end where they are.                 *)
ConsoleKilled(c) ==
  LET open == {q \in Creates : create[q].where = c /\ create[q].at \notin {"idle", "refused", "done", "lost"}}
  IN /\ open # {}
     /\ create' = [q \in Creates |-> IF q \in open THEN [create[q] EXCEPT !.at = "lost"] ELSE create[q]]
     /\ UNCHANGED <<instances, configs, endpoints, document, imported, overlap>>

(* delete_instance leaves the row; a deployment makes it run.              *)
SetStatus(c, r, status) ==
  /\ r \in Existing(instances[c]) /\ r.status # status
  /\ instances' = [instances EXCEPT ![c] = (@ \ {r}) \cup {[r EXCEPT !.status = status]}]
  /\ UNCHANGED <<configs, endpoints, create, document, imported, overlap>>

-----------------------------------------------------------------------------
(* validate: unique keys, a self-contained graph, a configuration for every*)
(* instance, and not too many rows.                                        *)
SelfContained(doc) ==
  /\ Ids(doc.endpoints) \subseteq Ids(doc.instances)
  /\ doc.configs \subseteq Ids(doc.instances)
  /\ \A r, o \in doc.instances : (r.id = o.id \/ r.slug = o.slug) => r = o

(* Mutant of Valid: an instance need not have one.                         *)
ValidWithout(doc) == SelfContained(doc)

Valid(doc) ==
  /\ SelfContained(doc)
  /\ doc.configs = Ids(doc.instances)
  /\ Cardinality(doc.instances) + Cardinality(doc.configs) + Cardinality(doc.endpoints) <= MaxRows

(* export_backup, on a snapshot; it is offered only when it can be restored.*)
Snapshot(c) == [ready |-> TRUE, instances |-> instances[c], configs |-> configs[c], endpoints |-> endpoints[c]]

Export ==
  /\ Valid(Snapshot("source"))
  /\ document' = Snapshot("source")
  /\ UNCHANGED <<instances, configs, endpoints, create, imported, overlap>>

(* find_conflicts: any key that a live row has too.                        *)
Conflicts(rows, doc) == \E r \in doc.instances : Collides(rows, r.id, r.slug)

(* _insert_row: stopped, and with no endpoint that answers.                *)
AsImported(r) == [r EXCEPT !.status = "stopped"]

(* restore_backup: the check and the INSERTs in one transaction, that locks*)
(* out the other writers.                                                  *)
Restore ==
  /\ document.ready /\ document.instances # {} /\ ~Conflicts(instances["target"], document)
  /\ instances' = [instances EXCEPT !["target"] = @ \cup {AsImported(r) : r \in document.instances}]
  /\ configs' = [configs EXCEPT !["target"] = @ \cup document.configs]
  /\ endpoints' = [endpoints EXCEPT !["target"] =
                     @ \cup {[e EXCEPT !.active = FALSE] : e \in document.endpoints}]
  /\ imported' = imported \cup {[id |-> r.id, was |-> r.status] : r \in document.instances}
  /\ UNCHANGED <<create, document, overlap>>

-----------------------------------------------------------------------------
ConfigTypeOK ==
  /\ \A c \in Consoles :
       /\ instances[c] \subseteq [id : Creates, slug : Slugs, status : {"stopped", "running", "deleted"}]
       /\ configs[c] \subseteq Creates
       /\ Ids(endpoints[c]) \subseteq Creates
  /\ document.ready \in BOOLEAN

(* An instance has no configuration only while its request is between two  *)
(* INSERTs, or because the Console died there; and no export, nor what is  *)
(* restored from it, ever has such an instance.                            *)
HalfMade(c) == {r \in instances[c] : r.id \notin configs[c]}

HalfMadeIsKnown ==
  /\ \A c \in Consoles : \A r \in HalfMade(c) :
       create[r.id].where = c /\ create[r.id].at \in {"config", "lost"}
  /\ Ids(imported) \subseteq configs["target"]

(* However the checks and the INSERTs of requests and restores interleave, *)
(* no two rows of a user have one slug, each instance has one row; and over*)
(* the cap are at most as many as requests ever overlapped, less one, and  *)
(* what came in a backup, which does not ask for it.                       *)
OwnRows(c) == {r \in Existing(instances[c]) : c = "target" => r.id \notin Ids(imported)}

RowsDisjoint ==
  \A c \in Consoles :
    /\ \A r, o \in instances[c] : (r.id = o.id \/ r.slug = o.slug) => r = o
    /\ Cardinality(OwnRows(c)) < InstanceCap + overlap[c]

(* "Imported instances are stopped": what a restore brought in answers on  *)
(* no endpoint, since none of its rows is active.                          *)
ImportedIsSilent == \A e \in endpoints["target"] : e.id \in Ids(imported) => ~e.active

ConfigHolds == HalfMadeIsKnown /\ RowsDisjoint /\ ImportedIsSilent

(* What a user has deleted does not come back with a backup: it does, as   *)
(* the export has the tombstones and the import makes them stopped.        *)
DeletedStaysAway ==
  \A r \in Existing(instances["target"]) : [id |-> r.id, was |-> "deleted"] \notin imported
=============================================================================
