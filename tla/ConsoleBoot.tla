---------------------------- MODULE ConsoleBoot -----------------------------
(***************************************************************************)
(* The database before the Console serves (db.py, migrations_pg.py): what  *)
(* the boot of either backend adds to the schema, in which order and with  *)
(* which transactions, and the seed of the first administrator.  A boot may*)
(* be killed between any two statements, and the next finds what it left.  *)
(*                                                                         *)
(* The schema is the set of what the code's queries need and a migration   *)
(* or a patch adds: <<table>>, and <<table, column>> for the columns that  *)
(* came after the first release.  The bodies of the tables are left out.   *)
(***************************************************************************)
EXTENDS Integers, Sequences, FiniteSets, SequencesExt

CONSTANTS
  MaxBoots   \* bound: boots in a behaviour

VARIABLES
  backend,   \* "postgres" or "sqlite"
  boot,      \* where the boot is: "down", "pool", "migrate", "script", "patch", "count", "seed", "up"
  step,      \* the migration or patch that is next
  schema,    \* what the database has
  names,     \* schema_migrations
  seeds,     \* rows of users that a seed inserted
  boots      \* boots begun

bootVars == <<backend, boot, step, schema, names, seeds, boots>>

Tables(ts) == {<<t>> : t \in ts}
FirstTables == Tables({"users", "sessions", "instances", "instance_configs", "workers",
                       "deployments", "deployment_logs", "domains", "metrics", "activity_events"})
(* SQLITE_PATCHES, in their order, and the three migrations that add the   *)
(* same columns.                                                           *)
PatchedColumns(table, columns) == [i \in DOMAIN columns |-> <<table, columns[i]>>]
VolumeColumns == PatchedColumns("instance_volume", <<"time_limit_days", "expires_at">>)
LinkColumns == PatchedColumns("instance_links",
  <<"protocol", "limit_bytes", "expires_at", "speed_limit_bytes", "ip_limit", "active", "used_cache", "used_at">>)
PolicyColumn == PatchedColumns("instance_configs", <<"link_policy">>)
Patches == VolumeColumns \o LinkColumns \o PolicyColumn

(* MIGRATIONS: the name, and what it adds, in the order they are applied.  *)
Migrations ==
  << [name |-> 1, adds |-> FirstTables],
     [name |-> 2, adds |-> Tables({"oauth_states"})],
     [name |-> 6, adds |-> {<<"instance_configs", "protocols">>}],
     [name |-> 5, adds |-> {<<"instances", "public_host">>}],
     [name |-> 4, adds |-> Tables({"instance_links"})],
     [name |-> 3, adds |-> {<<"users", "password_hash">>}],
     [name |-> 7, adds |-> Tables({"instance_volume"})],
     [name |-> 8, adds |-> ToSet(VolumeColumns)],
     [name |-> 9, adds |-> ToSet(LinkColumns \o PolicyColumn)] >>

(* SQLITE_SCHEMA with all its columns; CREATE TABLE IF NOT EXISTS leaves a *)
(* table of an earlier release as it is, and the patches add its columns.  *)
FirstColumns == {<<"instance_configs", "protocols">>, <<"instances", "public_host">>,
                 <<"users", "password_hash">>}
ScriptTables == <<"users", "sessions", "instances", "instance_configs", "workers", "deployments",
                  "deployment_logs", "domains", "instance_links", "metrics", "activity_events",
                  "oauth_states", "instance_volume">>
Columns == FirstColumns \cup ToSet(Patches)
Everything == Tables(ToSet(ScriptTables)) \cup Columns
TableOf(c) == c[1]

(* A new database, or a file of the release that had no link policies.     *)
BootInit ==
  /\ backend \in {"postgres", "sqlite"}
  /\ boot = "down" /\ step = 1 /\ names = {} /\ seeds = 0 /\ boots = 0
  /\ \/ schema = {}
     \/ backend = "sqlite" /\ schema = Tables(ToSet(ScriptTables)) \cup FirstColumns

At(from, to) == boot = from /\ boot' = to

(* init_pool.                                                              *)
BeginBoot ==
  /\ boots < MaxBoots
  /\ boots' = boots + 1
  /\ At("down", IF backend = "postgres" THEN "pool" ELSE "script")
  /\ step' = 1
  /\ UNCHANGED <<backend, schema, names, seeds>>

(* _connect_with_retry: wrong credentials end the boot at once, and thirty *)
(* attempts without an answer do.                                          *)
Connected ==
  /\ At("pool", "migrate")
  /\ UNCHANGED <<backend, step, schema, names, seeds, boots>>

ConnectFails ==
  /\ At("pool", "down")
  /\ UNCHANGED <<backend, step, schema, names, seeds, boots>>

(* Mutant of Applied: the two statements commit one by one.                *)
AppliedApart(m) == schema' = schema \cup m.adds /\ names' \in {names, names \cup {m.name}}

(* The transaction of a migration: the SQL, and the row that records it.   *)
Applied(m) == schema' = schema \cup m.adds /\ names' = names \cup {m.name}

(* migrate: those without a row, in their order.                           *)
Migrate ==
  /\ boot = "migrate" /\ step <= Len(Migrations)
  /\ IF Migrations[step].name \in names THEN UNCHANGED <<schema, names>>
     ELSE Applied(Migrations[step])
  /\ step' = step + 1
  /\ UNCHANGED <<backend, boot, seeds, boots>>

Migrated ==
  /\ step > Len(Migrations)
  /\ At("migrate", "count")
  /\ UNCHANGED <<backend, step, schema, names, seeds, boots>>

(* executescript commits every statement: a killed boot has the first ones.*)
RunScript ==
  \E k \in 0..Len(ScriptTables) :
    LET new == Tables({ScriptTables[i] : i \in 1..k}) \ schema
    IN /\ boot = "script"
       /\ boot' = IF k = Len(ScriptTables) THEN "patch" ELSE "down"
       /\ schema' = schema \cup new \cup {c \in Columns : <<TableOf(c)>> \in new}
       /\ UNCHANGED <<backend, step, names, seeds, boots>>

(* _sqlite_patch_schema: each column that is not there, in a statement of  *)
(* its own.  A statement that fails is skipped, which is left out: it is   *)
(* not one the code's own schema meets.                                    *)
Patch ==
  /\ boot = "patch" /\ step <= Len(Patches)
  /\ schema' = schema \cup {Patches[step]}
  /\ step' = step + 1
  /\ UNCHANGED <<backend, boot, names, seeds, boots>>

Patched ==
  /\ step > Len(Patches)
  /\ At("patch", "count")
  /\ UNCHANGED <<backend, step, schema, names, seeds, boots>>

(* Mutant of NeedsSeed: the count is not asked for.                        *)
NeedsSeedAlways == TRUE

(* _seed_default_admin: the count, then the INSERT.                        *)
NeedsSeed == seeds = 0

CountUsers ==
  /\ At("count", IF NeedsSeed THEN "seed" ELSE "up")
  /\ UNCHANGED <<backend, step, schema, names, seeds, boots>>

Seed ==
  /\ At("seed", "up")
  /\ seeds' = seeds + 1
  /\ UNCHANGED <<backend, step, schema, names, boots>>

(* The process is killed, during the boot or later.                        *)
BootKilled ==
  /\ boot # "down" /\ boot' = "down"
  /\ UNCHANGED <<backend, step, schema, names, seeds, boots>>

-----------------------------------------------------------------------------
BootTypeOK ==
  /\ schema \subseteq Everything
  /\ seeds \in 0..1 /\ names \subseteq 1..9

(* A Console that serves has every table and column its queries name, one  *)
(* administrator that a boot seeded, and (on PostgreSQL) a record of what  *)
(* was applied that agrees with the schema, wherever boots were killed.    *)
ServesWithSchema == boot = "up" => schema = Everything /\ seeds = 1

RecordAgrees ==
  backend = "postgres" =>
    \A i \in DOMAIN Migrations :
      IF Migrations[i].name \in names THEN Migrations[i].adds \subseteq schema
      ELSE Migrations[i].adds \cap schema = {}

BootHolds == ServesWithSchema /\ RecordAgrees
=============================================================================
