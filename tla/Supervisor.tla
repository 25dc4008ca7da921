----------------------------- MODULE Supervisor -----------------------------
(***************************************************************************)
(* The unified process (main.py): where it keeps the session secret and the*)
(* embedded database, and the Worker it starts beside the Console, over the*)
(* boots, signals, kills and redeploys of one container. A directory may be*)
(* writable at one boot and not at another: a volume is attached or lost.  *)
(***************************************************************************)
EXTENDS Naturals, FiniteSets

CONSTANTS MaxSetups, MaxKeys   \* bounds of the model: boots, and secrets made

VARIABLES
  store,    \* of "data" (the volume's place) and "local": [ok, key, chmod]
  process,  \* [pc, key, place, db]: the unified process
  embedded, \* the ports of the Workers that run
  tally,     \* [boots, keys]: counters
  former,   \* history: the secret first kept in each place
  orphaned  \* history: Workers whose parent was killed or died of a signal

supervisorVars == <<store, process, embedded, tally, former, orphaned>>

Places == {"data", "local"}
Short == 0   \* no secret file, or one cut off by a kill: less than 32 characters
Down == [pc |-> "off", key |-> Short, place |-> "tmp", db |-> "tmp"]

(* _writable_dir: the first candidate that takes a file.                   *)
WritableDir == IF store["data"].ok THEN "data" ELSE IF store["local"].ok THEN "local" ELSE "tmp"

(* pick_free_port: the first one nobody is bound to.                       *)
PickFreePort == CHOOSE p \in 1..(MaxSetups + 1) :
                  /\ p \notin embedded
                  /\ \A q \in 1..(p - 1) : q \in embedded

SupervisorInit ==
  /\ store \in [Places -> [ok : BOOLEAN, key : {Short}, chmod : {TRUE}]]
  /\ process = Down /\ embedded = {}
  /\ tally = [boots |-> 0, keys |-> Short]
  /\ former = [d \in Places |-> Short] /\ orphaned = {}

(* resolve_database_url: a PostgreSQL that the platform names, or the file.*)
ResolveDatabase(postgres) == IF postgres THEN "postgres" ELSE WritableDir

(* setup: the database first.                                              *)
SetupBegins(postgres) ==
  /\ process.pc = "off" /\ tally.boots < MaxSetups
  /\ tally' = [tally EXCEPT !.boots = @ + 1]
  /\ process' = [Down EXCEPT !.pc = "secret", !.db = ResolveDatabase(postgres)]
  /\ UNCHANGED <<store, embedded, former, orphaned>>

Fresh == tally' = [tally EXCEPT !.keys = @ + 1]
KeptIn(k, d) == former' = IF former[d] = Short THEN [former EXCEPT ![d] = k] ELSE former
Goes(k, d) == process' = [process EXCEPT !.pc = "worker", !.key = k, !.place = d]

(* Mutant of KeyFileReads: what a file holds is not taken.                 *)
KeyFileReadsNothing(d) == d \in Places /\ store[d].key = Short - 1

KeyFileReads(d) == d \in Places /\ store[d].key # Short

(* ensure_secret_key: the file of the first writable place. One that is    *)
(* read but whose mode cannot be set, and one that cannot be kept, leave an*)
(* ephemeral secret.                                                       *)
EnsureSecretKey ==
  LET d == WritableDir IN
  /\ process.pc = "secret" /\ tally.keys < MaxKeys
  /\ CASE KeyFileReads(d) /\ store[d].chmod ->
            Goes(store[d].key, d) /\ KeptIn(store[d].key, d) /\ UNCHANGED <<tally, store>>
       [] KeyFileReads(d) /\ ~store[d].chmod -> Goes(tally.keys + 1, "tmp") /\ Fresh /\ UNCHANGED <<former, store>>
       [] d \in Places /\ ~KeyFileReads(d) ->
            /\ Fresh /\ store' = [store EXCEPT ![d].key = tally.keys + 1]
            /\ \/ Goes(tally.keys + 1, d) /\ KeptIn(tally.keys + 1, d)
               \/ process' = Down /\ UNCHANGED former   \* killed before the chmod
       [] d = "tmp" -> Goes(tally.keys + 1, d) /\ Fresh /\ UNCHANGED <<former, store>>
  /\ UNCHANGED <<embedded, orphaned>>

(* The Worker inherits the environment; the handler of SIGTERM comes after.*)
StartWorker ==
  /\ process.pc = "worker"
  /\ embedded' = embedded \cup {PickFreePort}
  /\ process' = [process EXCEPT !.pc = "unguarded"]
  /\ UNCHANGED <<store, tally, former, orphaned>>

Serve ==
  /\ process.pc = "unguarded"
  /\ process' = [process EXCEPT !.pc = "serving"]
  /\ UNCHANGED <<store, embedded, tally, former, orphaned>>

(* Nobody starts it again.                                                 *)
WorkerDies(p) ==
  /\ p \in embedded
  /\ embedded' = embedded \ {p} /\ orphaned' = orphaned \ {p}
  /\ UNCHANGED <<store, process, tally, former>>

Own == embedded \ orphaned

(* SIGTERM, or the end of the server: _stop_worker.                        *)
Terminate ==
  /\ process.pc = "serving"
  /\ process' = Down /\ embedded' = embedded \ Own
  /\ UNCHANGED <<store, tally, former, orphaned>>

(* SIGTERM before there is a handler, SIGKILL at any time.                 *)
ProcessKilled ==
  /\ process.pc # "off"
  /\ process' = Down /\ orphaned' = orphaned \cup Own
  /\ UNCHANGED <<store, embedded, tally, former>>

(* A kill within write_text leaves the file empty.                         *)
KilledInWrite ==
  /\ process.pc = "secret" /\ WritableDir \in Places /\ ~KeyFileReads(WritableDir)
  /\ process' = Down /\ store' = [store EXCEPT ![WritableDir].key = Short]
  /\ UNCHANGED <<embedded, tally, former, orphaned>>

(* A new container: the volume stays as it was, came, went or is another's *)
(* user's; what lay beside it is gone.                                     *)
Redeploy(ok, chmod) ==
  /\ process.pc = "off" /\ tally.boots > 0
  /\ embedded' = {} /\ orphaned' = {}
  /\ store' = [store EXCEPT !["data"].ok = ok, !["data"].chmod = chmod, !["local"].key = Short]
  /\ former' = [former EXCEPT !["local"] = Short]
  /\ UNCHANGED <<process, tally>>

-----------------------------------------------------------------------------
(* A secret that was kept in a file is that of every later boot that finds *)
(* its place writable and its own, through kills in the midst of a write,  *)
(* restarts and redeploys, so that sessions and what it encrypts survive;  *)
(* and secret and embedded database lie together. One Worker at most works *)
(* on the data beside those whose parent was killed, and a process that    *)
(* ended by itself leaves none.                                            *)
SupervisorHolds ==
  /\ process.pc \in {"worker", "unguarded", "serving"} =>
       \A d \in Places : d = WritableDir /\ store[d].chmod => process.key = former[d]
  /\ process.pc = "serving" /\ process.place \in Places /\ process.db # "postgres" =>
       process.db = process.place
  /\ Cardinality(Own) <= 1 /\ (process.pc = "off" => Own = {})
=============================================================================
