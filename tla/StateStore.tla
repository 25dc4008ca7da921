------------------------------ MODULE StateStore ------------------------------
(***************************************************************************)
(* Persistence of one EMUNEL Core: StateStore (core/emunel_core/state.py), *)
(* the calls that request a save (app.py, relay/*.py) and the start and    *)
(* stop of the process (__main__.py).                                      *)
(*                                                                         *)
(* A save has no await between taking the snapshot and os.replace, so no   *)
(* other task runs in between (io names the caller that holds the loop);   *)
(* the process can still be killed there, and the disk can refuse.         *)
(*                                                                         *)
(* The state is two counters: the bytes that were relayed, which change    *)
(* without asking for a save, and the edits of links and cap, which ask.   *)
(* Left out: the contents of the JSON file, the length of the debounce.    *)
(***************************************************************************)
EXTENDS Naturals

CONSTANTS
  MaxUsed,      \* bound of the model: bytes counted
  MaxEdits,     \* bound of the model: edits in all
  MaxTasks,     \* bound of the model: schedule_save tasks not yet started
  DiskMayFail,  \* TRUE: a write can raise OSError
  DiskMayRot,   \* TRUE: the file can become unreadable
  Absent,       \* no state file
  Garbage       \* a state file that is not JSON

ASSUME StateStoreAssumption ==
  /\ MaxUsed \in Nat
  /\ MaxEdits \in Nat
  /\ MaxTasks \in Nat
  /\ DiskMayFail \in BOOLEAN
  /\ DiskMayRot \in BOOLEAN
  /\ Absent \notin [used : Nat, edits : Nat]
  /\ Garbage \notin [used : Nat, edits : Nat]
  /\ Absent # Garbage

VARIABLES
  phase,       \* the process: down or up
  mem,         \* LinkStore and RuntimeStats
  disk,        \* the state file
  io,          \* who is between the snapshot and os.replace
  tmp,         \* the snapshot in state.tmp
  tasks,       \* schedule_save tasks created and not yet started
  pending,     \* StateStore._pending: the saver task exists
  dirtyAgain,  \* StateStore._dirty_again
  asked,       \* history: the state when a save was last requested
  refused      \* history: the disk refused a write or lost the file since the
               \* start

saverVars == <<io, tmp, tasks, pending, dirtyAgain>>
histVars  == <<asked, refused>>
vars      == <<phase, mem, disk, saverVars, histVars>>

States == [used : Nat, edits : Nat]
Fresh  == [used |-> 0, edits |-> 0]

Covers(s, t) == s.used >= t.used /\ s.edits >= t.edits
Saved(t) == disk \in States /\ Covers(disk, t)

Running == phase = "up" /\ io = "none"

-----------------------------------------------------------------------------
(* RuntimeStats.add_traffic and LinkStore.use: no save is requested.       *)
Count ==
  /\ Running
  /\ mem.used < MaxUsed
  /\ mem' = [mem EXCEPT !.used = @ + 1]
  /\ UNCHANGED <<phase, disk, saverVars, histVars>>

(* Core._schedule_save creates a task; the caller goes on.                 *)
Request ==
  /\ tasks < MaxTasks
  /\ tasks' = tasks + 1
  /\ asked' = mem'

(* Mutant of Edit: the handler does not ask for a save.                    *)
EditUnsaved ==
  /\ Running
  /\ mem.edits < MaxEdits
  /\ mem' = [mem EXCEPT !.edits = @ + 1]
  /\ UNCHANGED <<phase, disk, saverVars, histVars>>

(* Create, patch or delete a link, set the cap.                            *)
Edit ==
  /\ Running
  /\ mem.edits < MaxEdits
  /\ mem' = [mem EXCEPT !.edits = @ + 1]
  /\ Request
  /\ UNCHANGED <<phase, disk, io, tmp, pending, dirtyAgain, refused>>

(* A WebSocket tunnel ends in order, or a VMess tunnel in any way.         *)
TunnelEnds ==
  /\ Running
  /\ UNCHANGED mem
  /\ Request
  /\ UNCHANGED <<phase, disk, io, tmp, pending, dirtyAgain, refused>>

(* Mutants of StartTask: a task is started twice; the first one does not   *)
(* become the saver.                                                       *)
StartTaskTwice ==
  /\ Running
  /\ tasks' = tasks - 1
  /\ pending' = TRUE
  /\ dirtyAgain' = pending
  /\ UNCHANGED <<phase, mem, disk, io, tmp, histVars>>

StartTaskLost ==
  /\ Running
  /\ tasks > 0
  /\ tasks' = tasks - 1
  /\ dirtyAgain' = pending
  /\ UNCHANGED <<phase, mem, disk, io, tmp, pending, histVars>>

(* schedule_save starts: the first one becomes the saver and sleeps, the   *)
(* others leave a mark and return.                                         *)
StartTask ==
  /\ Running
  /\ tasks > 0
  /\ tasks' = tasks - 1
  /\ pending' = TRUE
  /\ dirtyAgain' = pending
  /\ UNCHANGED <<phase, mem, disk, io, tmp, histVars>>

-----------------------------------------------------------------------------
(* StateStore.save: snapshot and state.tmp; the loop is held until Replace.*)
Snapshot(who) ==
  /\ io' = who
  /\ tmp' = mem
  /\ UNCHANGED <<mem, disk, tasks, pending, dirtyAgain, histVars>>

SaverWakes == Running /\ pending /\ Snapshot("saver") /\ UNCHANGED phase
Flush      == Running /\ Snapshot("flush") /\ UNCHANGED phase
Shutdown   == Running /\ Snapshot("exit") /\ UNCHANGED phase

(* What each caller does when save returns: the saver sleeps again when it *)
(* was marked meanwhile, the lifespan handler ends the process.            *)
AfterSave ==
  /\ io' = "none"
  /\ tmp' = Absent
  /\ pending' = IF io = "saver" THEN dirtyAgain ELSE pending
  /\ dirtyAgain' = IF io = "saver" THEN FALSE ELSE dirtyAgain
  /\ phase' = IF io = "exit" THEN "down" ELSE phase
  /\ UNCHANGED <<mem, tasks, asked>>

(* os.replace puts the snapshot in place of the file.                      *)
Replace ==
  /\ io # "none"
  /\ disk' = tmp
  /\ AfterSave
  /\ UNCHANGED refused

(* OSError while writing or replacing is logged and forgotten.             *)
SaveFails ==
  /\ DiskMayFail
  /\ io # "none"
  /\ refused' = TRUE
  /\ AfterSave
  /\ UNCHANGED disk

-----------------------------------------------------------------------------
(* The process is killed: only the disk survives.                          *)
Crash ==
  /\ phase = "up"
  /\ phase' = "down"
  /\ io' = "none"
  /\ tmp' = Absent
  /\ UNCHANGED <<mem, disk, tasks, pending, dirtyAgain, histVars>>

Rot ==
  /\ DiskMayRot
  /\ disk # Absent
  /\ io = "none"
  /\ disk' = Garbage
  /\ refused' = TRUE
  /\ UNCHANGED <<phase, mem, saverVars, asked>>

(* Mutants of Start: the file is not read; its usage is not restored.      *)
StartEmpty ==
  /\ phase = "down"
  /\ phase' = "up"
  /\ mem' = Fresh
  /\ tasks' = 0 /\ pending' = FALSE /\ dirtyAgain' = FALSE
  /\ asked' = Fresh
  /\ refused' = FALSE
  /\ UNCHANGED <<disk, io, tmp>>

StartUnused ==
  /\ phase = "down"
  /\ phase' = "up"
  /\ mem' = IF disk \in States THEN [disk EXCEPT !.used = 0] ELSE Fresh
  /\ disk' = IF disk = Garbage THEN Absent ELSE disk
  /\ tasks' = 0 /\ pending' = FALSE /\ dirtyAgain' = FALSE
  /\ asked' = Fresh
  /\ refused' = FALSE
  /\ UNCHANGED <<io, tmp>>

(* StateStore.load: an unreadable file is moved aside, and without a file  *)
(* the Core starts empty.                                                  *)
Start ==
  /\ phase = "down"
  /\ phase' = "up"
  /\ mem' = IF disk \in States THEN disk ELSE Fresh
  /\ disk' = IF disk = Garbage THEN Absent ELSE disk
  /\ tasks' = 0
  /\ pending' = FALSE
  /\ dirtyAgain' = FALSE
  /\ asked' = Fresh
  /\ refused' = FALSE
  /\ UNCHANGED <<io, tmp>>

-----------------------------------------------------------------------------
Init ==
  /\ phase = "down"
  /\ mem = Fresh
  /\ disk = Absent
  /\ io = "none"
  /\ tmp = Absent
  /\ tasks = 0
  /\ pending = FALSE
  /\ dirtyAgain = FALSE
  /\ asked = Fresh
  /\ refused = FALSE

Next ==
  \/ Count \/ Edit \/ TunnelEnds \/ StartTask
  \/ SaverWakes \/ Flush \/ Shutdown \/ Replace \/ SaveFails
  \/ Crash \/ Rot \/ Start

Spec == Init /\ [][Next]_vars

(* The event loop starts every task, ends every sleep and returns from     *)
(* every write.                                                            *)
SaverFairness == WF_vars(StartTask) /\ WF_vars(SaverWakes) /\ WF_vars(Replace)

-----------------------------------------------------------------------------
TypeOK ==
  /\ phase \in {"down", "up"}
  /\ mem \in States
  /\ disk \in States \cup {Absent, Garbage}
  /\ io \in {"none", "saver", "flush", "exit"}
  /\ tmp \in States \cup {Absent}
  /\ tasks \in Nat
  /\ pending \in BOOLEAN
  /\ dirtyAgain \in BOOLEAN
  /\ asked \in States
  /\ refused \in BOOLEAN

(* The file is a DurableState, through kills, failed writes and rot: every *)
(* copy is one the Core was in when it was made, and a start resumes from  *)
(* the copy and nothing else.                                              *)
Durable == INSTANCE DurableState
  WITH up      <- phase = "up",
       live    <- mem,
       durable <- IF disk \in States THEN disk ELSE Fresh

RefinesDurableState == Durable!Spec

(* A requested save is never forgotten: unless the disk refused or lost it,*)
(* it is on disk, or the saver or a task for it is on its way.             *)
(* schedule_save collapses requests; this says that collapsing loses none. *)
NoRequestForgotten ==
  phase = "up" /\ ~refused => Saved(asked) \/ asked = Fresh \/ tasks > 0 \/ pending

(* The file never goes back: a readable copy is followed by one that has at*)
(* least its usage and its edits, also across restarts.                    *)
FileNeverGoesBack ==
  [][(disk \in States /\ disk' \in States) => Covers(disk', disk)]_vars

(* An edit that was answered reaches the disk although closing tunnels keep*)
(* asking for saves, unless the process dies or the disk fails first.      *)
EditBecomesDurable ==
  \A n \in 1..MaxEdits :
    (phase = "up" /\ mem.edits = n)
    ~> (phase = "down" \/ refused \/ (disk \in States /\ disk.edits >= n))
=============================================================================
