----------------------------- MODULE EngineState -----------------------------
(***************************************************************************)
(* What the engines keep over restarts: the payloads of EngineStateStore   *)
(* (engines/state.py), flushed to one file, and the rotating copies of it  *)
(* (engines/persistence/backup.py).  The store runs on the event loop, the *)
(* copying in a thread, and a kill may come between two steps of either.   *)
(*                                                                         *)
(* A payload is the number of the decision it holds last; 0 is an empty    *)
(* payload, -1 none.  A file is [state, snap]; a backup is the second in   *)
(* its name and the copy.  The loop never runs twice in one second, so that*)
(* the suffix for that case is left out.                                   *)
(***************************************************************************)
EXTENDS Integers, Sequences, FiniteSets, SequencesExt

CONSTANTS
  Payloads,       \* engines that keep a payload
  Keep,        \* EMUNEL_BACKUP_KEEP
  MaxCopies,   \* the size cap, in copies
  MaxEdits,    \* bound: decisions in a behaviour
  MaxSeconds   \* bound: seconds on the clock

ASSUME StateAssumption ==
  /\ Keep \in Nat \ {0} /\ MaxCopies \in Nat \ {0}
  /\ MaxEdits \in Nat /\ MaxSeconds \in Nat \ {0}

VARIABLES
  data,     \* the payloads in memory
  dirty,
  file,     \* state.json: [state, snap], the state "none", "whole" or "torn"
  edits,    \* decisions so far
  flushed,  \* history: the snapshots that were taken
  clock,    \* wall clock, in seconds
  backups,  \* the directories: [at, copy], in the order of their names
  run,      \* the backup run under way: "none", "copying" or "manifest"
  last      \* history: the second of the last run that ended

engineStateVars == <<data, dirty, file, edits, flushed, clock, backups, run, last>>

Empty == [n \in Payloads |-> -1]
Whole(snapshot) == [state |-> "whole", snap |-> snapshot]
Torn  == [state |-> "torn", snap |-> Empty]
NoFile == [state |-> "none", snap |-> Empty]

EngineStateInit ==
  /\ data = Empty /\ dirty = FALSE /\ file = NoFile /\ edits = 0
  /\ flushed = {NoFile}
  /\ clock = 1 /\ backups = <<>> /\ run = "none" /\ last = 0

storeVars  == <<data, dirty, file, edits, flushed>>
backupVars == <<clock, backups, run, last>>

-----------------------------------------------------------------------------
(* get puts an empty payload where there is none, without a flush.         *)
GetPayload(e) ==
  /\ data[e] = -1
  /\ data' = [data EXCEPT ![e] = 0]
  /\ UNCHANGED <<dirty, file, edits, flushed, backupVars>>

SetPayload(e) ==
  /\ edits < MaxEdits
  /\ edits' = edits + 1
  /\ data' = [data EXCEPT ![e] = edits']
  /\ dirty' = TRUE
  /\ UNCHANGED <<file, flushed, backupVars>>

(* mutate changes the payload in place; where there is none, it changes one*)
(* that is then thrown away, and stores another, empty.                    *)
MutatePayload(e) ==
  /\ edits < MaxEdits
  /\ edits' = edits + 1
  /\ data' = [data EXCEPT ![e] = IF @ = -1 THEN 0 ELSE edits']
  /\ dirty' = TRUE
  /\ UNCHANGED <<file, flushed, backupVars>>

(* Mutant of Replaced: the file is written in place.                       *)
ReplacedInPlace(snapshot) == file' \in {Whole(snapshot), Torn}

(* A sibling is written, then renamed.                                     *)
Replaced(snapshot) == file' = Whole(snapshot)

(* The flush takes the snapshot and clears dirty before it writes; a write *)
(* that fails is not repeated until the next change.                       *)
FlushState(ok) ==
  /\ dirty
  /\ dirty' = FALSE
  /\ flushed' = flushed \cup {Whole(data)}
  /\ IF ok THEN Replaced(data) ELSE UNCHANGED file
  /\ UNCHANGED <<data, edits, backupVars>>

(* A kill, and the load of the next boot; what does not parse is put aside.*)
StateRestart ==
  /\ data' = file.snap
  /\ file' = IF file = Torn THEN NoFile ELSE file
  /\ dirty' = FALSE
  /\ run' = "none"
  /\ UNCHANGED <<edits, flushed, clock, backups, last>>

-----------------------------------------------------------------------------
(* A run makes a directory of its own, named for the second.              *)
BackupBegins ==
  /\ run = "none"
  /\ backups # <<>> => Last(backups).at < clock
  /\ run' = "copying"
  /\ backups' = Append(backups, [at |-> clock, copy |-> NoFile])
  /\ UNCHANGED <<clock, last, storeVars>>

(* A file that cannot be copied is left out, and the run goes on.          *)
BackupCopies(ok) ==
  /\ run = "copying"
  /\ run' = "manifest"
  /\ backups' = [backups EXCEPT ![Len(backups)].copy = IF ok THEN file ELSE NoFile]
  /\ UNCHANGED <<clock, last, storeVars>>

(* Mutant of Rotated: from the wrong end.                                  *)
RotatedNewest(bs, keep) == IF Len(bs) > keep THEN SubSeq(bs, 1, keep) ELSE bs

Rotated(bs, keep) ==
  IF Len(bs) > keep THEN SubSeq(bs, Len(bs) - keep + 1, Len(bs)) ELSE bs

(* The manifest, then the rotation: by count, and by size down to one.     *)
Copies(bs) == Cardinality({i \in DOMAIN bs : bs[i].copy # NoFile})

BackupEnds ==
  LET kept == Rotated(backups, Keep)
      fits == {k \in 1..Len(kept) : k = 1 \/ Copies(Rotated(kept, k)) <= MaxCopies}
  IN /\ run = "manifest"
     /\ \E k \in fits : (\A j \in fits : j <= k) /\ backups' = Rotated(kept, k)
     /\ last' = Last(backups).at
     /\ run' = "none"
     /\ UNCHANGED <<clock, storeVars>>

ClockTick ==
  /\ clock < MaxSeconds
  /\ clock' = clock + 1
  /\ UNCHANGED <<backups, run, last, storeVars>>

-----------------------------------------------------------------------------
EngineStateTypeOK ==
  /\ data \in [Payloads -> -1..MaxEdits] /\ dirty \in BOOLEAN
  /\ edits \in 0..MaxEdits /\ clock \in 1..MaxSeconds /\ last \in 0..clock
  /\ run \in {"none", "copying", "manifest"}

(* "a crash never leaves a half-written file": the file, and every copy of *)
(* it, is a snapshot that a flush took, or nothing at all.                 *)
SnapshotsOnly ==
  /\ file \in flushed
  /\ \A i \in DOMAIN backups : backups[i].copy \in flushed

(* "Keep only the newest keep backups": whatever was cut off before, the   *)
(* last run that ended is still there, and nothing newer was deleted for   *)
(* it; between runs there are at most Keep, and those cut off since.       *)
NewestKept ==
  /\ last # 0 => \E i \in DOMAIN backups : backups[i].at = last
  /\ Cardinality({i \in DOMAIN backups : backups[i].at <= last}) <= Keep

StateKept == SnapshotsOnly /\ NewestKept
=============================================================================
