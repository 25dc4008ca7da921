----------------------------- MODULE StaleWatch -----------------------------
(***************************************************************************)
(* The watch the enforcement loop keeps on an instance whose Core does not *)
(* tell its usage (_stale and _note_stale of services/volume.py): an alert *)
(* after some misses, a stop after a time. The entry of an instance is kept*)
(* in memory and dropped in some branches of the loop only, while its owner*)
(* stops, starts and edits it. One instance; time in minutes.              *)
(***************************************************************************)
EXTENDS Naturals

CONSTANTS
  AlertAfter,   \* EMUNEL_VOLUME_STALE_ALERT_MISSES
  StopAfter,    \* EMUNEL_VOLUME_STALE_STOP_MINUTES, 0 for never
  LastMinute    \* bound of the model

ASSUME StaleAssumption == AlertAfter \in Nat \ {0} /\ StopAfter \in Nat /\ LastMinute \in Nat

VARIABLES
  stale,     \* _stale of the instance: [on, misses, first, alerted]
  watched,   \* the row: [running, limit: "cap", "time" or "none"]
  check,     \* where the loop is, and whether the stop is due: [pc, due]
  minute,
  blind      \* history: [since, alerts, stops]: of the outage and in it

staleVars == <<stale, watched, check, minute, blind>>

NoWatch == [on |-> FALSE, misses |-> 0, first |-> 0, alerted |-> FALSE]
Seen == [since |-> minute, alerts |-> 0]

LoopAt(pc) == check.pc = pc
GoOn(pc) == check' = [check EXCEPT !.pc = pc]
Drop == stale' = NoWatch

StaleInit ==
  /\ stale = NoWatch /\ check = [pc |-> "idle", due |-> FALSE] /\ minute = 0
  /\ watched \in [running : {TRUE}, limit : {"cap", "time", "none"}]
  /\ blind = [since |-> 0, alerts |-> 0]

(* The owner stops, starts or edits the instance between two steps of the  *)
(* loop.                                                                   *)
OwnerEdits(w) ==
  /\ watched' = w /\ w # watched
  /\ UNCHANGED <<stale, check, minute, blind>>

MinutePasses ==
  /\ minute < LastMinute /\ minute' = minute + 1
  /\ UNCHANGED <<stale, watched, check, blind>>

(* The rows the loop selects; one without a cap is not counted, and loses  *)
(* its entry when it has a time limit (else it is not selected at all).    *)
LoopLooks ==
  /\ LoopAt("idle") /\ watched.running /\ watched.limit # "none"
  /\ IF watched.limit = "cap" THEN GoOn("reading") /\ UNCHANGED <<stale, blind>>
     ELSE Drop /\ blind' = Seen /\ UNCHANGED check
  /\ UNCHANGED <<watched, minute>>

(* The time limit is over: stopped, with its entry; when the stop raises   *)
(* both stay.                                                              *)
TimeIsOver ==
  /\ LoopAt("idle") /\ watched.running /\ watched.limit # "none"
  /\ watched' = [watched EXCEPT !.running = FALSE]
  /\ Drop /\ blind' = Seen
  /\ UNCHANGED <<check, minute>>

(* Mutant of UsageRead: the entry outlives the outage.                     *)
UsageReadOnly ==
  /\ LoopAt("reading")
  /\ GoOn("idle") /\ blind' = Seen
  /\ UNCHANGED <<stale, watched, minute>>

UsageRead ==
  /\ LoopAt("reading")
  /\ GoOn("idle") /\ Drop /\ blind' = Seen
  /\ UNCHANGED <<watched, minute>>

(* _note_stale, to its first await: the alert counts as made before it is. *)
NoteStale ==
  LET entry == IF stale.on THEN stale ELSE [NoWatch EXCEPT !.on = TRUE, !.first = minute]
      more  == IF entry.misses = AlertAfter THEN AlertAfter ELSE entry.misses + 1
      alarm == more >= AlertAfter /\ ~entry.alerted
  IN /\ LoopAt("reading")
     /\ stale' = [entry EXCEPT !.misses = more, !.alerted = @ \/ alarm]
     /\ check' = [pc  |-> IF alarm THEN "alerting" ELSE "judging",
                  due |-> StopAfter > 0 /\ minute - entry.first >= StopAfter]
     /\ UNCHANGED <<watched, minute, blind>>

(* The alert is written, or raises and ends the check of this instance.    *)
Alert(ok) ==
  /\ LoopAt("alerting")
  /\ GoOn(IF ok THEN "judging" ELSE "idle")
  /\ blind' = IF ok THEN [blind EXCEPT !.alerts = @ + 1] ELSE blind
  /\ UNCHANGED <<stale, watched, minute>>

(* The stop, when it was due at the miss and works; the entry goes when the*)
(* activity about it could be written too.                                 *)
Judge(stopped, told) ==
  LET due == check.due IN
  /\ LoopAt("judging")
  /\ check' = [pc |-> "idle", due |-> FALSE]
  /\ watched' = IF due /\ stopped THEN [watched EXCEPT !.running = FALSE] ELSE watched
  /\ IF due /\ stopped /\ told THEN Drop /\ blind' = Seen
     ELSE UNCHANGED <<stale, blind>>
  /\ UNCHANGED minute

-----------------------------------------------------------------------------
(* "Track and alert on consecutive accounting misses": no read that worked *)
(* and no absence of a cap that the loop saw lies within the time an entry *)
(* counts, so that the stop comes after StopAfter blind minutes and one    *)
(* alert at most is written of an outage; and when enough misses were seen *)
(* the alert was tried. (The minutes the owner had the instance stopped    *)
(* count as blind.)                                                        *)
StaleHolds ==
  /\ stale.on => stale.first >= blind.since /\ stale.misses >= 1
  /\ blind.alerts <= 1 /\ (blind.alerts = 1 => stale.alerted)
  /\ stale.misses >= AlertAfter => stale.alerted
=============================================================================
