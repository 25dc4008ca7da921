---------------------------- MODULE DurableState ----------------------------
(***************************************************************************)
(* What the Core's state file promises: a whole copy of the runtime state, *)
(* replaced at once by the state of a running Core, and a start that       *)
(* resumes from exactly that copy.  While it runs the Core only gains usage*)
(* and edits.  What the file does not promise is that the copy is recent.  *)
(***************************************************************************)
EXTENDS Naturals

VARIABLES up, live, durable

State == [used : Nat, edits : Nat]
Empty == [used |-> 0, edits |-> 0]

Init == up = FALSE /\ live = Empty /\ durable = Empty

(* The Core works; nothing is durable yet.                                 *)
Work ==
  /\ up
  /\ live' \in State
  /\ live'.used >= live.used
  /\ live'.edits >= live.edits
  /\ UNCHANGED <<up, durable>>

(* The copy is replaced by the state of the Core, the last time as it ends.*)
Persist ==
  /\ up
  /\ up' \in BOOLEAN
  /\ durable' = live
  /\ UNCHANGED live

(* The Core ends or is killed, and starts again from the copy.             *)
Stop    == up /\ up' = FALSE /\ UNCHANGED <<live, durable>>
Restart == ~up /\ up' = TRUE /\ live' = durable /\ UNCHANGED durable

(* The disk loses the copy.                                                *)
Lose == durable' = Empty /\ UNCHANGED <<up, live>>

Next == Work \/ Persist \/ Stop \/ Restart \/ Lose

Spec == Init /\ [][Next]_<<up, live, durable>>
=============================================================================
