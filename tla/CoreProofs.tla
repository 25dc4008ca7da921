------------------------------- MODULE CoreProofs -------------------------------
(***************************************************************************)
(* Proofs about the parts of a Core in MCCoreSafety, for any number of     *)
(* links, clients, uploads, packets and chunks.  Each part keeps its state *)
(* in the variables of QuotaGate; a part's invariant speaks of a behaviour *)
(* that explores that part, and no step changes which part it is.          *)
(***************************************************************************)
EXTENDS MCCoreSafety, FiniteSetTheorems, SequenceTheorems, WellFoundedInduction, TLAPS

-----------------------------------------------------------------------------
(***************************************************************************)
(* The quota gate, for every number of links and tunnels and every batch   *)
(* size: type correctness and the bounds the batching costs.               *)
(***************************************************************************)
USE QuotaGateAssumption

(* Counting touches the total, one debt and one link, and keeps their type.*)
LEMMA CountType ==
  ASSUME TypeOK, NEW c \in AllConns, NEW n \in Nat, Count(c, n)
  PROVE  /\ total' \in Nat
         /\ link' \in [Links -> LinkRecord]
         /\ debt' \in [AllConns -> Int]
<1>1. /\ total \in Nat /\ link \in [Links -> LinkRecord] /\ debt \in [AllConns -> Int]
  BY DEF TypeOK
<1>2. total' \in Nat /\ debt' \in [AllConns -> Int]
  BY <1>1 DEF Count
<1>3. CASE link' = link
  BY <1>1, <1>2, <1>3
<1>4. CASE link' = [link EXCEPT ![owner[c]].used = @ + n]
  <2>1. ASSUME NEW l \in Links
        PROVE  link'[l] \in LinkRecord
    <3>1. link[l] \in LinkRecord
      BY <1>1
    <3>2. link[l].used + n \in Nat
      BY <3>1 DEF LinkRecord
    <3>3. link'[l] = link[l] \/ link'[l] = [link[l] EXCEPT !.used = @ + n]
      BY <1>1, <1>4
    <3> QED BY <3>1, <3>2, <3>3 DEF LinkRecord
  <2>2. link' \in [Links -> LinkRecord]
    BY <1>1, <1>4, <2>1
  <2> QED BY <1>2, <2>2
<1> QED BY <1>3, <1>4 DEF Count

(* What GateAdd may change keeps its type.                                 *)
LEMMA GateAddType ==
  ASSUME TypeOK, NEW c \in Conns, NEW n \in FrameSizes, NEW a \in BOOLEAN,
         GateAdd(c, n, a)
  PROVE  /\ gate' \in [Conns -> GateRecord]
         /\ total' \in Nat
         /\ link' \in [Links -> LinkRecord]
         /\ debt' \in [AllConns -> Int]
<1>1. /\ gate \in [Conns -> GateRecord] /\ total \in Nat
      /\ link \in [Links -> LinkRecord] /\ debt \in [AllConns -> Int]
      /\ c \in AllConns /\ n \in Nat
  BY DEF TypeOK, GateRecord, AllConns
<1>2. CASE UNCHANGED <<total, link, debt>> /\ \E o \in BOOLEAN : gate' = [gate EXCEPT ![c].ok = o]
  BY <1>1, <1>2 DEF GateRecord
<1>3. CASE UNCHANGED <<total, link, debt>> /\ gate' = [gate EXCEPT ![c].pending = @ + n]
  BY <1>1, <1>3 DEF GateRecord
<1>4. CASE /\ \E b \in MinBatch..MaxBatch :
                gate' = [gate EXCEPT ![c] = [ok |-> a, pending |-> 0, batch |-> b]]
           /\ Count(c, gate[c].pending + n)
  <2>1. gate' \in [Conns -> GateRecord]
    BY <1>1, <1>4 DEF GateRecord
  <2>2. gate[c].pending + n \in Nat
    BY <1>1 DEF GateRecord
  <2> QED BY <1>1, <1>4, <2>1, <2>2, CountType
<1>5. gate[c].ok = TRUE \/ gate[c].ok = FALSE
  BY <1>1 DEF GateRecord
<1> QED BY <1>1, <1>2, <1>3, <1>4 DEF GateAdd

(* What GateFlush may change keeps its type.                               *)
LEMMA GateFlushType ==
  ASSUME TypeOK, NEW c \in Conns, GateFlush(c)
  PROVE  /\ gate' \in [Conns -> GateRecord]
         /\ total' \in Nat
         /\ link' \in [Links -> LinkRecord]
         /\ debt' \in [AllConns -> Int]
<1>1. /\ gate \in [Conns -> GateRecord] /\ total \in Nat
      /\ link \in [Links -> LinkRecord] /\ debt \in [AllConns -> Int]
      /\ c \in AllConns
  BY DEF TypeOK, AllConns
<1>2. gate[c] \in GateRecord
  BY <1>1
<1>3. CASE gate[c].pending > 0 /\ gate[c].ok /\ ~CapReached
  <2>1. Count(c, gate[c].pending)
    BY <1>3 DEF GateFlush
  <2>2. gate[c].pending \in Nat
    BY <1>2 DEF GateRecord
  <2>3. gate' = [gate EXCEPT ![c].pending = 0, ![c].ok = Allowed(owner[c])]
    BY <1>3 DEF GateFlush
  <2>4. Allowed(owner[c]) \in BOOLEAN
    BY DEF Allowed, Passes
  <2>5. gate' \in [Conns -> GateRecord]
    BY <1>1, <2>3, <2>4 DEF GateRecord
  <2> QED BY <1>1, <2>1, <2>2, <2>5, CountType
<1>4. CASE ~(gate[c].pending > 0 /\ gate[c].ok /\ ~CapReached)
  <2>1. gate' = [gate EXCEPT ![c].pending = 0,
                             ![c].ok = @ /\ (gate[c].pending = 0)]
    BY <1>4 DEF GateFlush
  <2>2. gate' \in [Conns -> GateRecord]
    BY <1>1, <2>1 DEF GateRecord
  <2>3. UNCHANGED <<total, link, debt>>
    BY <1>4 DEF GateFlush
  <2> QED BY <1>1, <2>2, <2>3
<1> QED BY <1>3, <1>4

(* A new period of a typed link is typed.                                  *)
LEMMA PeriodType ==
  ASSUME NEW k \in LinkRecord
  PROVE  PeriodOf(k) \in PeriodRecord
<1>1. k.limit \in Nat /\ k.used \in Nat
  BY DEF LinkRecord
<1>2. Max2(k.limit, k.used) \in Nat
  BY <1>1 DEF Max2
<1>3. (IF Passes(k) /\ k.limit > 0 THEN k.limit - k.used ELSE 0) \in Nat
  BY <1>1 DEF Passes
<1> QED BY <1>2, <1>3 DEF PeriodOf, PeriodRecord

(* An edit of a link that keeps the type of the links keeps all types.     *)
LEMMA EditType ==
  ASSUME TypeOK, NEW l \in Links, link' \in [Links -> LinkRecord], NewPeriod(l)
  PROVE  TypeOK'
<1>1. PeriodOf(link'[l]) \in PeriodRecord
  BY PeriodType
<1>2. period' \in [Links -> PeriodRecord]
  BY <1>1 DEF TypeOK, NewPeriod
<1> QED BY <1>2 DEF TypeOK, NewPeriod, gateVars

(* Relaying bytes touches one debt and one period.                         *)
LEMMA RelayType ==
  ASSUME TypeOK, NEW c \in AllConns, NEW n \in Nat, Relay(c, n)
  PROVE  /\ debt' \in [AllConns -> Int]
         /\ period' \in [Links -> PeriodRecord]
<1>1. debt' \in [AllConns -> Int]
  BY DEF TypeOK, Relay
<1>2. ASSUME NEW l \in Links
      PROVE  period'[l] \in PeriodRecord
  <2>1. period[l] \in PeriodRecord
    BY DEF TypeOK
  <2>2. period[l].spent + n \in Nat
    BY <2>1 DEF PeriodRecord
  <2>3. period'[l] = period[l] \/ period'[l] = [period[l] EXCEPT !.spent = @ + n]
    BY DEF TypeOK, Relay
  <2> QED BY <2>1, <2>2, <2>3 DEF PeriodRecord
<1>3. period' \in [Links -> PeriodRecord]
  BY <1>2 DEF TypeOK, Relay
<1> QED BY <1>1, <1>3

(* Every step of the Core keeps the types.                                 *)
LEMMA TypeStep == TypeOK /\ [Next]_vars => TypeOK'
<1> SUFFICES ASSUME TypeOK, [Next]_vars
             PROVE  TypeOK'
  OBVIOUS
<1>1. ASSUME NEW l \in Links, CreateLink(l)
      PROVE  TypeOK'
  <2>1. PICK lim \in Limits, u \in RestoredUse, x \in BOOLEAN, a \in BOOLEAN :
          link' = [link EXCEPT ![l] = [stored |-> TRUE, active |-> a, expired |-> x,
                                       limit |-> lim, used |-> u]]
    BY <1>1 DEF CreateLink
  <2>2. link' \in [Links -> LinkRecord]
    BY <2>1 DEF TypeOK, LinkRecord
  <2> QED BY <1>1, <2>2, EditType DEF CreateLink
<1>2. ASSUME NEW l \in Links, PatchLink(l)
      PROVE  TypeOK'
  <2>1. link[l] \in LinkRecord
    BY DEF TypeOK
  <2>2. PICK lim \in Limits \cup {link[l].limit}, u \in {0, link[l].used},
             x \in BOOLEAN, a \in BOOLEAN :
          link' = [link EXCEPT ![l] = [@ EXCEPT !.active = a, !.expired = x,
                                                !.limit = lim, !.used = u]]
    BY <1>2 DEF PatchLink
  <2>3. lim \in Nat /\ u \in Nat
    BY <2>1 DEF LinkRecord
  <2>4. link' \in [Links -> LinkRecord]
    BY <2>1, <2>2, <2>3 DEF TypeOK, LinkRecord
  <2> QED BY <1>2, <2>4, EditType DEF PatchLink
<1>3. ASSUME NEW l \in Links, DeleteLink(l)
      PROVE  TypeOK'
  <2>1. link' \in [Links -> LinkRecord]
    <3>1. link' = [link EXCEPT ![l].stored = FALSE]
      BY <1>3 DEF DeleteLink
    <3>2. ASSUME NEW m \in Links
          PROVE  link'[m] \in LinkRecord
      <4>1. link[m] \in LinkRecord
        BY DEF TypeOK
      <4>2. link'[m] = link[m] \/ link'[m] = [link[m] EXCEPT !.stored = FALSE]
        BY <3>1 DEF TypeOK
      <4> QED BY <4>1, <4>2 DEF LinkRecord
    <3> QED BY <3>1, <3>2 DEF TypeOK
  <2> QED BY <1>3, <2>1, EditType DEF DeleteLink
<1>4. ASSUME NEW l \in Links, Expire(l)
      PROVE  TypeOK'
  <2>1. link' \in [Links -> LinkRecord]
    <3>1. link' = [link EXCEPT ![l].expired = TRUE]
      BY <1>4 DEF Expire
    <3>2. ASSUME NEW m \in Links
          PROVE  link'[m] \in LinkRecord
      <4>1. link[m] \in LinkRecord
        BY DEF TypeOK
      <4>2. link'[m] = link[m] \/ link'[m] = [link[m] EXCEPT !.expired = TRUE]
        BY <3>1 DEF TypeOK
      <4> QED BY <4>1, <4>2 DEF LinkRecord
    <3> QED BY <3>1, <3>2 DEF TypeOK
  <2> QED BY <1>4, <2>1, EditType DEF Expire
<1>5. ASSUME NEW v \in Caps, SetCap(v)
      PROVE  TypeOK'
  <2>1. v \in Nat /\ Max2(v, total) \in Nat
    BY DEF TypeOK, Max2
  <2>2. \A l \in Links : PeriodOf(link[l]) \in PeriodRecord
    BY PeriodType DEF TypeOK
  <2>3. period' \in [Links -> PeriodRecord]
    BY <1>5, <2>2 DEF SetCap
  <2> QED BY <1>5, <2>1, <2>3 DEF SetCap, TypeOK, gateVars
<1>6. ASSUME NEW c \in AllConns, NEW l \in Links, Open(c, l)
      PROVE  TypeOK'
  <2>1. NewGate \in GateRecord
    BY DEF NewGate, GateRecord
  <2>2. gate' \in [Conns -> GateRecord]
    BY <1>6, <2>1 DEF Open, TypeOK
  <2>3. phase' \in [AllConns -> {"closed", "accepted", "connecting", "relaying"}]
    BY <1>6 DEF Open, TypeOK
  <2>4. owner' \in [AllConns -> Links \cup {NoLink}] /\ debt' \in [AllConns -> Int]
    BY <1>6 DEF Open, TypeOK
  <2> QED BY <1>6, <2>2, <2>3, <2>4 DEF Open, TypeOK
<1>7. ASSUME NEW c \in AllConns, Close(c)
      PROVE  /\ phase' \in [AllConns -> {"closed", "accepted", "connecting", "relaying"}]
             /\ owner' \in [AllConns -> Links \cup {NoLink}]
  BY <1>7 DEF Close, TypeOK
<1>8. ASSUME NEW c \in Conns, NEW n \in FrameSizes, FirstFrame(c, n)
      PROVE  TypeOK'
  <2>1. c \in AllConns /\ n \in 0..MaxFrame
    BY DEF AllConns
  <2>2. CASE /\ GateAdd(c, n, TRUE)
             /\ phase' = [phase EXCEPT ![c] = "connecting"]
             /\ frame' = [frame EXCEPT ![c].up = n]
             /\ UNCHANGED owner
    <3>1. frame' \in [Conns -> [Pumps -> 0..MaxFrame]]
      BY <2>1, <2>2 DEF TypeOK, Pumps
    <3>2. phase' \in [AllConns -> {"closed", "accepted", "connecting", "relaying"}]
      BY <2>2 DEF TypeOK
    <3> QED BY <1>8, <2>2, <3>1, <3>2, GateAddType DEF FirstFrame, TypeOK
  <2>3. CASE GateAdd(c, n, FALSE) /\ Close(c) /\ UNCHANGED frame
    BY <1>7, <1>8, <2>1, <2>3, GateAddType DEF FirstFrame, TypeOK
  <2> QED BY <1>8, <2>2, <2>3 DEF FirstFrame
<1>9. ASSUME NEW c \in Conns, HandshakeFails(c)
      PROVE  TypeOK'
  BY <1>7, <1>9 DEF HandshakeFails, TypeOK, histVars, AllConns
<1>10. ASSUME NEW c \in Conns, Connected(c)
       PROVE  TypeOK'
  <2>1. c \in AllConns /\ frame[c].up \in Nat
    BY DEF AllConns, TypeOK, Pumps
  <2>2. phase' \in [AllConns -> {"closed", "accepted", "connecting", "relaying"}]
    BY <1>10 DEF Connected, TypeOK
  <2>3. /\ stage' \in [Conns -> [Pumps -> {"read", "send", "recheck", "stop", "done"}]]
        /\ frame' \in [Conns -> [Pumps -> 0..MaxFrame]]
    BY <1>10 DEF Connected, TypeOK
  <2> QED BY <1>10, <2>1, <2>2, <2>3, RelayType DEF Connected, TypeOK
<1>11. ASSUME NEW c \in Conns, ConnectFails(c)
       PROVE  TypeOK'
  <2>1. frame' \in [Conns -> [Pumps -> 0..MaxFrame]]
    BY <1>11 DEF ConnectFails, TypeOK
  <2> QED BY <1>7, <1>11, <2>1 DEF ConnectFails, TypeOK, histVars, AllConns
<1>12. ASSUME NEW c \in Conns, NEW p \in Pumps, NEW n \in FrameSizes, Frame(c, p, n)
       PROVE  TypeOK'
  <2>1. n \in 0..MaxFrame
    OBVIOUS
  <2>2. PICK a \in BOOLEAN : GateAdd(c, n, a)
    BY <1>12 DEF Frame
  <2>3. PICK s \in {"send", "recheck", "stop"} : stage' = [stage EXCEPT ![c][p] = s]
    <3>1. CASE stage' = [stage EXCEPT ![c][p] = IF gate'[c].pending = 0
                                                THEN "recheck" ELSE "send"]
      <4>1. CASE gate'[c].pending = 0
        BY <3>1, <4>1
      <4>2. CASE ~(gate'[c].pending = 0)
        BY <3>1, <4>2
      <4> QED BY <4>1, <4>2
    <3>2. CASE stage' = [stage EXCEPT ![c][p] = "stop"]
      BY <3>2
    <3> QED BY <1>12, <3>1, <3>2 DEF Frame
  <2>4. PICK m \in 0..MaxFrame : frame' = [frame EXCEPT ![c][p] = m] \/ frame' = frame
    BY <1>12, <2>1 DEF Frame
  <2>5. stage' \in [Conns -> [Pumps -> {"read", "send", "recheck", "stop", "done"}]]
    BY <2>3 DEF TypeOK
  <2>6. frame' \in [Conns -> [Pumps -> 0..MaxFrame]]
    <3>1. CASE frame' = [frame EXCEPT ![c][p] = m]
      BY <3>1 DEF TypeOK
    <3> QED BY <2>4, <3>1 DEF TypeOK
  <2> QED BY <1>12, <2>2, <2>5, <2>6, GateAddType DEF Frame, TypeOK
<1>13. ASSUME NEW c \in Conns, NEW p \in Pumps, Write(c, p)
       PROVE  TypeOK'
  <2>1. c \in AllConns /\ frame[c][p] \in Nat
    BY DEF AllConns, TypeOK
  <2>2. /\ stage' \in [Conns -> [Pumps -> {"read", "send", "recheck", "stop", "done"}]]
        /\ frame' \in [Conns -> [Pumps -> 0..MaxFrame]]
    BY <1>13 DEF Write, TypeOK
  <2> QED BY <1>13, <2>1, <2>2, RelayType DEF Write, TypeOK
<1>14. ASSUME NEW c \in Conns, NEW p \in Pumps, DeniedAfterThrottle(c, p)
       PROVE  TypeOK'
  BY <1>14 DEF DeniedAfterThrottle, TypeOK, histVars
<1>15. ASSUME NEW c \in Conns, NEW p \in Pumps, PumpEnds(c, p)
       PROVE  TypeOK'
  <2>1. /\ stage' \in [Conns -> [Pumps -> {"read", "send", "recheck", "stop", "done"}]]
        /\ frame' \in [Conns -> [Pumps -> 0..MaxFrame]]
    BY <1>15 DEF PumpEnds, TypeOK
  <2> QED BY <1>15, <2>1, GateFlushType DEF PumpEnds, TypeOK
<1>16. ASSUME NEW c \in Conns, Finish(c)
       PROVE  TypeOK'
  <2>1. /\ stage' \in [Conns -> [Pumps -> {"read", "send", "recheck", "stop", "done"}]]
        /\ frame' \in [Conns -> [Pumps -> 0..MaxFrame]]
    BY <1>16 DEF Finish, TypeOK
  <2>2. c \in AllConns
    BY DEF AllConns
  <2> QED BY <1>7, <1>16, <2>1, <2>2, GateFlushType DEF Finish, TypeOK
<1>17. ASSUME NEW c \in VMessConns, VMessConnected(c)
       PROVE  TypeOK'
  BY <1>17 DEF VMessConnected, TypeOK, histVars
<1>18. ASSUME NEW c \in VMessConns, NEW n \in FrameSizes, VMessFrame(c, n)
       PROVE  TypeOK'
  <2>1. total' \in Nat
    BY <1>18 DEF VMessFrame, TypeOK
  <2>2. ASSUME NEW l \in Links
        PROVE  link'[l] \in LinkRecord /\ period'[l] \in PeriodRecord
    <3>1. link[l] \in LinkRecord /\ period[l] \in PeriodRecord
      BY DEF TypeOK
    <3>2. link[l].used + n \in Nat /\ period[l].spent + n \in Nat
      <4>1. link[l].used \in Nat
        BY <3>1 DEF LinkRecord
      <4>2. period[l].spent \in Nat
        BY <3>1 DEF PeriodRecord
      <4>3. n \in Nat
        BY QuotaGateAssumption DEF QuotaGateAssumption
      <4> QED BY <4>1, <4>2, <4>3
    <3>3. link'[l] = link[l] \/ link'[l] = [link[l] EXCEPT !.used = @ + n]
      BY <1>18 DEF VMessFrame, TypeOK
    <3>4. period'[l] = period[l] \/ period'[l] = [period[l] EXCEPT !.spent = @ + n]
      BY <1>18 DEF VMessFrame, TypeOK
    <3>5. link'[l] \in LinkRecord
      BY <3>1, <3>2, <3>3 DEF LinkRecord
    <3>6. period'[l] \in PeriodRecord
      BY <3>1, <3>2, <3>4 DEF PeriodRecord
    <3> QED BY <3>5, <3>6
  <2>3. link' \in [Links -> LinkRecord] /\ period' \in [Links -> PeriodRecord]
    BY <1>18, <2>2 DEF VMessFrame, TypeOK
  <2> QED BY <1>18, <2>1, <2>3 DEF VMessFrame, TypeOK, gateVars
<1>19. ASSUME NEW c \in VMessConns, VMessEnds(c) \/ PolicyCut(c)
       PROVE  TypeOK'
  BY <1>7, <1>19 DEF VMessEnds, PolicyCut, TypeOK, histVars, AllConns
<1>20. CASE UNCHANGED vars
  BY <1>20 DEF vars, gateVars, histVars, TypeOK
<1> QED
  BY <1>1, <1>2, <1>3, <1>4, <1>5, <1>6, <1>8, <1>9, <1>10, <1>11, <1>12, <1>13,
     <1>14, <1>15, <1>16, <1>17, <1>18, <1>19, <1>20
  DEF Next, Manage, Tunnel, VMessTunnel

LEMMA TypeInit == Init => TypeOK
<1> SUFFICES ASSUME Init
             PROVE  TypeOK
  OBVIOUS
<1>1. link \in [Links -> LinkRecord]
  BY DEF Init, LinkRecord
<1>2. period \in [Links -> PeriodRecord]
  BY <1>1, PeriodType DEF Init
<1>3. gate \in [Conns -> GateRecord]
  BY DEF Init, NewGate, GateRecord
<1> QED BY <1>1, <1>2, <1>3 DEF Init, TypeOK

(* Every variable has its type in every reachable state.                   *)
THEOREM TypeCorrect == Spec => []TypeOK
  BY TypeInit, TypeStep, PTL DEF Spec

-----------------------------------------------------------------------------
(* The inductive invariant.  What a tunnel has relayed beyond what it has  *)
(* counted, frames on their way included, is pending in its gate, or is    *)
(* less than a batch once the gate is shut and has dropped what was pending*)
Slack(c) == IF gate[c].ok THEN gate[c].pending ELSE MaxBatch - 1

GateInv(c) ==
  /\ gate[c].pending <= MaxBatch - 1
  /\ debt[c] + frame[c].up + frame[c].down <= Slack(c)
  /\ phase[c] \in {"closed", "accepted"} => frame[c].up = 0
  /\ phase[c] # "relaying" => frame[c].down = 0

TunnelInv ==
  /\ \A c \in Conns : GateInv(c)
  /\ \A c \in VMessConns : debt[c] = 0

LinkInv ==
  \A l \in Links :
    /\ link[l].limit <= period[l].ceiling
    /\ link[l].limit > 0 => link[l].used <= period[l].ceiling + Overshoot

CapInv ==
  /\ cap <= ceiling
  /\ cap > 0 => total <= ceiling + Overshoot

(* A pass through the gate changes one tunnel and pays for what it admits. *)
LEMMA GateAddSlack ==
  ASSUME TypeOK, NEW c \in Conns, GateInv(c), NEW n \in FrameSizes,
         NEW a \in BOOLEAN, GateAdd(c, n, a)
  PROVE  /\ \A d \in Conns \ {c} : gate'[d] = gate[d]
         /\ \A d \in AllConns \ {c} : debt'[d] = debt[d]
         /\ gate'[c].pending <= MaxBatch - 1
         /\ debt'[c] + (IF a THEN n ELSE 0) - Slack(c)' <= debt[c] - Slack(c)
<1>1. /\ gate \in [Conns -> GateRecord] /\ gate[c] \in GateRecord
      /\ debt \in [AllConns -> Int] /\ debt[c] \in Int
      /\ c \in AllConns /\ n \in 1..MaxFrame
  BY DEF TypeOK, AllConns
<1>2. gate[c].pending \in Nat /\ gate[c].ok \in BOOLEAN /\ gate[c].batch \in MinBatch..MaxBatch
  BY <1>1 DEF GateRecord
<1>3. gate[c].pending <= MaxBatch - 1
  BY DEF GateInv
<1>4. CASE ~gate[c].ok /\ ~a /\ UNCHANGED <<gate, debt>>
  BY <1>1, <1>2, <1>3, <1>4 DEF Slack
<1>5. CASE gate[c].ok /\ ~a /\ gate' = [gate EXCEPT ![c].ok = FALSE] /\ UNCHANGED debt
  <2>1. gate'[c].ok = FALSE /\ gate'[c].pending = gate[c].pending
    BY <1>1, <1>5 DEF GateRecord
  <2>2. \A d \in Conns \ {c} : gate'[d] = gate[d]
    BY <1>1, <1>5
  <2> QED BY <1>1, <1>2, <1>3, <1>5, <2>1, <2>2 DEF Slack
<1>6. CASE /\ gate[c].ok /\ gate[c].pending + n < gate[c].batch
           /\ gate' = [gate EXCEPT ![c].pending = @ + n] /\ UNCHANGED debt
  <2>1. gate'[c].ok = gate[c].ok /\ gate'[c].pending = gate[c].pending + n
    BY <1>1, <1>6 DEF GateRecord
  <2>2. \A d \in Conns \ {c} : gate'[d] = gate[d]
    BY <1>1, <1>6
  <2> QED BY <1>1, <1>2, <1>3, <1>6, <2>1, <2>2 DEF Slack
<1>7. CASE /\ gate[c].ok
           /\ \E b \in MinBatch..MaxBatch :
                gate' = [gate EXCEPT ![c] = [ok |-> a, pending |-> 0, batch |-> b]]
           /\ Count(c, gate[c].pending + n)
  <2>1. gate'[c].ok = a /\ gate'[c].pending = 0
    BY <1>1, <1>7
  <2>2. \A d \in Conns \ {c} : gate'[d] = gate[d]
    BY <1>1, <1>7
  <2>3. debt' = [debt EXCEPT ![c] = @ - (gate[c].pending + n)]
    BY <1>7 DEF Count
  <2>4. /\ debt'[c] = debt[c] - (gate[c].pending + n)
        /\ \A d \in AllConns \ {c} : debt'[d] = debt[d]
    BY <1>1, <2>3
  <2> QED BY <1>1, <1>2, <1>3, <1>7, <2>1, <2>2, <2>4 DEF Slack
<1> QED BY <1>4, <1>5, <1>6, <1>7 DEF GateAdd

(* A flush changes one tunnel and leaves it nothing pending.               *)
LEMMA GateFlushSlack ==
  ASSUME TypeOK, NEW c \in Conns, GateInv(c), GateFlush(c)
  PROVE  /\ \A d \in Conns \ {c} : gate'[d] = gate[d]
         /\ \A d \in AllConns \ {c} : debt'[d] = debt[d]
         /\ gate'[c].pending <= MaxBatch - 1
         /\ debt'[c] - Slack(c)' <= debt[c] - Slack(c)
<1>1. /\ gate \in [Conns -> GateRecord] /\ gate[c] \in GateRecord
      /\ debt \in [AllConns -> Int] /\ debt[c] \in Int
      /\ c \in AllConns
  BY DEF TypeOK, AllConns
<1>2. gate[c].pending \in Nat /\ gate[c].ok \in BOOLEAN
  BY <1>1 DEF GateRecord
<1>3. gate[c].pending <= MaxBatch - 1
  BY DEF GateInv
<1>4. CASE gate[c].pending > 0 /\ gate[c].ok /\ ~CapReached
  <2>1. /\ Count(c, gate[c].pending)
        /\ gate' = [gate EXCEPT ![c].pending = 0, ![c].ok = Allowed(owner[c])]
    BY <1>4 DEF GateFlush
  <2>2. gate'[c].pending = 0 /\ \A d \in Conns \ {c} : gate'[d] = gate[d]
    BY <1>1, <2>1 DEF GateRecord
  <2>3. /\ debt'[c] = debt[c] - gate[c].pending
        /\ \A d \in AllConns \ {c} : debt'[d] = debt[d]
    BY <1>1, <2>1 DEF Count
  <2>4. Slack(c)' >= 0 /\ Slack(c)' \in Int
    BY <2>2 DEF Slack
  <2>5. Slack(c) = gate[c].pending
    BY <1>4 DEF Slack
  <2> QED BY <1>1, <1>2, <1>3, <2>2, <2>3, <2>4, <2>5
<1>5. CASE ~(gate[c].pending > 0 /\ gate[c].ok /\ ~CapReached)
  <2>1. /\ gate' = [gate EXCEPT ![c].pending = 0,
                                ![c].ok = @ /\ (gate[c].pending = 0)]
        /\ UNCHANGED debt
    BY <1>5 DEF GateFlush
  <2>2. gate'[c].pending = 0 /\ \A d \in Conns \ {c} : gate'[d] = gate[d]
    BY <1>1, <2>1 DEF GateRecord
  <2>3. gate'[c].ok = (gate[c].ok /\ gate[c].pending = 0)
    BY <1>1, <2>1 DEF GateRecord
  <2>4. CASE gate[c].ok /\ gate[c].pending = 0
    BY <1>1, <1>2, <1>3, <2>1, <2>2, <2>3, <2>4 DEF Slack
  <2>5. CASE ~(gate[c].ok /\ gate[c].pending = 0)
    <3>1. Slack(c)' = MaxBatch - 1
      BY <2>3, <2>5 DEF Slack
    <3>2. Slack(c) <= MaxBatch - 1 /\ Slack(c) \in Int
      BY <1>2, <1>3 DEF Slack
    <3> QED BY <1>1, <2>1, <2>2, <1>2, <1>3, <3>1, <3>2
  <2> QED BY <2>4, <2>5
<1> QED BY <1>4, <1>5

(* The tunnels other than the one that moves keep their invariant.         *)
LEMMA OtherTunnels ==
  ASSUME TunnelInv, NEW c \in AllConns,
         \A d \in Conns \ {c} : /\ gate'[d] = gate[d] /\ frame'[d] = frame[d]
                               /\ phase'[d] = phase[d],
         \A d \in AllConns \ {c} : debt'[d] = debt[d],
         c \in Conns => GateInv(c)',
         c \in VMessConns => debt'[c] = 0
  PROVE  TunnelInv'
<1>1. ASSUME NEW d \in Conns
      PROVE  GateInv(d)'
  <2>1. CASE d = c
    BY <2>1
  <2>2. CASE d # c
    <3>1. GateInv(d) /\ d \in AllConns
      BY DEF TunnelInv, AllConns
    <3> QED BY <2>2, <3>1 DEF GateInv, Slack
  <2> QED BY <2>1, <2>2
<1>2. ASSUME NEW d \in VMessConns
      PROVE  debt'[d] = 0
  BY DEF TunnelInv, AllConns
<1> QED BY <1>1, <1>2 DEF TunnelInv

(* Every step keeps what each tunnel owes below what its gate has pending. *)
LEMMA TunnelStep == TypeOK /\ TunnelInv /\ [Next]_vars => TunnelInv'
<1> SUFFICES ASSUME TypeOK, TunnelInv, [Next]_vars
             PROVE  TunnelInv'
  OBVIOUS
<1> USE DEF TypeOK
<1>0. ASSUME NEW c \in Conns
      PROVE  /\ c \in AllConns /\ c \notin VMessConns /\ GateInv(c)
             /\ frame[c].up \in 0..MaxFrame /\ frame[c].down \in 0..MaxFrame
             /\ debt[c] \in Int /\ gate[c].pending \in Nat
             /\ Slack(c) \in Nat /\ Slack(c) <= MaxBatch - 1
  <2>1. /\ c \in AllConns /\ c \notin VMessConns /\ GateInv(c)
    BY DEF AllConns, TunnelInv
  <2>2. frame[c] \in [Pumps -> 0..MaxFrame] /\ "up" \in Pumps /\ "down" \in Pumps
    BY DEF Pumps
  <2>3. frame[c].up \in 0..MaxFrame /\ frame[c].down \in 0..MaxFrame
    BY <2>2
  <2>4. gate[c].pending \in Nat
    BY DEF GateRecord
  <2> QED BY <2>1, <2>3, <2>4 DEF Slack, GateInv
<1>1. CASE UNCHANGED <<gateVars, debt>>
  BY <1>1 DEF TunnelInv, GateInv, Slack, gateVars
<1>2. ASSUME NEW c \in AllConns, NEW l \in Links, Open(c, l)
      PROVE  TunnelInv'
  <2>1. /\ \A d \in Conns \ {c} : gate'[d] = gate[d] /\ phase'[d] = phase[d]
        /\ frame' = frame
        /\ \A d \in AllConns \ {c} : debt'[d] = debt[d]
        /\ debt'[c] = 0
    BY <1>2 DEF Open, AllConns
  <2>2. ASSUME c \in Conns
        PROVE  GateInv(c)'
    <3>1. gate'[c] = NewGate /\ phase'[c] = "accepted" /\ phase[c] = "closed"
      BY <1>2, <2>2 DEF Open
    <3>2. frame[c].up = 0 /\ frame[c].down = 0
      BY <1>0, <2>2, <3>1 DEF GateInv
    <3>3. gate'[c].ok = TRUE /\ gate'[c].pending = 0
      BY <3>1 DEF NewGate
    <3> QED BY <2>1, <3>1, <3>2, <3>3 DEF GateInv, Slack
  <2> QED BY <2>1, <2>2, OtherTunnels
<1>3. ASSUME NEW c \in AllConns, Close(c)
      PROVE  /\ phase'[c] = "closed"
             /\ \A d \in Conns \ {c} : phase'[d] = phase[d]
  BY <1>3 DEF Close, AllConns
<1>4. ASSUME NEW c \in Conns, NEW n \in FrameSizes, FirstFrame(c, n)
      PROVE  TunnelInv'
  <2>1. phase[c] = "accepted" /\ frame[c].up = 0 /\ frame[c].down = 0
    BY <1>0, <1>4 DEF FirstFrame, GateInv
  <2>2. CASE /\ GateAdd(c, n, TRUE)
             /\ phase' = [phase EXCEPT ![c] = "connecting"]
             /\ frame' = [frame EXCEPT ![c].up = n]
    <3>1. frame'[c].up = n /\ frame'[c].down = frame[c].down
      BY <2>2, <1>0 DEF Pumps
    <3>2. \A d \in Conns \ {c} : frame'[d] = frame[d] /\ phase'[d] = phase[d]
      BY <2>2, <1>0 DEF AllConns
    <3>3. /\ \A d \in Conns \ {c} : gate'[d] = gate[d]
          /\ \A d \in AllConns \ {c} : debt'[d] = debt[d]
          /\ gate'[c].pending <= MaxBatch - 1
          /\ debt'[c] + n - Slack(c)' <= debt[c] - Slack(c)
      BY <2>2, <1>0, GateAddSlack
    <3>4. /\ debt'[c] \in Int /\ gate' \in [Conns -> GateRecord]
          /\ Slack(c)' \in Int /\ n \in Int
      <4>1. debt'[c] \in Int /\ gate' \in [Conns -> GateRecord]
        BY <1>0, <2>2, GateAddType
      <4> QED BY <4>1 DEF Slack, GateRecord
    <3>5. phase'[c] = "connecting"
      BY <2>2, <1>0
    <3>6. GateInv(c)'
      BY <1>0, <2>1, <3>1, <3>3, <3>4, <3>5 DEF GateInv
    <3> QED BY <1>0, <3>2, <3>3, <3>6, OtherTunnels
  <2>3. CASE GateAdd(c, n, FALSE) /\ Close(c) /\ UNCHANGED frame
    <3>1. /\ \A d \in Conns \ {c} : gate'[d] = gate[d]
          /\ \A d \in AllConns \ {c} : debt'[d] = debt[d]
          /\ gate'[c].pending <= MaxBatch - 1
          /\ debt'[c] + (IF FALSE THEN n ELSE 0) - Slack(c)' <= debt[c] - Slack(c)
      BY <2>3, <1>0, GateAddSlack
    <3>2. debt'[c] \in Int /\ Slack(c)' \in Int
      <4>1. debt'[c] \in Int /\ gate' \in [Conns -> GateRecord]
        BY <1>0, <2>3, GateAddType
      <4> QED BY <4>1 DEF Slack, GateRecord
    <3>3. GateInv(c)'
      BY <1>0, <1>3, <2>1, <2>3, <3>1, <3>2 DEF GateInv
    <3> QED BY <1>0, <1>3, <2>3, <3>1, <3>3, OtherTunnels
  <2> QED BY <1>4, <2>2, <2>3 DEF FirstFrame
<1>5. ASSUME NEW c \in Conns, HandshakeFails(c)
      PROVE  TunnelInv'
  <2>1. /\ phase[c] = "accepted"
        /\ UNCHANGED <<gate, frame, debt>>
    BY <1>5 DEF HandshakeFails, histVars
  <2>2. phase'[c] = "closed" /\ \A d \in Conns \ {c} : phase'[d] = phase[d]
    BY <1>0, <1>3, <1>5 DEF HandshakeFails
  <2>3. GateInv(c)'
    BY <1>0, <2>1, <2>2 DEF GateInv, Slack
  <2> QED BY <1>0, <2>1, <2>2, <2>3, OtherTunnels
<1>6. ASSUME NEW c \in Conns, NEW n \in 0..MaxFrame, Relay(c, n)
      PROVE  debt'[c] = debt[c] + n /\ \A d \in AllConns \ {c} : debt'[d] = debt[d]
  BY <1>0, <1>6 DEF Relay
<1>7. ASSUME NEW c \in Conns, Connected(c)
      PROVE  TunnelInv'
  <2>1. debt'[c] = debt[c] + frame[c].up /\ \A d \in AllConns \ {c} : debt'[d] = debt[d]
    BY <1>0, <1>6, <1>7 DEF Connected
  <2>2. /\ frame'[c].up = 0 /\ frame'[c].down = frame[c].down
        /\ \A d \in Conns \ {c} : frame'[d] = frame[d] /\ phase'[d] = phase[d]
        /\ phase'[c] = "relaying" /\ gate' = gate
    BY <1>0, <1>7 DEF Connected, Pumps, AllConns
  <2>3. frame[c].down = 0
    BY <1>0, <1>7 DEF GateInv, Connected
  <2>4. GateInv(c)'
    BY <1>0, <2>1, <2>2, <2>3 DEF GateInv, Slack
  <2> QED BY <1>0, <2>1, <2>2, <2>4, OtherTunnels
<1>8. ASSUME NEW c \in Conns, ConnectFails(c)
      PROVE  TunnelInv'
  <2>1. /\ frame'[c].up = 0 /\ frame'[c].down = frame[c].down
        /\ \A d \in Conns \ {c} : frame'[d] = frame[d]
        /\ UNCHANGED <<gate, debt>>
    BY <1>0, <1>8 DEF ConnectFails, Pumps, histVars
  <2>2. phase'[c] = "closed" /\ \A d \in Conns \ {c} : phase'[d] = phase[d]
    BY <1>0, <1>3, <1>8 DEF ConnectFails
  <2>3. frame[c].down = 0
    BY <1>0, <1>8 DEF GateInv, ConnectFails
  <2>4. GateInv(c)'
    BY <1>0, <2>1, <2>2, <2>3 DEF GateInv, Slack
  <2> QED BY <1>0, <2>1, <2>2, <2>4, OtherTunnels
<1>9. ASSUME NEW c \in Conns, NEW p \in Pumps, NEW n \in FrameSizes, Frame(c, p, n)
      PROVE  TunnelInv'
  <2>1. phase[c] = "relaying" /\ phase' = phase
    BY <1>9 DEF Frame
  <2>2. CASE GateAdd(c, n, TRUE) /\ frame' = [frame EXCEPT ![c][p] = n]
    <3>1. /\ frame'[c].up + frame'[c].down <= frame[c].up + frame[c].down + n
          /\ frame'[c].up \in Int /\ frame'[c].down \in Int
      <4>1. CASE p = "up"
        BY <2>2, <1>0, <4>1 DEF Pumps
      <4>2. CASE p = "down"
        BY <2>2, <1>0, <4>2 DEF Pumps
      <4> QED BY <4>1, <4>2 DEF Pumps
    <3>2. \A d \in Conns \ {c} : frame'[d] = frame[d]
      BY <2>2
    <3>3. /\ \A d \in Conns \ {c} : gate'[d] = gate[d]
          /\ \A d \in AllConns \ {c} : debt'[d] = debt[d]
          /\ gate'[c].pending <= MaxBatch - 1
          /\ debt'[c] + n - Slack(c)' <= debt[c] - Slack(c)
      BY <2>2, <1>0, GateAddSlack
    <3>4. debt'[c] \in Int /\ Slack(c)' \in Int /\ n \in Int
      <4>1. debt'[c] \in Int /\ gate' \in [Conns -> GateRecord]
        BY <1>0, <2>2, GateAddType
      <4> QED BY <4>1 DEF Slack, GateRecord
    <3>5. GateInv(c)'
      BY <1>0, <2>1, <3>1, <3>3, <3>4 DEF GateInv
    <3> QED BY <1>0, <2>1, <3>2, <3>3, <3>5, OtherTunnels
  <2>3. CASE GateAdd(c, n, FALSE) /\ UNCHANGED frame
    <3>1. debt'[c] + (IF FALSE THEN n ELSE 0) - Slack(c)' <= debt[c] - Slack(c)
      BY <2>3, <1>0, GateAddSlack
    <3>2. /\ \A d \in Conns \ {c} : gate'[d] = gate[d]
          /\ \A d \in AllConns \ {c} : debt'[d] = debt[d]
          /\ gate'[c].pending <= MaxBatch - 1
      BY <2>3, <1>0, GateAddSlack
    <3>3. debt'[c] \in Int /\ Slack(c)' \in Int
      <4>1. debt'[c] \in Int /\ gate' \in [Conns -> GateRecord]
        BY <1>0, <2>3, GateAddType
      <4> QED BY <4>1 DEF Slack, GateRecord
    <3>4. GateInv(c)'
      BY <1>0, <2>1, <2>3, <3>1, <3>2, <3>3 DEF GateInv
    <3> QED BY <1>0, <2>1, <2>3, <3>2, <3>4, OtherTunnels
  <2> QED BY <1>9, <2>2, <2>3 DEF Frame
<1>10. ASSUME NEW c \in Conns, NEW p \in Pumps, Write(c, p)
       PROVE  TunnelInv'
  <2>1. frame[c][p] \in 0..MaxFrame
    OBVIOUS
  <2>2. debt'[c] = debt[c] + frame[c][p] /\ \A d \in AllConns \ {c} : debt'[d] = debt[d]
    BY <1>6, <1>10, <2>1 DEF Write
  <2>3. /\ \A d \in Conns \ {c} : frame'[d] = frame[d]
        /\ UNCHANGED <<gate, phase>> /\ phase[c] = "relaying"
    BY <1>10 DEF Write
  <2>4. /\ frame'[c].up \in Int /\ frame'[c].down \in Int
        /\ frame'[c].up + frame'[c].down = frame[c].up + frame[c].down - frame[c][p]
    <3>1. CASE p = "up"
      BY <1>0, <1>10, <3>1 DEF Pumps, Write
    <3>2. CASE p = "down"
      BY <1>0, <1>10, <3>2 DEF Pumps, Write
    <3> QED BY <3>1, <3>2 DEF Pumps
  <2>5. GateInv(c)'
    BY <1>0, <2>1, <2>2, <2>3, <2>4 DEF GateInv, Slack
  <2> QED BY <1>0, <2>2, <2>3, <2>5, OtherTunnels
<1>11. ASSUME NEW c \in Conns, NEW p \in Pumps, DeniedAfterThrottle(c, p)
       PROVE  TunnelInv'
  <2>1. /\ \A d \in Conns \ {c} : frame'[d] = frame[d]
        /\ UNCHANGED <<gate, phase, debt>> /\ phase[c] = "relaying"
    BY <1>11 DEF DeniedAfterThrottle, histVars
  <2>2. /\ frame'[c].up \in Int /\ frame'[c].down \in Int
        /\ frame'[c].up + frame'[c].down <= frame[c].up + frame[c].down
    <3>1. CASE p = "up"
      BY <1>0, <1>11, <3>1 DEF Pumps, DeniedAfterThrottle
    <3>2. CASE p = "down"
      BY <1>0, <1>11, <3>2 DEF Pumps, DeniedAfterThrottle
    <3> QED BY <3>1, <3>2 DEF Pumps
  <2>3. GateInv(c)'
    BY <1>0, <2>1, <2>2 DEF GateInv, Slack
  <2> QED BY <1>0, <2>1, <2>3, OtherTunnels
<1>12. ASSUME NEW c \in Conns, GateFlush(c)
       PROVE  /\ \A d \in Conns \ {c} : gate'[d] = gate[d]
              /\ \A d \in AllConns \ {c} : debt'[d] = debt[d]
              /\ gate'[c].pending <= MaxBatch - 1
              /\ debt'[c] - Slack(c)' <= debt[c] - Slack(c)
              /\ debt'[c] \in Int /\ Slack(c)' \in Int
  <2>1. debt'[c] \in Int /\ gate' \in [Conns -> GateRecord]
    BY <1>0, <1>12, GateFlushType
  <2>2. Slack(c)' \in Int
    BY <2>1 DEF Slack, GateRecord
  <2> QED BY <1>0, <1>12, <2>1, <2>2, GateFlushSlack
<1>13. ASSUME NEW c \in Conns, NEW p \in Pumps, PumpEnds(c, p)
       PROVE  TunnelInv'
  <2>1. /\ \A d \in Conns \ {c} : frame'[d] = frame[d]
        /\ phase' = phase /\ phase[c] = "relaying" /\ GateFlush(c)
    BY <1>13 DEF PumpEnds
  <2>2. /\ frame'[c].up \in Int /\ frame'[c].down \in Int
        /\ frame'[c].up + frame'[c].down <= frame[c].up + frame[c].down
    <3>1. CASE p = "up"
      BY <1>0, <1>13, <3>1 DEF Pumps, PumpEnds
    <3>2. CASE p = "down"
      BY <1>0, <1>13, <3>2 DEF Pumps, PumpEnds
    <3> QED BY <3>1, <3>2 DEF Pumps
  <2>3. GateInv(c)'
    BY <1>0, <1>12, <2>1, <2>2 DEF GateInv
  <2> QED BY <1>0, <1>12, <2>1, <2>3, OtherTunnels
<1>14. ASSUME NEW c \in Conns, Finish(c)
       PROVE  TunnelInv'
  <2>1. /\ \A d \in Conns \ {c} : frame'[d] = frame[d]
        /\ frame'[c].up = 0 /\ frame'[c].down = 0
        /\ GateFlush(c)
    BY <1>14 DEF Finish, Pumps
  <2>2. phase'[c] = "closed" /\ \A d \in Conns \ {c} : phase'[d] = phase[d]
    BY <1>0, <1>3, <1>14 DEF Finish
  <2>3. debt'[c] <= Slack(c)'
    <3>1. /\ debt'[c] - Slack(c)' <= debt[c] - Slack(c)
          /\ debt'[c] \in Int /\ Slack(c)' \in Int
      BY <1>12, <2>1
    <3>2. debt[c] <= Slack(c) /\ debt[c] \in Int /\ Slack(c) \in Int
      BY <1>0 DEF GateInv
    <3> QED BY <3>1, <3>2
  <2>4. GateInv(c)'
    BY <1>12, <2>1, <2>2, <2>3 DEF GateInv
  <2> QED BY <1>0, <1>12, <2>1, <2>2, <2>4, OtherTunnels
<1>15. ASSUME NEW c \in VMessConns, UNCHANGED <<gate, frame, debt>>,
              \A d \in Conns : phase'[d] = phase[d]
       PROVE  TunnelInv'
  BY <1>15 DEF TunnelInv, GateInv, Slack
<1>16. ASSUME NEW c \in VMessConns, VMessTunnel(c)
       PROVE  TunnelInv'
  <2>1. \A d \in Conns : d # c
    OBVIOUS
  <2>2. UNCHANGED <<gate, frame, debt>>
    BY <1>16 DEF VMessTunnel, VMessConnected, VMessFrame, VMessEnds, PolicyCut,
                gateVars, histVars
  <2>3. \A d \in Conns : phase'[d] = phase[d]
    BY <1>16, <2>1 DEF VMessTunnel, VMessConnected, VMessFrame, VMessEnds, PolicyCut,
                       gateVars, Close, AllConns
  <2> QED BY <1>15, <2>2, <2>3
<1>17. CASE Manage
  BY <1>1, <1>17 DEF Manage, CreateLink, PatchLink, DeleteLink, Expire, SetCap, NewPeriod
<1>18. CASE UNCHANGED vars
  BY <1>1, <1>18 DEF vars, histVars
<1> QED
  BY <1>2, <1>4, <1>5, <1>7, <1>8, <1>9, <1>10, <1>11, <1>13, <1>14, <1>16, <1>17, <1>18
  DEF Next, Tunnel

(* Counting a batch on an allowed link stays within the overshoot.         *)
LEMMA CountLink ==
  ASSUME TypeOK, LinkInv, NEW c \in AllConns, NEW k \in Nat,
         k <= MaxBatch - 1 + MaxFrame, Count(c, k), period' = period
  PROVE  LinkInv'
<1> SUFFICES ASSUME NEW l \in Links
             PROVE  /\ link'[l].limit <= period[l].ceiling
                    /\ link'[l].limit > 0 => link'[l].used <= period[l].ceiling + Overshoot
  BY DEF LinkInv
<1>1. link[l] \in LinkRecord /\ period[l] \in PeriodRecord
  BY DEF TypeOK
<1>2. link[l].limit \in Nat /\ link[l].used \in Nat /\ period[l].ceiling \in Nat
  BY <1>1 DEF LinkRecord, PeriodRecord
<1>3. CASE link'[l] = link[l]
  BY <1>3 DEF LinkInv
<1>4. CASE Allowed(l) /\ link'[l] = [link[l] EXCEPT !.used = @ + k]
  <2>1. link'[l].limit = link[l].limit /\ link'[l].used = link[l].used + k
    BY <1>1, <1>4 DEF LinkRecord
  <2>2. link[l].limit > 0 => link[l].used < link[l].limit
    BY <1>4 DEF Allowed, Passes
  <2>3. link[l].limit <= period[l].ceiling
    BY DEF LinkInv
  <2> QED BY <1>2, <2>1, <2>2, <2>3 DEF Overshoot
<1>5. link' = link \/ (Allowed(owner[c]) /\ link' = [link EXCEPT ![owner[c]].used = @ + k])
  BY DEF Count
<1>6. link'[l] = link[l] \/ (Allowed(l) /\ link'[l] = [link[l] EXCEPT !.used = @ + k])
  <2>1. CASE link' = link
    BY <2>1
  <2>2. CASE Allowed(owner[c]) /\ link' = [link EXCEPT ![owner[c]].used = @ + k]
    <3>1. link \in [Links -> LinkRecord]
      BY DEF TypeOK
    <3>2. CASE owner[c] = l
      BY <2>2, <3>1, <3>2
    <3>3. CASE owner[c] # l
      BY <2>2, <3>1, <3>3
    <3> QED BY <3>2, <3>3
  <2> QED BY <1>5, <2>1, <2>2
<1> QED BY <1>3, <1>4, <1>6

(* Counting below the cap ends within the overshoot.                       *)
LEMMA CountCap ==
  ASSUME TypeOK, CapInv, NEW c \in AllConns, NEW k \in Nat,
         k <= MaxBatch - 1 + MaxFrame, Count(c, k), ~CapReached,
         UNCHANGED <<cap, ceiling>>
  PROVE  CapInv'
<1>1. total' = total + k
  BY DEF Count
<1>2. total \in Nat /\ cap \in Nat /\ ceiling \in Nat
  BY DEF TypeOK
<1>3. cap > 0 => total < cap
  BY <1>2 DEF CapReached
<1> QED BY <1>1, <1>2, <1>3 DEF CapInv, Overshoot

(* The gate counts at most a batch and a frame, and only below the cap.    *)
LEMMA GateCounts ==
  ASSUME TypeOK, NEW c \in Conns, GateInv(c),
         \/ \E n \in FrameSizes, a \in BOOLEAN : GateAdd(c, n, a)
         \/ GateFlush(c)
  PROVE  \/ UNCHANGED <<total, link>>
         \/ /\ ~CapReached
            /\ \E k \in Nat : k <= MaxBatch - 1 + MaxFrame /\ Count(c, k)
<1>1. gate[c].pending \in Nat /\ gate[c].pending <= MaxBatch - 1
  BY DEF TypeOK, GateRecord, GateInv
<1>2. ASSUME NEW n \in FrameSizes, NEW a \in BOOLEAN, GateAdd(c, n, a)
      PROVE  \/ UNCHANGED <<total, link>>
             \/ /\ ~CapReached
                /\ Count(c, gate[c].pending + n)
  BY <1>2 DEF GateAdd
<1>3. ASSUME NEW n \in FrameSizes
      PROVE  gate[c].pending + n \in Nat /\ gate[c].pending + n <= MaxBatch - 1 + MaxFrame
  BY <1>1
<1>4. CASE GateFlush(c)
  <2>1. \/ UNCHANGED <<total, link>>
        \/ ~CapReached /\ Count(c, gate[c].pending)
    BY <1>4 DEF GateFlush
  <2>2. gate[c].pending <= MaxBatch - 1 + MaxFrame
    BY <1>1
  <2> QED BY <1>1, <2>1, <2>2
<1> QED BY <1>2, <1>3, <1>4

(* Every step of the Core keeps the counter of a limited link in bounds.   *)
LEMMA LinkStep == TypeOK /\ TunnelInv /\ LinkInv /\ [Next]_vars => LinkInv'
<1> SUFFICES ASSUME TypeOK, TunnelInv, LinkInv, [Next]_vars
             PROVE  LinkInv'
  OBVIOUS
<1>0. TypeOK'
  BY TypeStep
<1>1. ASSUME NEW l \in Links,
             period'[l] = PeriodOf(link'[l])
      PROVE  /\ link'[l].limit <= period'[l].ceiling
             /\ link'[l].limit > 0 => link'[l].used <= period'[l].ceiling + Overshoot
  <2>1. link'[l] \in LinkRecord
    BY <1>0 DEF TypeOK
  <2>2. link'[l].limit \in Nat /\ link'[l].used \in Nat
    BY <2>1 DEF LinkRecord
  <2>3. period'[l].ceiling = Max2(link'[l].limit, link'[l].used)
    BY <1>1 DEF PeriodOf
  <2> QED BY <2>2, <2>3 DEF Max2, Overshoot
<1>2. ASSUME NEW l \in Links, CreateLink(l) \/ PatchLink(l) \/ DeleteLink(l) \/ Expire(l)
      PROVE  LinkInv'
  <2>1. /\ period' = [period EXCEPT ![l] = PeriodOf(link'[l])]
        /\ period \in [Links -> PeriodRecord] /\ link \in [Links -> LinkRecord]
    BY <1>2 DEF CreateLink, PatchLink, DeleteLink, Expire, NewPeriod, TypeOK
  <2>2. \A m \in Links \ {l} : link'[m] = link[m]
    BY <1>2, <2>1 DEF CreateLink, PatchLink, DeleteLink, Expire
  <2>3. ASSUME NEW m \in Links
        PROVE  /\ link'[m].limit <= period'[m].ceiling
               /\ link'[m].limit > 0 => link'[m].used <= period'[m].ceiling + Overshoot
    <3>1. CASE m = l
      BY <1>1, <2>1, <3>1
    <3>2. CASE m # l
      BY <2>1, <2>2, <3>2 DEF LinkInv
    <3> QED BY <3>1, <3>2
  <2> QED BY <2>3 DEF LinkInv
<1>3. ASSUME NEW v \in Caps, SetCap(v)
      PROVE  LinkInv'
  <2>1. \A l \in Links : period'[l] = PeriodOf(link'[l])
    BY <1>3 DEF SetCap
  <2> QED BY <1>1, <2>1 DEF LinkInv
<1>4. ASSUME NEW c \in Conns, UNCHANGED period,
             \/ \E n \in FrameSizes, a \in BOOLEAN : GateAdd(c, n, a)
             \/ GateFlush(c)
      PROVE  LinkInv'
  <2>1. c \in AllConns /\ GateInv(c)
    BY DEF AllConns, TunnelInv
  <2>2. CASE UNCHANGED <<total, link>>
    BY <1>4, <2>2 DEF LinkInv
  <2>3. CASE \E k \in Nat : k <= MaxBatch - 1 + MaxFrame /\ Count(c, k)
    BY <1>4, <2>1, <2>3, CountLink
  <2> QED BY <1>4, <2>1, <2>2, <2>3, GateCounts
<1>5. ASSUME NEW c \in Conns,
             \/ \E n \in FrameSizes : FirstFrame(c, n)
             \/ \E p \in Pumps, n \in FrameSizes : Frame(c, p, n)
             \/ \E p \in Pumps : PumpEnds(c, p)
             \/ Finish(c)
      PROVE  LinkInv'
  BY <1>4, <1>5 DEF FirstFrame, Frame, PumpEnds, Finish
<1>6. ASSUME NEW c \in AllConns, NEW k, Relay(c, k), UNCHANGED link
      PROVE  LinkInv'
  <2>1. ASSUME NEW l \in Links
        PROVE  period'[l].ceiling = period[l].ceiling
    <3>1. period[l] \in PeriodRecord
      BY DEF TypeOK
    <3>2. period'[l] = period[l] \/ period'[l] = [period[l] EXCEPT !.spent = @ + k]
      BY <1>6 DEF Relay, TypeOK
    <3> QED BY <3>1, <3>2 DEF PeriodRecord
  <2> QED BY <1>6, <2>1 DEF LinkInv
<1>7. ASSUME NEW c \in Conns, Connected(c) \/ \E p \in Pumps : Write(c, p)
      PROVE  LinkInv'
  BY <1>6, <1>7 DEF Connected, Write, AllConns
<1>8. ASSUME NEW c \in VMessConns, NEW n \in FrameSizes, VMessFrame(c, n)
      PROVE  LinkInv'
  <2>1. ASSUME NEW l \in Links
        PROVE  /\ link'[l].limit <= period'[l].ceiling
               /\ link'[l].limit > 0 => link'[l].used <= period'[l].ceiling + Overshoot
    <3>1. /\ link[l] \in LinkRecord /\ period[l] \in PeriodRecord
          /\ link \in [Links -> LinkRecord] /\ period \in [Links -> PeriodRecord]
      BY DEF TypeOK
    <3>2. link[l].limit \in Nat /\ link[l].used \in Nat /\ period[l].ceiling \in Nat
      BY <3>1 DEF LinkRecord, PeriodRecord
    <3>3. period'[l].ceiling = period[l].ceiling
      <4>1. period'[l] = period[l] \/ period'[l] = [period[l] EXCEPT !.spent = @ + n]
        BY <1>8, <3>1 DEF VMessFrame
      <4> QED BY <3>1, <4>1 DEF PeriodRecord
    <3>4. /\ link[l].limit <= period[l].ceiling
          /\ link[l].limit > 0 => link[l].used <= period[l].ceiling + Overshoot
      BY DEF LinkInv
    <3>5. CASE l = owner[c]
      <4>1. link'[l] = [link[l] EXCEPT !.used = @ + n] /\ Allowed(l)
        BY <1>8, <3>1, <3>5 DEF VMessFrame
      <4>2. link'[l].limit = link[l].limit /\ link'[l].used = link[l].used + n
        BY <3>1, <4>1 DEF LinkRecord
      <4>3. link[l].limit > 0 => link[l].used < link[l].limit
        BY <4>1 DEF Allowed, Passes
      <4>4. n <= MaxFrame /\ n \in Nat
        OBVIOUS
      <4> QED BY <3>2, <3>3, <3>4, <4>2, <4>3, <4>4 DEF Overshoot
    <3>6. CASE l # owner[c]
      <4>1. link'[l] = link[l]
        BY <1>8, <3>1, <3>6 DEF VMessFrame
      <4> QED BY <3>3, <3>4, <4>1
    <3> QED BY <3>5, <3>6
  <2> QED BY <2>1 DEF LinkInv
<1>9. CASE UNCHANGED <<link, period>>
  BY <1>9 DEF LinkInv
<1>10. ASSUME NEW c \in Conns,
              HandshakeFails(c) \/ ConnectFails(c) \/ \E p \in Pumps : DeniedAfterThrottle(c, p)
       PROVE  UNCHANGED <<link, period>>
  BY <1>10 DEF HandshakeFails, ConnectFails, DeniedAfterThrottle, histVars
<1>11. ASSUME NEW c \in VMessConns, VMessConnected(c) \/ VMessEnds(c) \/ PolicyCut(c)
       PROVE  UNCHANGED <<link, period>>
  BY <1>11 DEF VMessConnected, VMessEnds, PolicyCut, histVars
<1>12. ASSUME NEW c \in AllConns, NEW l \in Links, Open(c, l)
       PROVE  UNCHANGED <<link, period>>
  BY <1>12 DEF Open
<1>13. CASE UNCHANGED vars
  BY <1>9, <1>13 DEF vars, histVars
<1> QED
  BY <1>2, <1>3, <1>5, <1>7, <1>8, <1>9, <1>10, <1>11, <1>12, <1>13
  DEF Next, Manage, Tunnel, VMessTunnel

(* Without VMess, every step keeps the lifetime total in bounds of the cap.*)
LEMMA CapStep ==
  ASSUME VMessConns = {}
  PROVE  TypeOK /\ TunnelInv /\ CapInv /\ [Next]_vars => CapInv'
<1> SUFFICES ASSUME TypeOK, TunnelInv, CapInv, [Next]_vars
             PROVE  CapInv'
  OBVIOUS
<1>1. ASSUME NEW v \in Caps, SetCap(v)
      PROVE  CapInv'
  BY <1>1 DEF SetCap, CapInv, TypeOK, Max2, Overshoot
<1>2. ASSUME NEW c \in Conns, UNCHANGED <<cap, ceiling>>,
             \/ \E n \in FrameSizes, a \in BOOLEAN : GateAdd(c, n, a)
             \/ GateFlush(c)
      PROVE  CapInv'
  <2>1. c \in AllConns /\ GateInv(c)
    BY DEF AllConns, TunnelInv
  <2>2. CASE UNCHANGED <<total, link>>
    BY <1>2, <2>2 DEF CapInv
  <2>3. CASE ~CapReached /\ \E k \in Nat : k <= MaxBatch - 1 + MaxFrame /\ Count(c, k)
    BY <1>2, <2>1, <2>3, CountCap
  <2> QED BY <1>2, <2>1, <2>2, <2>3, GateCounts
<1>3. ASSUME NEW c \in Conns,
             \/ \E n \in FrameSizes : FirstFrame(c, n)
             \/ \E p \in Pumps, n \in FrameSizes : Frame(c, p, n)
             \/ \E p \in Pumps : PumpEnds(c, p)
             \/ Finish(c)
      PROVE  CapInv'
  BY <1>2, <1>3 DEF FirstFrame, Frame, PumpEnds, Finish
<1>4. CASE UNCHANGED <<cap, ceiling, total>>
  BY <1>4 DEF CapInv
<1>5. ASSUME NEW c \in Conns,
             \/ HandshakeFails(c) \/ Connected(c) \/ ConnectFails(c)
             \/ \E p \in Pumps : Write(c, p) \/ DeniedAfterThrottle(c, p)
      PROVE  UNCHANGED <<cap, ceiling, total>>
  BY <1>5 DEF HandshakeFails, Connected, ConnectFails, Write, DeniedAfterThrottle, histVars
<1>6. ASSUME NEW l \in Links, CreateLink(l) \/ PatchLink(l) \/ DeleteLink(l) \/ Expire(l)
      PROVE  UNCHANGED <<cap, ceiling, total>>
  BY <1>6 DEF CreateLink, PatchLink, DeleteLink, Expire, NewPeriod
<1>7. ASSUME NEW c \in AllConns, NEW l \in Links, Open(c, l)
      PROVE  UNCHANGED <<cap, ceiling, total>>
  BY <1>7 DEF Open
<1>8. CASE UNCHANGED vars
  BY <1>4, <1>8 DEF vars, histVars
<1> QED
  BY <1>1, <1>3, <1>4, <1>5, <1>6, <1>7, <1>8 DEF Next, Manage, Tunnel

-----------------------------------------------------------------------------
(* A Core starts without tunnels.                                          *)
LEMMA TunnelInit == Init => TunnelInv
  BY DEF Init, TunnelInv, GateInv, Slack, NewGate, AllConns, Pumps

LEMMA TunnelIsUncounted == TypeOK /\ TunnelInv => UncountedBounded
<1> SUFFICES ASSUME TypeOK, TunnelInv, NEW c \in AllConns
             PROVE  debt[c] <= MaxBatch - 1
  BY DEF UncountedBounded
<1>1. CASE c \in Conns
  <2>1. GateInv(c) /\ gate[c].pending \in Nat /\ debt[c] \in Int
    BY <1>1 DEF TunnelInv, TypeOK, GateRecord
  <2>2. frame[c].up \in Nat /\ frame[c].down \in Nat
    BY <1>1 DEF TypeOK, Pumps
  <2> QED BY <2>1, <2>2 DEF GateInv, Slack
<1>2. CASE c \in VMessConns
  BY <1>2 DEF TunnelInv
<1> QED BY <1>1, <1>2 DEF AllConns

(* For any number of tunnels and any batch sizes, a tunnel has less than a *)
(* batch of relayed bytes that the counters do not show.                   *)
THEOREM UncountedIsBounded == Spec => []UncountedBounded
  BY TunnelIsUncounted, TypeCorrect, TunnelInit, TunnelStep, PTL DEF Spec

(* For any number of tunnels on a link, VMess included, its counter passes *)
(* its limit by one flush at most.                                         *)
THEOREM LinkOvershootIsBounded == Spec => []LinkOvershootBounded
<1>1. Init => LinkInv
  BY DEF Init, LinkInv, PeriodOf, Max2, Overshoot
<1>2. LinkInv => LinkOvershootBounded
  BY DEF LinkInv, LinkOvershootBounded
<1> QED BY <1>1, <1>2, TypeCorrect, TunnelInit, TunnelStep, LinkStep, PTL DEF Spec

(* Without VMess tunnels the lifetime total passes the instance cap by one *)
(* flush at most, for any number of tunnels and any sequence of caps.      *)
THEOREM CapOvershootIsBounded ==
  ASSUME VMessConns = {}
  PROVE  Spec => []CapOvershootBounded
<1>1. Init => CapInv
  BY DEF Init, CapInv, Overshoot
<1>2. CapInv => CapOvershootBounded
  BY DEF CapInv, CapOvershootBounded
<1>3. TypeOK /\ TunnelInv /\ CapInv /\ [Next]_vars => CapInv'
  BY CapStep
<1> QED BY <1>1, <1>2, <1>3, TypeCorrect, TunnelInit, TunnelStep, PTL DEF Spec

(* The bounds together, for every number of tunnels of either kind.        *)
THEOREM OvershootIsBounded == Spec => []OvershootBounded
<1>1. CASE VMessConns = {}
  <2>1. Spec => []CapOvershootBounded
    BY <1>1, CapOvershootIsBounded
  <2>2. TypeOK /\ UncountedBounded /\ LinkOvershootBounded /\ CapOvershootBounded
        => OvershootBounded
    BY DEF OvershootBounded
  <2> QED
    BY <2>1, <2>2, TypeCorrect, UncountedIsBounded, LinkOvershootIsBounded, PTL
<1>2. CASE VMessConns # {}
  <2>1. TypeOK /\ UncountedBounded /\ LinkOvershootBounded => OvershootBounded
    BY <1>2 DEF OvershootBounded
  <2> QED
    BY <2>1, TypeCorrect, UncountedIsBounded, LinkOvershootIsBounded, PTL
<1> QED BY <1>1, <1>2

-----------------------------------------------------------------------------
(* What the tunnels of a link relay in a period.  Each tunnel handler has a*)
(* weight: what it has relayed on the link less what it has charged to it, *)
(* in all the tunnels it has served meanwhile; and the weights have a sum. *)
Weights == [Conns -> Int]

Sums(w) ==
  {s \in [SUBSET Conns -> Int] :
     /\ s[{}] = 0
     /\ \A D \in SUBSET Conns, c \in Conns : c \notin D => s[D \cup {c}] = s[D] + w[c]}

LEMMA SumMoves ==
  ASSUME NEW w \in Weights, NEW s \in Sums(w), NEW c \in Conns, NEW x \in Int
  PROVE  \E v \in Weights : \E r \in Sums(v) :
           /\ v = [w EXCEPT ![c] = w[c] + x]
           /\ r[Conns] = s[Conns] + x
<1> DEFINE v == [w EXCEPT ![c] = w[c] + x]
           r == [D \in SUBSET Conns |-> IF c \in D THEN s[D] + x ELSE s[D]]
<1>1. /\ s \in [SUBSET Conns -> Int] /\ s[{}] = 0
      /\ \A D \in SUBSET Conns, d \in Conns : d \notin D => s[D \cup {d}] = s[D] + w[d]
  BY DEF Sums
<1>2. /\ v \in Weights /\ v[c] = w[c] + x /\ \A d \in Conns \ {c} : v[d] = w[d]
      /\ \A d \in Conns : w[d] \in Int
  BY DEF Weights
<1>3. /\ r \in [SUBSET Conns -> Int] /\ r[{}] = 0
      /\ \A D \in SUBSET Conns : r[D] = IF c \in D THEN s[D] + x ELSE s[D]
  BY <1>1
<1> HIDE DEF v, r
<1>4. ASSUME NEW D \in SUBSET Conns, NEW d \in Conns, d \notin D
      PROVE  r[D \cup {d}] = r[D] + v[d]
  <2>1. /\ D \cup {d} \in SUBSET Conns /\ s[D \cup {d}] = s[D] + w[d]
        /\ s[D] \in Int /\ w[d] \in Int
    BY <1>1, <1>2, <1>4
  <2>2. CASE d = c
    <3>1. r[D \cup {d}] = s[D \cup {d}] + x /\ r[D] = s[D] /\ v[d] = w[d] + x
      BY <1>2, <1>3, <1>4, <2>1, <2>2
    <3> QED
      BY <2>1, <3>1
  <2>3. CASE d # c /\ c \in D
    <3>1. r[D \cup {d}] = s[D \cup {d}] + x /\ r[D] = s[D] + x /\ v[d] = w[d]
      BY <1>2, <1>3, <2>1, <2>3
    <3> QED
      BY <2>1, <3>1
  <2>4. CASE d # c /\ c \notin D
    <3>1. r[D \cup {d}] = s[D \cup {d}] /\ r[D] = s[D] /\ v[d] = w[d]
      BY <1>2, <1>3, <2>1, <2>4
    <3> QED
      BY <2>1, <3>1
  <2> QED
    BY <2>2, <2>3, <2>4
<1>5. r \in Sums(v) /\ r[Conns] = s[Conns] + x
  BY <1>3, <1>4 DEF Sums
<1> QED
  BY <1>2, <1>5 DEF v

(* A set of natural numbers has a least one.                               *)
LEMMA LeastNatural ==
  ASSUME NEW U, U \subseteq Nat, U # {}
  PROVE  \E m \in U : \A k \in U : m <= k
<1> DEFINE R == {ss \in Nat \X Nat : ss[1] < ss[2]}
<1>1. IsWellFoundedOn(R, Nat)
  BY NatLessThanWellFounded DEF OpToRel
<1>2. PICK m \in U : \A k \in U : ~(<<k, m>> \in R)
  BY <1>1, WFMin
<1>3. ASSUME NEW k \in U PROVE m <= k
  <2>1. <<k, m>> \in Nat \X Nat /\ ~(<<k, m>> \in R)
    BY <1>2
  <2>2. ~(k < m)
    BY <2>1
  <2> QED BY <2>2
<1> QED BY <1>3

(* A sum of weights that are B at most.                                    *)
LEMMA SumIsBounded ==
  ASSUME NEW w \in Weights, NEW s \in Sums(w), NEW B \in Nat, \A c \in Conns : w[c] <= B
  PROVE  s[Conns] <= Cardinality(Conns) * B
<1> DEFINE U == {n \in Nat : \E D \in SUBSET Conns : Cardinality(D) = n /\ s[D] > n * B}
<1>1. /\ s \in [SUBSET Conns -> Int] /\ s[{}] = 0 /\ \A c \in Conns : w[c] \in Int
      /\ \A D \in SUBSET Conns, d \in Conns : d \notin D => s[D \cup {d}] = s[D] + w[d]
  BY DEF Sums, Weights
<1>2. \A D \in SUBSET Conns : IsFiniteSet(D) /\ Cardinality(D) \in Nat
  BY FS_Subset, FS_CardinalityType
<1>3. ASSUME U # {} PROVE FALSE
  <2>1. PICK m \in U : \A k \in U : m <= k
    <3>1. U \subseteq Nat
      OBVIOUS
    <3> HIDE DEF U
    <3> QED
      BY <1>3, <3>1, LeastNatural
  <2>2. PICK D \in SUBSET Conns : Cardinality(D) = m /\ s[D] > m * B
    OBVIOUS
  <2>3. m \in Nat
    OBVIOUS
  <2>4. D # {}
    <3>1. 0 * B = 0
      OBVIOUS
    <3>2. ASSUME D = {} PROVE FALSE
      <4>1. Cardinality(D) = 0
        BY <3>2, FS_EmptySet
      <4>2. s[D] = 0 /\ m = 0
        BY <1>1, <2>2, <3>2, <4>1
      <4> HIDE DEF U
      <4> QED
        BY <2>2, <3>1, <4>2
    <3> QED
      BY <3>2
  <2>5. PICK c \in D : TRUE
    BY <2>4
  <2> DEFINE E == D \ {c}
  <2>6. /\ E \in SUBSET Conns /\ c \notin E /\ E \cup {c} = D /\ c \in Conns
        /\ Cardinality(E) = m - 1 /\ m - 1 \in Nat
    <3>1. Cardinality(E) = Cardinality(D) - 1 /\ IsFiniteSet(E)
      BY <1>2, <2>5, FS_RemoveElement
    <3>2. Cardinality(E) \in Nat
      BY <3>1, FS_CardinalityType
    <3> QED
      BY <2>2, <2>5, <3>1, <3>2
  <2> HIDE DEF E
  <2>7. m - 1 \notin U
    <3> HIDE DEF U
    <3> QED
      BY <2>1, <2>3
  <2>8. ~(s[E] > (m - 1) * B)
    BY <2>6, <2>7
  <2>9. s[D] = s[E] + w[c] /\ s[E] \in Int /\ w[c] \in Int /\ w[c] <= B /\ s[D] \in Int
    BY <1>1, <2>6
  <2>10. (m - 1) * B + B = m * B /\ (m - 1) * B \in Int
    BY <2>3
  <2> HIDE DEF U
  <2> QED
    BY <2>2, <2>8, <2>9, <2>10
<1>4. ~(s[Conns] > Cardinality(Conns) * B)
  BY <1>2, <1>3
<1>5. s[Conns] \in Int /\ Cardinality(Conns) * B \in Int
  BY <1>1, <1>2
<1> HIDE DEF U
<1> QED
  BY <1>4, <1>5

(* The frames of a tunnel that have been admitted and not written.         *)
Flying(c) == frame[c].up + frame[c].down

(* The links SpendBounded speaks of, and what has been charged to such a   *)
(* link in its period.                                                     *)
Limited(l) == link[l].limit > 0 \/ ~Allowed(l)

Charged(l) ==
  IF period[l].room > 0 THEN link[l].used - (link[l].limit - period[l].room) ELSE 0

(* The weight of a handler that does not serve the link: two frames, which *)
(* were in flight when the period began, and a batch only if it was dropped*)
(* at the cap or on a link that is not allowed; nothing follows that.      *)
Settled(l, x) ==
  \/ x <= 2 * MaxFrame
  \/ (CapReached \/ ~Allowed(l)) /\ x <= MaxBatch - 1 + 2 * MaxFrame

(* The weight of one that does, its frames in flight included.             *)
Owes(l, c, due) ==
  \/ due <= 2 * MaxFrame + (IF gate[c].ok THEN gate[c].pending ELSE 0)
  \/ /\ CapReached \/ (~Allowed(l) /\ ~gate[c].ok)
     /\ due <= MaxBatch - 1 + 2 * MaxFrame

Credit(l, c, x) ==
  IF owner[c] = l
  THEN /\ Owes(l, c, x + Flying(c))
       /\ phase[c] # "relaying" => Settled(l, x)
  ELSE Settled(l, x)

Covered(l) ==
  \E w \in Weights : \E s \in Sums(w) :
    /\ period[l].spent <= Charged(l) + s[Conns]
    /\ \A c \in Conns : Credit(l, c, w[c])

RoomInv(l) ==
  Limited(l) =>
    IF period[l].room > 0
    THEN /\ link[l].limit > 0 /\ period[l].ceiling = link[l].limit
         /\ period[l].room <= link[l].limit
    ELSE ~Allowed(l)

OwnerInv == \A c \in AllConns : IF phase[c] = "closed" THEN owner[c] = NoLink ELSE owner[c] \in Links

SpendInv ==
  /\ OwnerInv
  /\ \A l \in Links : RoomInv(l) /\ (Limited(l) => Covered(l))

(* The numbers of a state.                                                 *)
LEMMA GateNumbers ==
  ASSUME TypeOK, NEW c \in Conns
  PROVE  /\ gate[c].ok \in BOOLEAN /\ gate[c].pending \in Nat
         /\ frame[c].up \in 0..MaxFrame /\ frame[c].down \in 0..MaxFrame
         /\ Flying(c) \in 0..(2 * MaxFrame)
         /\ c \in AllConns
<1>1. gate[c] \in GateRecord /\ frame[c] \in [Pumps -> 0..MaxFrame]
  BY DEF TypeOK
<1>2. frame[c].up \in 0..MaxFrame /\ frame[c].down \in 0..MaxFrame
  BY <1>1 DEF Pumps
<1> QED
  BY <1>1, <1>2 DEF GateRecord, Flying, AllConns

LEMMA LinkNumbers ==
  ASSUME TypeOK, NEW l \in Links
  PROVE  /\ link \in [Links -> LinkRecord] /\ period \in [Links -> PeriodRecord]
         /\ link[l].limit \in Nat /\ link[l].used \in Nat
         /\ period[l].ceiling \in Nat /\ period[l].room \in Nat /\ period[l].spent \in Nat
         /\ Charged(l) \in Int /\ Allowed(l) \in BOOLEAN /\ CapReached \in BOOLEAN
<1>1. link[l] \in LinkRecord /\ period[l] \in PeriodRecord
  BY DEF TypeOK
<1>2. /\ link[l].limit \in Nat /\ link[l].used \in Nat
      /\ period[l].ceiling \in Nat /\ period[l].room \in Nat /\ period[l].spent \in Nat
  BY <1>1 DEF LinkRecord, PeriodRecord
<1> QED
  BY <1>1, <1>2 DEF Charged, Allowed, Passes, CapReached, TypeOK

(* Less weight is no worse, and neither is a cap reached or a link refused.*)
LEMMA SettledHolds ==
  ASSUME NEW l, NEW x \in Int, NEW y \in Int, y <= x, Settled(l, x),
         CapReached => CapReached', ~Allowed(l) => ~Allowed(l)'
  PROVE  Settled(l, y)'
BY DEF Settled

(* One handler moves by dx on a link, which pays for what it charges.      *)
LEMMA SpendCarries ==
  ASSUME TypeOK, TypeOK', NEW l \in Links, NEW c, NEW dx \in Int, Covered(l),
         c \notin Conns => dx = 0,
         \A d \in Conns \ {c} : /\ gate'[d] = gate[d] /\ frame'[d] = frame[d]
                                /\ phase'[d] = phase[d] /\ owner'[d] = owner[d],
         CapReached => CapReached', ~Allowed(l) => ~Allowed(l)',
         c \in Conns => \A x \in Int : Credit(l, c, x) => Credit(l, c, x + dx)',
         period'[l].spent <= period[l].spent + dx + (Charged(l)' - Charged(l))
  PROVE  Covered(l)'
<1>1. PICK w \in Weights : \E s \in Sums(w) :
        /\ period[l].spent <= Charged(l) + s[Conns]
        /\ \A d \in Conns : Credit(l, d, w[d])
  BY DEF Covered
<1>2. PICK s \in Sums(w) :
        /\ period[l].spent <= Charged(l) + s[Conns]
        /\ \A d \in Conns : Credit(l, d, w[d])
  BY <1>1
<1>3. s[Conns] \in Int /\ \A d \in Conns : w[d] \in Int
  BY DEF Sums, Weights
<1>4. /\ Charged(l) \in Int /\ Charged(l)' \in Int
      /\ period[l].spent \in Int /\ period'[l].spent \in Int
  <2>1. Charged(l) \in Int /\ period[l].spent \in Nat
    BY LinkNumbers
  <2>2. /\ link'[l].limit \in Nat /\ link'[l].used \in Nat
        /\ period'[l].room \in Nat /\ period'[l].spent \in Nat
    BY DEF TypeOK, LinkRecord, PeriodRecord
  <2> QED
    BY <2>1, <2>2 DEF Charged
<1>5. ASSUME NEW d \in Conns \ {c} PROVE Credit(l, d, w[d])'
  <2>1. Credit(l, d, w[d]) /\ w[d] \in Int
    BY <1>2, <1>3
  <2>2. Settled(l, w[d]) => Settled(l, w[d])'
    BY <1>3, SettledHolds
  <2>3. Owes(l, d, w[d] + Flying(d)) => Owes(l, d, w[d] + Flying(d))'
    BY DEF Owes, Flying
  <2> QED
    BY <2>1, <2>2, <2>3 DEF Credit
<1>6. CASE c \notin Conns
  <2>1. dx = 0
    BY <1>6
  <2>2. period'[l].spent <= Charged(l)' + s[Conns]
    BY <1>2, <1>3, <1>4, <2>1
  <2>3. \A d \in Conns : Credit(l, d, w[d])'
    BY <1>5, <1>6
  <2> QED
    BY <2>2, <2>3 DEF Covered
<1>7. CASE c \in Conns
  <2>1. PICK v \in Weights : \E r \in Sums(v) :
          /\ v = [w EXCEPT ![c] = w[c] + dx]
          /\ r[Conns] = s[Conns] + dx
    BY <1>7, SumMoves
  <2>2. PICK r \in Sums(v) : r[Conns] = s[Conns] + dx
    BY <2>1
  <2>3. v[c] = w[c] + dx /\ \A d \in Conns \ {c} : v[d] = w[d]
    BY <1>7, <2>1 DEF Weights
  <2>4. period'[l].spent <= Charged(l)' + r[Conns]
    BY <1>2, <1>3, <1>4, <2>2
  <2>5. Credit(l, c, w[c] + dx)'
    BY <1>2, <1>3, <1>7
  <2>6. ASSUME NEW d \in Conns PROVE Credit(l, d, v[d])'
    <3>1. CASE d = c
      BY <2>3, <2>5, <3>1
    <3>2. CASE d # c
      BY <1>5, <2>3, <3>2
    <3> QED
      BY <3>1, <3>2
  <2> QED
    BY <2>4, <2>6 DEF Covered
<1> QED
  BY <1>6, <1>7

(* A period begins with nothing relayed and no weight.                     *)
LEMMA SpendBegins ==
  ASSUME TypeOK, NEW l \in Links, period[l] = PeriodOf(link[l])
  PROVE  RoomInv(l) /\ Covered(l)
<1>1. link[l].limit \in Nat /\ link[l].used \in Nat /\ Allowed(l) \in BOOLEAN
  BY LinkNumbers
<1>2. /\ period[l].spent = 0
      /\ period[l].ceiling = IF link[l].limit >= link[l].used THEN link[l].limit ELSE link[l].used
      /\ period[l].room = IF Allowed(l) /\ link[l].limit > 0 THEN link[l].limit - link[l].used ELSE 0
  BY DEF PeriodOf, Max2, Allowed
<1>3. Allowed(l) /\ link[l].limit > 0 => link[l].used < link[l].limit
  BY DEF Allowed, Passes
<1>4. RoomInv(l)
  BY <1>1, <1>2, <1>3 DEF RoomInv, Limited
<1>5. Charged(l) = 0
  BY <1>1, <1>2, <1>3 DEF Charged
<1> DEFINE w == [d \in Conns |-> 0]
           s == [D \in SUBSET Conns |-> 0]
<1>6. w \in Weights /\ s \in Sums(w) /\ s[Conns] = 0 /\ \A d \in Conns : w[d] = 0
  BY DEF Weights, Sums
<1> HIDE DEF w, s
<1>7. ASSUME NEW d \in Conns PROVE Credit(l, d, w[d])
  <2>1. Flying(d) \in 0..(2 * MaxFrame) /\ gate[d].pending \in Nat
    BY GateNumbers
  <2>2. Settled(l, 0)
    BY DEF Settled
  <2>3. Owes(l, d, 0 + Flying(d))
    BY <2>1 DEF Owes
  <2> QED
    BY <1>6, <2>2, <2>3 DEF Credit
<1>8. period[l].spent <= Charged(l) + s[Conns]
  BY <1>2, <1>5, <1>6
<1> QED
  BY <1>4, <1>6, <1>7, <1>8 DEF Covered

LEMMA SpendBeginsAgain ==
  (\A l \in Links : TypeOK /\ period[l] = PeriodOf(link[l]) => RoomInv(l) /\ Covered(l))'
<1>1. \A l \in Links : TypeOK /\ period[l] = PeriodOf(link[l]) => RoomInv(l) /\ Covered(l)
  BY SpendBegins
<1> QED
  BY <1>1, PTL

(* A step of one tunnel that charges k bytes to its link and relays n.     *)
LEMMA SpendMoves ==
  ASSUME TypeOK, TypeOK', SpendInv, NEW c \in AllConns, NEW m \in Links, owner[c] = m,
         NEW k \in Nat, NEW n \in Nat,
         \/ k = 0 /\ link' = link
         \/ Allowed(m) /\ link' = [link EXCEPT ![m].used = @ + k],
         \/ n = 0 /\ period' = period
         \/ period' = [period EXCEPT ![m].spent = @ + n],
         IF phase'[c] = "closed" THEN owner'[c] = NoLink ELSE owner'[c] = m,
         \A d \in AllConns \ {c} : phase'[d] = phase[d] /\ owner'[d] = owner[d],
         \A d \in Conns \ {c} : gate'[d] = gate[d] /\ frame'[d] = frame[d],
         CapReached => CapReached',
         c \notin Conns => n = k,
         c \in Conns => \A x \in Int : Credit(m, c, x) => Credit(m, c, x + (n - k))'
  PROVE  SpendInv'
<1>1. OwnerInv'
  BY DEF SpendInv, OwnerInv
<1>2. ASSUME NEW l \in Links
      PROVE  /\ link'[l].limit = link[l].limit
             /\ period'[l].ceiling = period[l].ceiling /\ period'[l].room = period[l].room
             /\ period'[l].spent = period[l].spent + (IF l = m THEN n ELSE 0)
             /\ ~Allowed(l) => ~Allowed(l)'
             /\ link'[l].used = link[l].used + (IF l = m THEN k ELSE 0)
             /\ l = m => k = 0 \/ Allowed(m)
  <2>1. /\ link \in [Links -> LinkRecord] /\ period \in [Links -> PeriodRecord]
        /\ link[l] \in LinkRecord /\ period[l] \in PeriodRecord
    BY DEF TypeOK
  <2>2. /\ link[l].limit \in Nat /\ link[l].used \in Nat /\ period[l].spent \in Nat
    BY LinkNumbers
  <2>3. /\ period'[l].ceiling = period[l].ceiling /\ period'[l].room = period[l].room
        /\ period'[l].spent = period[l].spent + (IF l = m THEN n ELSE 0)
    <3>1. CASE n = 0 /\ period' = period
      BY <2>2, <3>1
    <3>2. CASE period' = [period EXCEPT ![m].spent = @ + n]
      <4>1. CASE l = m
        <5>1. period'[l] = [period[l] EXCEPT !.spent = @ + n]
          BY <2>1, <3>2, <4>1
        <5> QED
          BY <2>1, <4>1, <5>1 DEF PeriodRecord
      <4>2. CASE l # m
        <5>1. period'[l] = period[l]
          BY <2>1, <3>2, <4>2
        <5> QED
          BY <2>2, <4>2, <5>1
      <4> QED
        BY <4>1, <4>2
    <3> QED
      BY <3>1, <3>2
  <2>4. CASE l # m \/ link' = link
    <3>1. link'[l] = link[l]
      BY <2>1, <2>4
    <3>2. l = m => k = 0 \/ Allowed(m)
      OBVIOUS
    <3>3. CASE k = 0 \/ l # m
      BY <2>2, <2>3, <3>1, <3>2, <3>3 DEF Allowed
    <3>4. CASE l = m /\ k # 0
      <4>1. link'[l].used = link[l].used + k
        BY <2>1, <3>4 DEF LinkRecord
      <4> QED
        BY <2>3, <3>1, <3>2, <3>4, <4>1 DEF Allowed
    <3> QED
      BY <3>3, <3>4
  <2>5. CASE l = m /\ Allowed(m) /\ link' = [link EXCEPT ![m].used = @ + k]
    <3>1. link'[l] = [link[l] EXCEPT !.used = @ + k]
      BY <2>1, <2>5
    <3>2. /\ link'[l].used = link[l].used + k /\ link'[l].limit = link[l].limit
      BY <2>1, <3>1 DEF LinkRecord
    <3> QED
      BY <2>3, <2>5, <3>2
  <2> QED
    BY <2>4, <2>5
<1>3. ASSUME NEW l \in Links, Limited(l)' PROVE Limited(l)
  <2>1. link'[l].limit = link[l].limit
    BY <1>2
  <2>2. CASE l = m /\ link[l].limit = 0 /\ Allowed(l)
    <3>1. CASE link' = link
      BY <1>3, <3>1 DEF Limited, Allowed
    <3>2. CASE link' = [link EXCEPT ![m].used = @ + k]
      <4>1. link \in [Links -> LinkRecord] /\ link[l] \in LinkRecord
        BY DEF TypeOK
      <4>2. link'[l] = [link[l] EXCEPT !.used = @ + k]
        BY <2>2, <3>2, <4>1
      <4>3. /\ link'[l].stored = link[l].stored /\ link'[l].active = link[l].active
            /\ link'[l].expired = link[l].expired
        BY <4>1, <4>2 DEF LinkRecord
      <4>4. Allowed(l)'
        BY <2>1, <2>2, <4>3 DEF Allowed, Passes
      <4> QED
        BY <1>3, <2>1, <2>2, <4>4 DEF Limited
    <3> QED
      BY <3>1, <3>2
  <2>3. CASE l # m
    <3>1. link'[l] = link[l]
      BY <2>3 DEF TypeOK
    <3> QED
      BY <1>3, <3>1 DEF Limited, Allowed
  <2>4. link[l].limit \in Nat
    BY LinkNumbers
  <2> QED
    BY <2>2, <2>3, <2>4 DEF Limited
<1>4. ASSUME NEW l \in Links PROVE RoomInv(l)'
  <2>1. RoomInv(l) /\ (Limited(l)' => Limited(l))
    BY <1>3 DEF SpendInv
  <2> QED
    BY <1>2, <2>1 DEF RoomInv
<1>5. ASSUME NEW l \in Links, Limited(l)' PROVE Covered(l)'
  <2>1. Covered(l) /\ RoomInv(l) /\ Limited(l)
    BY <1>3, <1>5 DEF SpendInv
  <2>2. /\ link[l].limit \in Nat /\ link[l].used \in Nat
        /\ period[l].room \in Nat /\ period[l].spent \in Nat
    BY LinkNumbers
  <2>3. Charged(l)' = Charged(l) + (IF l = m THEN k ELSE 0)
    <3>1. CASE period[l].room > 0
      BY <1>2, <2>2, <3>1 DEF Charged
    <3>2. CASE ~(period[l].room > 0)
      <4>1. l = m => k = 0
        BY <1>2, <2>1, <3>2 DEF RoomInv
      <4> QED
        BY <1>2, <3>2, <4>1 DEF Charged
    <3> QED
      BY <3>1, <3>2
  <2> DEFINE dx == IF l = m THEN n - k ELSE 0
  <2>4. dx \in Int /\ (c \notin Conns => dx = 0)
    OBVIOUS
  <2>5. Charged(l) \in Int
    BY LinkNumbers
  <2>6. period'[l].spent <= period[l].spent + dx + (Charged(l)' - Charged(l))
    BY <1>2, <2>2, <2>3, <2>5
  <2>7. ASSUME c \in Conns, NEW x \in Int, Credit(l, c, x) PROVE Credit(l, c, x + dx)'
    <3>1. CASE l = m
      BY <2>7, <3>1
    <3>2. CASE l # m
      <4>1. owner[c] # l /\ owner'[c] # l
        BY <3>2, QuotaGateAssumption
      <4>2. Settled(l, x) /\ x + dx = x
        BY <2>7, <3>2, <4>1 DEF Credit
      <4>3. ~Allowed(l) => ~Allowed(l)'
        BY <1>2
      <4>4. Settled(l, x)'
        BY <4>2, <4>3, SettledHolds
      <4> QED
        BY <4>1, <4>2, <4>4 DEF Credit
    <3> QED
      BY <3>1, <3>2
  <2>8. \A d \in Conns \ {c} : /\ gate'[d] = gate[d] /\ frame'[d] = frame[d]
                               /\ phase'[d] = phase[d] /\ owner'[d] = owner[d]
    BY DEF AllConns
  <2>9. ~Allowed(l) => ~Allowed(l)'
    BY <1>2
  <2> HIDE DEF dx
  <2> QED
    BY <2>1, <2>4, <2>6, <2>7, <2>8, <2>9, SpendCarries
<1> QED
  BY <1>1, <1>4, <1>5 DEF SpendInv

(* What passing the gate does to the link and to the weight of its tunnel. *)
Charges(m, k) ==
  \/ k = 0 /\ link' = link
  \/ Allowed(m) /\ link' = [link EXCEPT ![m].used = @ + k]

LEMMA ChargedIsRefused ==
  ASSUME TypeOK, NEW m \in Links, NEW k \in Nat, Charges(m, k)
  PROVE  ~Allowed(m) => ~Allowed(m)'
BY DEF Charges, Allowed

LEMMA GateAddCredit ==
  ASSUME TypeOK, TypeOK', NEW c \in Conns, GateInv(c), NEW m \in Links, owner[c] = m,
         NEW n \in FrameSizes, NEW a \in BOOLEAN, GateAdd(c, n, a), cap' = cap
  PROVE  \E k \in Nat :
           /\ Charges(m, k)
           /\ CapReached => CapReached'
           /\ \A due \in Int :
                Owes(m, c, due) => Owes(m, c, due - k + (IF a THEN n ELSE 0))'
<1>1. /\ gate \in [Conns -> GateRecord] /\ gate[c] \in GateRecord
      /\ n \in 1..MaxFrame /\ total \in Nat /\ cap \in Nat
  BY DEF TypeOK
<1>2. gate[c].ok \in BOOLEAN /\ gate[c].pending \in Nat /\ gate[c].pending <= MaxBatch - 1
  BY GateNumbers DEF GateInv
<1>3. CASE ~gate[c].ok /\ ~a /\ UNCHANGED <<gate, total, link>>
  <2>1. CapReached' = CapReached /\ Allowed(m)' = Allowed(m) /\ Charges(m, 0)
    BY <1>3 DEF CapReached, Allowed, Charges
  <2>2. \A due \in Int : Owes(m, c, due) => Owes(m, c, due - 0 + 0)'
    BY <1>3, <2>1 DEF Owes
  <2> QED
    BY <1>3, <2>1, <2>2
<1>4. CASE /\ gate[c].ok /\ CapReached /\ ~a /\ gate' = [gate EXCEPT ![c].ok = FALSE]
           /\ UNCHANGED <<total, link>>
  <2>1. CapReached' /\ Charges(m, 0)
    BY <1>4 DEF CapReached, Charges
  <2>2. ASSUME NEW due \in Int, Owes(m, c, due) PROVE Owes(m, c, due - 0 + 0)'
    <3>1. due <= MaxBatch - 1 + 2 * MaxFrame
      BY <1>2, <2>2 DEF Owes
    <3> QED
      BY <2>1, <3>1 DEF Owes
  <2> QED
    BY <1>4, <2>1, <2>2
<1>5. CASE /\ gate[c].ok /\ ~CapReached /\ a
           /\ gate' = [gate EXCEPT ![c].pending = @ + n] /\ UNCHANGED <<total, link>>
  <2>1. CapReached' = CapReached /\ Charges(m, 0)
    BY <1>5 DEF CapReached, Charges
  <2>2. gate'[c].ok = TRUE /\ gate'[c].pending = gate[c].pending + n
    BY <1>1, <1>2, <1>5 DEF GateRecord
  <2>3. ASSUME NEW due \in Int, Owes(m, c, due) PROVE Owes(m, c, due - 0 + n)'
    <3>1. due <= 2 * MaxFrame + gate[c].pending
      BY <1>5, <2>3 DEF Owes
    <3>2. due - 0 + n <= 2 * MaxFrame + gate'[c].pending
      BY <1>1, <1>2, <2>2, <3>1
    <3> QED
      BY <2>2, <3>2 DEF Owes
  <2> QED
    BY <1>5, <2>1, <2>3
<1>6. CASE /\ gate[c].ok /\ ~CapReached /\ a = Allowed(m)
           /\ \E b \in MinBatch..MaxBatch :
                gate' = [gate EXCEPT ![c] = [ok |-> a, pending |-> 0, batch |-> b]]
           /\ Count(c, gate[c].pending + n)
  <2>1. gate'[c].ok = a /\ gate'[c].pending = 0
    BY <1>1, <1>6
  <2>2. CASE Allowed(m)
    <3>1. a = TRUE
      BY <1>6, <2>2
    <3>0. PICK k \in Nat : k = gate[c].pending + n
      BY <1>1, <1>2
    <3>2. Charges(m, k)
      BY <1>1, <1>2, <1>6, <2>2, <3>0 DEF Charges, Count
    <3>3. ASSUME NEW due \in Int, Owes(m, c, due)
          PROVE  Owes(m, c, due - k + n)'
      <4>1. due <= 2 * MaxFrame + gate[c].pending
        BY <1>6, <2>2, <3>3 DEF Owes
      <4>2. due - k + n <= 2 * MaxFrame + 0
        BY <1>1, <1>2, <3>0, <4>1
      <4> QED
        BY <2>1, <4>2 DEF Owes
    <3> QED
      BY <1>6, <3>1, <3>2, <3>3
  <2>3. CASE ~Allowed(m)
    <3>1. a = FALSE
      BY <1>6, <2>3
    <3>2. link' = link /\ Charges(m, 0) /\ ~Allowed(m)'
      BY <1>6, <2>3 DEF Charges, Count, Allowed
    <3>3. ASSUME NEW due \in Int, Owes(m, c, due) PROVE Owes(m, c, due - 0 + 0)'
      <4>1. due <= MaxBatch - 1 + 2 * MaxFrame
        BY <1>2, <3>3 DEF Owes
      <4> QED
        BY <2>1, <3>1, <3>2, <4>1 DEF Owes
    <3> QED
      BY <1>6, <3>1, <3>2, <3>3
  <2> QED
    BY <2>2, <2>3
<1> QED
  BY <1>3, <1>4, <1>5, <1>6 DEF GateAdd

(* What flushing the gate does, which leaves nothing pending.              *)
LEMMA GateFlushCredit ==
  ASSUME TypeOK, TypeOK', NEW c \in Conns, GateInv(c), NEW m \in Links, owner[c] = m,
         GateFlush(c), cap' = cap
  PROVE  \E k \in Nat :
           /\ Charges(m, k)
           /\ CapReached => CapReached'
           /\ gate'[c].pending = 0
           /\ \A due \in Int : Owes(m, c, due) => Owes(m, c, due - k)'
<1>1. gate \in [Conns -> GateRecord] /\ gate[c] \in GateRecord /\ total \in Nat /\ cap \in Nat
  BY DEF TypeOK
<1>2. gate[c].ok \in BOOLEAN /\ gate[c].pending \in Nat /\ gate[c].pending <= MaxBatch - 1
  BY GateNumbers DEF GateInv
<1>3. CASE gate[c].pending > 0 /\ gate[c].ok /\ ~CapReached
  <2>1. /\ Count(c, gate[c].pending)
        /\ gate' = [gate EXCEPT ![c].pending = 0, ![c].ok = Allowed(owner[c])]
    BY <1>3 DEF GateFlush
  <2>2. gate'[c].pending = 0 /\ gate'[c].ok = Allowed(m)
    BY <1>1, <2>1 DEF GateRecord
  <2>3. ASSUME NEW due \in Int, Owes(m, c, due) PROVE due <= 2 * MaxFrame + gate[c].pending
    BY <1>3, <2>3 DEF Owes
  <2>4. CASE Allowed(m)
    <3>0. PICK k \in Nat : k = gate[c].pending
      BY <1>2
    <3>1. Charges(m, k)
      BY <2>1, <2>4, <3>0 DEF Charges, Count
    <3>2. ASSUME NEW due \in Int, Owes(m, c, due) PROVE Owes(m, c, due - k)'
      <4>1. due - k <= 2 * MaxFrame + 0
        BY <1>2, <2>3, <3>0, <3>2
      <4> QED
        BY <2>2, <4>1 DEF Owes
    <3> QED
      BY <1>3, <2>2, <3>1, <3>2
  <2>5. CASE ~Allowed(m)
    <3>1. Charges(m, 0) /\ ~Allowed(m)'
      BY <2>1, <2>5 DEF Charges, Count, Allowed
    <3>2. ASSUME NEW due \in Int, Owes(m, c, due) PROVE Owes(m, c, due - 0)'
      <4>1. due - 0 <= MaxBatch - 1 + 2 * MaxFrame
        BY <1>2, <2>3, <3>2
      <4> QED
        BY <2>2, <2>5, <3>1, <4>1 DEF Owes
    <3> QED
      BY <1>3, <2>2, <3>1, <3>2
  <2> QED
    BY <2>4, <2>5
<1>4. CASE ~(gate[c].pending > 0 /\ gate[c].ok /\ ~CapReached)
  <2>1. /\ gate' = [gate EXCEPT ![c].pending = 0, ![c].ok = @ /\ (gate[c].pending = 0)]
        /\ UNCHANGED <<total, link>>
    BY <1>4 DEF GateFlush
  <2>2. /\ gate'[c].pending = 0
        /\ gate'[c].ok = (gate[c].ok /\ gate[c].pending = 0)
    BY <1>1, <2>1 DEF GateRecord
  <2>3. CapReached' = CapReached /\ Allowed(m)' = Allowed(m) /\ Charges(m, 0)
    BY <2>1 DEF CapReached, Allowed, Charges
  <2>4. ASSUME NEW due \in Int, Owes(m, c, due) PROVE Owes(m, c, due - 0)'
    <3>1. CASE due <= 2 * MaxFrame
      BY <2>2, <3>1 DEF Owes
    <3>2. CASE ~(due <= 2 * MaxFrame)
      <4>1. /\ CapReached \/ (~Allowed(m) /\ ~gate[c].ok)
            /\ due <= MaxBatch - 1 + 2 * MaxFrame
        <5>1. CASE gate[c].ok /\ gate[c].pending > 0
          BY <1>2, <1>4, <2>4, <5>1 DEF Owes
        <5>2. CASE ~(gate[c].ok /\ gate[c].pending > 0)
          BY <1>2, <2>4, <3>2, <5>2 DEF Owes
        <5> QED
          BY <5>1, <5>2
      <4>2. CapReached' \/ (~Allowed(m)' /\ ~gate'[c].ok)
        BY <2>2, <2>3, <4>1
      <4>3. due - 0 <= MaxBatch - 1 + 2 * MaxFrame
        BY <4>1
      <4> QED
        BY <4>2, <4>3 DEF Owes
    <3> QED
      BY <3>1, <3>2
  <2> QED
    BY <2>2, <2>3, <2>4
<1> QED
  BY <1>3, <1>4

(* Owing less is no worse.                                                 *)
LEMMA OwesLess ==
  ASSUME TypeOK, NEW c \in Conns, NEW l, NEW x \in Int, NEW y \in Int, y <= x
  PROVE  Owes(l, c, x) => Owes(l, c, y)
BY GateNumbers DEF Owes

LEMMA OwesLessNext ==
  ASSUME TypeOK', NEW c \in Conns, NEW l, NEW x \in Int, NEW y \in Int, y <= x
  PROVE  Owes(l, c, x)' => Owes(l, c, y)'
<1>1. gate'[c].pending \in Nat
  BY DEF TypeOK, GateRecord
<1> QED
  BY <1>1 DEF Owes

LEMMA CreditFollows ==
  ASSUME NEW c \in Conns, NEW l, NEW x \in Int, NEW f \in Int, f = Flying(c)',
         owner'[c] = l, Owes(l, c, x + f)', phase'[c] # "relaying" => Settled(l, x)'
  PROVE  Credit(l, c, x)'
BY DEF Credit, Owes

(* The frames of a tunnel and what it relays at a step.                    *)
LEMMA FlyingMoves ==
  ASSUME TypeOK, TypeOK', NEW c \in Conns
  PROVE  /\ Flying(c)' \in 0..(2 * MaxFrame) /\ Flying(c) \in 0..(2 * MaxFrame)
         /\ \A p \in Pumps, z \in 0..MaxFrame :
              frame' = [frame EXCEPT ![c][p] = z] =>
                /\ Flying(c)' = Flying(c) - frame[c][p] + z
                /\ frame[c][p] \in 0..MaxFrame
                /\ \A d \in Conns \ {c} : frame'[d] = frame[d]
<1>1. /\ frame \in [Conns -> [Pumps -> 0..MaxFrame]]
      /\ frame' \in [Conns -> [Pumps -> 0..MaxFrame]]
  BY DEF TypeOK
<1>2. /\ frame[c] \in [Pumps -> 0..MaxFrame] /\ frame'[c] \in [Pumps -> 0..MaxFrame]
      /\ frame[c].up \in 0..MaxFrame /\ frame[c].down \in 0..MaxFrame
      /\ frame'[c].up \in 0..MaxFrame /\ frame'[c].down \in 0..MaxFrame
  BY <1>1 DEF Pumps
<1>3. /\ Flying(c)' = frame'[c].up + frame'[c].down
      /\ Flying(c) = frame[c].up + frame[c].down
  BY DEF Flying
<1>4. ASSUME NEW p \in Pumps, NEW z \in 0..MaxFrame, frame' = [frame EXCEPT ![c][p] = z]
      PROVE  /\ Flying(c)' = Flying(c) - frame[c][p] + z
             /\ frame[c][p] \in 0..MaxFrame
             /\ \A d \in Conns \ {c} : frame'[d] = frame[d]
  <2>1. frame'[c] = [frame[c] EXCEPT ![p] = z] /\ \A d \in Conns \ {c} : frame'[d] = frame[d]
    BY <1>1, <1>4
  <2>2. CASE p = "up"
    <3>1. frame'[c].up = z /\ frame'[c].down = frame[c].down
      BY <1>2, <2>1, <2>2 DEF Pumps
    <3> QED
      BY <1>2, <1>3, <2>1, <2>2, <3>1
  <2>3. CASE p = "down"
    <3>1. frame'[c].down = z /\ frame'[c].up = frame[c].up
      BY <1>2, <2>1, <2>3 DEF Pumps
    <3> QED
      BY <1>2, <1>3, <2>1, <2>3, <3>1
  <2> QED
    BY <2>2, <2>3 DEF Pumps
<1> QED
  BY <1>2, <1>3, <1>4

(* A frame that reaches the gate.                                          *)
LEMMA SpendAsks ==
  ASSUME TypeOK, TypeOK', TunnelInv, SpendInv, NEW c \in Conns, NEW n \in FrameSizes,
         FirstFrame(c, n) \/ \E p \in Pumps : Frame(c, p, n)
  PROVE  SpendInv'
<1>1. PICK a \in BOOLEAN :
        /\ GateAdd(c, n, a)
        /\ \/ \E p \in Pumps :
                /\ phase[c] = "relaying"
                /\ IF a THEN frame' = [frame EXCEPT ![c][p] = n] ELSE frame' = frame
                /\ UNCHANGED <<phase, owner>>
           \/ /\ phase[c] = "accepted" /\ a /\ owner' = owner
              /\ frame' = [frame EXCEPT ![c].up = n]
              /\ phase' = [phase EXCEPT ![c] = "connecting"]
           \/ phase[c] = "accepted" /\ ~a /\ Close(c) /\ frame' = frame
  BY DEF FirstFrame, Frame
<1>2. cap' = cap /\ period' = period
  BY DEF FirstFrame, Frame
<1>3. c \in AllConns /\ GateInv(c) /\ n \in 1..MaxFrame /\ n \in 0..MaxFrame
  BY DEF AllConns, TunnelInv
<1>4. PICK m \in Links : owner[c] = m
  BY <1>1, <1>3 DEF SpendInv, OwnerInv
<1>5. PICK k \in Nat :
        /\ Charges(m, k)
        /\ CapReached => CapReached'
        /\ \A due \in Int : Owes(m, c, due) => Owes(m, c, due - k + (IF a THEN n ELSE 0))'
  BY <1>1, <1>2, <1>3, <1>4, GateAddCredit
<1>6. ~Allowed(m) => ~Allowed(m)'
  BY <1>4, <1>5, ChargedIsRefused
<1>7. \A d \in Conns \ {c} : gate'[d] = gate[d]
  BY <1>1, <1>3, GateAddSlack
<1>8. PICK f \in Int, g \in Int : f = Flying(c) /\ g = Flying(c)' /\ g <= f + (IF a THEN n ELSE 0)
  <2>1. Flying(c)' \in Int /\ Flying(c) \in Int
    BY FlyingMoves
  <2>2. CASE frame' = frame
    <3>1. Flying(c)' = Flying(c)
      BY <2>2 DEF Flying
    <3> QED
      BY <1>3, <2>1, <3>1
  <2>3. CASE a /\ \E p \in Pumps : frame' = [frame EXCEPT ![c][p] = n]
    <3>1. PICK p \in Pumps : frame' = [frame EXCEPT ![c][p] = n]
      BY <2>3
    <3>2. Flying(c)' = Flying(c) - frame[c][p] + n /\ frame[c][p] \in 0..MaxFrame
      BY <1>3, <3>1, FlyingMoves
    <3> QED
      BY <1>3, <2>1, <2>3, <3>2
  <2>4. "up" \in Pumps
    BY DEF Pumps
  <2> QED
    BY <1>1, <2>2, <2>3, <2>4
<1>9. \A d \in Conns \ {c} : frame'[d] = frame[d]
  <2>1. "up" \in Pumps
    BY DEF Pumps
  <2>2. \A p \in Pumps : frame' = [frame EXCEPT ![c][p] = n] => \A d \in Conns \ {c} : frame'[d] = frame[d]
    BY <1>3, FlyingMoves
  <2> QED
    BY <1>1, <2>1, <2>2
<1>10. /\ phase \in [AllConns -> {"closed", "accepted", "connecting", "relaying"}]
       /\ owner \in [AllConns -> Links \cup {NoLink}]
  BY DEF TypeOK
<1>11. /\ IF phase'[c] = "closed" THEN owner'[c] = NoLink ELSE owner'[c] = m
       /\ \A d \in AllConns \ {c} : phase'[d] = phase[d] /\ owner'[d] = owner[d]
       /\ phase[c] # "relaying" \/ phase'[c] = "relaying"
       /\ phase'[c] = "closed" => phase[c] # "relaying"
  BY <1>1, <1>3, <1>4, <1>10 DEF Close
<1>12. ASSUME NEW x \in Int, Credit(m, c, x) PROVE Credit(m, c, x + (0 - k))'
  <2>1. Owes(m, c, x + f)
    BY <1>4, <1>8, <1>12 DEF Credit
  <2>2. Owes(m, c, x + f - k + (IF a THEN n ELSE 0))'
    BY <1>5, <2>1
  <2>3. Owes(m, c, x + (0 - k) + g)'
    <3>1. /\ x + f - k + (IF a THEN n ELSE 0) \in Int /\ x + (0 - k) + g \in Int
          /\ x + (0 - k) + g <= x + f - k + (IF a THEN n ELSE 0)
      BY <1>3, <1>8
    <3> QED
      BY <2>2, <3>1, OwesLessNext
  <2>4. phase'[c] # "relaying" => Settled(m, x + (0 - k))'
    <3>1. phase[c] # "relaying" => Settled(m, x)
      BY <1>4, <1>12 DEF Credit
    <3>2. x + (0 - k) \in Int /\ x + (0 - k) <= x
      OBVIOUS
    <3>3. Settled(m, x) => Settled(m, x + (0 - k))'
      BY <1>5, <1>6, <3>2, SettledHolds
    <3> QED
      BY <1>11, <3>1, <3>3
  <2>5. x + (0 - k) \in Int
    OBVIOUS
  <2>6. CASE phase'[c] # "closed"
    BY <1>8, <1>11, <2>3, <2>4, <2>5, <2>6, CreditFollows
  <2>7. CASE phase'[c] = "closed"
    <3>1. owner'[c] # m
      BY <1>4, <1>11, <2>7
    <3>2. Settled(m, x + (0 - k))'
      BY <2>4, <2>7
    <3> QED
      BY <3>1, <3>2 DEF Credit
  <2> QED
    BY <2>6, <2>7
<1>13. \/ k = 0 /\ link' = link
       \/ Allowed(m) /\ link' = [link EXCEPT ![m].used = @ + k]
  BY <1>5 DEF Charges
<1> QED
  BY <1>2, <1>3, <1>4, <1>5, <1>7, <1>9, <1>11, <1>12, <1>13, SpendMoves

(* A frame that is written: it was in flight, and is relayed.              *)
LEMMA SpendWrites ==
  ASSUME TypeOK, TypeOK', SpendInv, NEW c \in Conns,
         Connected(c) \/ \E p \in Pumps : Write(c, p)
  PROVE  SpendInv'
<1>1. PICK p \in Pumps :
        /\ phase[c] # "closed" /\ phase'[c] = "relaying"
        /\ \A d \in AllConns \ {c} : phase'[d] = phase[d]
        /\ frame' = [frame EXCEPT ![c][p] = 0]
        /\ Relay(c, frame[c][p])
        /\ UNCHANGED <<link, total, cap, owner, gate>>
  <2>1. c \in AllConns /\ phase \in [AllConns -> {"closed", "accepted", "connecting", "relaying"}]
    BY DEF TypeOK, AllConns
  <2>2. CASE Connected(c)
    <3>1. "up" \in Pumps
      BY DEF Pumps
    <3>2. /\ phase[c] # "closed" /\ phase'[c] = "relaying"
          /\ \A d \in AllConns \ {c} : phase'[d] = phase[d]
          /\ frame' = [frame EXCEPT ![c]["up"] = 0]
          /\ Relay(c, frame[c]["up"])
          /\ UNCHANGED <<link, total, cap, owner, gate>>
      BY <2>1, <2>2 DEF Connected
    <3> QED
      BY <3>1, <3>2
  <2>3. CASE \E p \in Pumps : Write(c, p)
    BY <2>1, <2>3 DEF Write
  <2> QED
    BY <2>2, <2>3
<1>2. c \in AllConns
  BY DEF AllConns
<1>3. PICK m \in Links : owner[c] = m
  BY <1>1, <1>2 DEF SpendInv, OwnerInv
<1>4. PICK f \in Int, g \in Int, n \in Nat :
        f = Flying(c) /\ g = Flying(c)' /\ n = frame[c][p] /\ g = f - n
  <2>1. 0 \in 0..MaxFrame
    OBVIOUS
  <2>2. /\ Flying(c)' = Flying(c) - frame[c][p] + 0 /\ frame[c][p] \in 0..MaxFrame
        /\ Flying(c) \in 0..(2 * MaxFrame) /\ Flying(c)' \in 0..(2 * MaxFrame)
    BY <1>1, <2>1, FlyingMoves
  <2> QED
    BY <2>2
<1>5. \A d \in Conns \ {c} : gate'[d] = gate[d] /\ frame'[d] = frame[d]
  <2>1. 0 \in 0..MaxFrame
    OBVIOUS
  <2> QED
    BY <1>1, <2>1, FlyingMoves
<1>6. period' = [period EXCEPT ![m].spent = @ + n]
  BY <1>1, <1>3, <1>4 DEF Relay
<1>7. CapReached' = CapReached /\ owner'[c] = m
  BY <1>1, <1>3 DEF CapReached
<1>8. ASSUME NEW x \in Int, Credit(m, c, x) PROVE Credit(m, c, x + (n - 0))'
  <2>1. Owes(m, c, x + f)
    BY <1>3, <1>4, <1>8 DEF Credit
  <2>2. x + (n - 0) + g = x + f /\ x + (n - 0) \in Int
    BY <1>4
  <2>3. Owes(m, c, x + f)'
    BY <1>1, <1>7, <2>1 DEF Owes, Allowed
  <2>4. Owes(m, c, x + (n - 0) + g)'
    BY <2>2, <2>3 DEF Owes
  <2> QED
    BY <1>1, <1>4, <1>7, <2>2, <2>4, CreditFollows
<1>9. 0 \in Nat /\ link' = link
  BY <1>1
<1>10. /\ IF phase'[c] = "closed" THEN owner'[c] = NoLink ELSE owner'[c] = m
       /\ \A d \in AllConns \ {c} : phase'[d] = phase[d] /\ owner'[d] = owner[d]
  BY <1>1, <1>7
<1> QED
  BY <1>2, <1>3, <1>5, <1>6, <1>7, <1>8, <1>9, <1>10, SpendMoves

(* A frame that is dropped, or a tunnel that never reached its upstream.   *)
LEMMA SpendDrops ==
  ASSUME TypeOK, TypeOK', SpendInv, NEW c \in Conns,
         HandshakeFails(c) \/ ConnectFails(c) \/ \E p \in Pumps : DeniedAfterThrottle(c, p)
  PROVE  SpendInv'
<1>1. /\ phase[c] # "closed"
      /\ \/ phase[c] # "relaying" /\ Close(c)
         \/ phase[c] = "relaying" /\ UNCHANGED <<phase, owner>>
      /\ frame' = frame \/ \E p \in Pumps : frame' = [frame EXCEPT ![c][p] = 0]
      /\ UNCHANGED <<link, total, cap, gate, period>>
  <2>1. "up" \in Pumps
    BY DEF Pumps
  <2> QED
    BY <2>1 DEF HandshakeFails, ConnectFails, DeniedAfterThrottle, histVars
<1>2. c \in AllConns /\ 0 \in 0..MaxFrame
  BY DEF AllConns
<1>3. PICK m \in Links : owner[c] = m
  BY <1>1, <1>2 DEF SpendInv, OwnerInv
<1>4. PICK f \in Int, g \in Int : f = Flying(c) /\ g = Flying(c)' /\ g <= f
  <2>1. Flying(c) \in Int /\ Flying(c)' \in Int
    BY FlyingMoves
  <2>2. CASE frame' = frame
    BY <2>1, <2>2 DEF Flying
  <2>3. ASSUME NEW p \in Pumps, frame' = [frame EXCEPT ![c][p] = 0] PROVE Flying(c)' <= Flying(c)
    <3>1. Flying(c)' = Flying(c) - frame[c][p] + 0 /\ frame[c][p] \in 0..MaxFrame
      BY <1>2, <2>3, FlyingMoves
    <3> QED
      BY <2>1, <3>1
  <2> QED
    BY <1>1, <2>1, <2>2, <2>3
<1>5. \A d \in Conns \ {c} : gate'[d] = gate[d] /\ frame'[d] = frame[d]
  BY <1>1, <1>2, FlyingMoves
<1>6. CapReached' = CapReached /\ Allowed(m)' = Allowed(m)
  BY <1>1 DEF CapReached, Allowed
<1>7. /\ phase \in [AllConns -> {"closed", "accepted", "connecting", "relaying"}]
      /\ owner \in [AllConns -> Links \cup {NoLink}]
  BY DEF TypeOK
<1>8. /\ IF phase'[c] = "closed" THEN owner'[c] = NoLink ELSE owner'[c] = m
      /\ \A d \in AllConns \ {c} : phase'[d] = phase[d] /\ owner'[d] = owner[d]
      /\ phase'[c] # "relaying" => phase'[c] = "closed" /\ phase[c] # "relaying"
  BY <1>1, <1>2, <1>3, <1>7 DEF Close
<1>9. ASSUME NEW x \in Int, Credit(m, c, x) PROVE Credit(m, c, x + (0 - 0))'
  <2>1. Owes(m, c, x + f) /\ (phase[c] # "relaying" => Settled(m, x))
    BY <1>3, <1>4, <1>9 DEF Credit
  <2>2. x + (0 - 0) = x
    OBVIOUS
  <2>3. CASE phase'[c] = "relaying"
    <3>1. Owes(m, c, x + f)'
      BY <1>1, <1>6, <2>1 DEF Owes
    <3>2. x + f \in Int /\ x + g \in Int /\ x + g <= x + f
      BY <1>4
    <3>3. Owes(m, c, x + g)'
      BY <3>1, <3>2, OwesLessNext
    <3>4. Credit(m, c, x)'
      BY <1>4, <1>8, <2>3, <3>3, CreditFollows
    <3> QED
      BY <2>2, <3>4
  <2>4. CASE phase'[c] # "relaying"
    <3>1. Settled(m, x)'
      BY <1>6, <1>8, <2>1, <2>4 DEF Settled
    <3>2. owner'[c] # m
      BY <1>3, <1>8, <2>4
    <3> QED
      BY <2>2, <3>1, <3>2 DEF Credit
  <2> QED
    BY <2>3, <2>4
<1>10. 0 \in Nat /\ link' = link /\ period' = period
  BY <1>1
<1> QED
  BY <1>2, <1>3, <1>5, <1>6, <1>8, <1>9, <1>10, SpendMoves

(* A pump that ends, and the end of the tunnel, flush the gate.            *)
LEMMA SpendFlushes ==
  ASSUME TypeOK, TypeOK', TunnelInv, SpendInv, NEW c \in Conns,
         Finish(c) \/ \E p \in Pumps : PumpEnds(c, p)
  PROVE  SpendInv'
<1>1. /\ phase[c] = "relaying" /\ GateFlush(c) /\ cap' = cap /\ period' = period
      /\ \/ /\ frame' = [frame EXCEPT ![c] = [p \in Pumps |-> 0]]
            /\ Close(c)
         \/ /\ \E p \in Pumps : frame' = [frame EXCEPT ![c][p] = 0]
            /\ UNCHANGED <<phase, owner>>
  BY DEF Finish, PumpEnds
<1>2. c \in AllConns /\ GateInv(c) /\ 0 \in 0..MaxFrame
  BY DEF AllConns, TunnelInv
<1>3. PICK m \in Links : owner[c] = m
  BY <1>1, <1>2 DEF SpendInv, OwnerInv
<1>4. PICK k \in Nat :
        /\ Charges(m, k)
        /\ CapReached => CapReached'
        /\ gate'[c].pending = 0
        /\ \A due \in Int : Owes(m, c, due) => Owes(m, c, due - k)'
  BY <1>1, <1>2, <1>3, GateFlushCredit
<1>5. ~Allowed(m) => ~Allowed(m)'
  BY <1>3, <1>4, ChargedIsRefused
<1>6. frame \in [Conns -> [Pumps -> 0..MaxFrame]]
  BY DEF TypeOK
<1>7. PICK f \in Nat, g \in Nat : f = Flying(c) /\ g = Flying(c)' /\ g <= f
  <2>1. Flying(c) \in Nat /\ Flying(c)' \in Nat
    BY FlyingMoves
  <2>2. CASE frame' = [frame EXCEPT ![c] = [p \in Pumps |-> 0]]
    <3>1. frame'[c].up = 0 /\ frame'[c].down = 0
      BY <1>6, <2>2 DEF Pumps
    <3>2. Flying(c)' = 0
      BY <3>1 DEF Flying
    <3> QED
      BY <2>1, <3>2
  <2>3. ASSUME NEW p \in Pumps, frame' = [frame EXCEPT ![c][p] = 0] PROVE Flying(c)' <= Flying(c)
    <3>1. Flying(c)' = Flying(c) - frame[c][p] + 0 /\ frame[c][p] \in 0..MaxFrame
      BY <1>2, <2>3, FlyingMoves
    <3> QED
      BY <2>1, <3>1
  <2> QED
    BY <1>1, <2>1, <2>2, <2>3
<1>8. \A d \in Conns \ {c} : gate'[d] = gate[d] /\ frame'[d] = frame[d]
  <2>1. \A d \in Conns \ {c} : gate'[d] = gate[d]
    BY <1>1, <1>2, GateFlushSlack
  <2>2. CASE frame' = [frame EXCEPT ![c] = [p \in Pumps |-> 0]]
    BY <1>6, <2>1, <2>2
  <2>3. CASE \E p \in Pumps : frame' = [frame EXCEPT ![c][p] = 0]
    BY <1>2, <2>1, <2>3, FlyingMoves
  <2> QED
    BY <1>1, <2>2, <2>3
<1>9. /\ phase \in [AllConns -> {"closed", "accepted", "connecting", "relaying"}]
      /\ owner \in [AllConns -> Links \cup {NoLink}]
  BY DEF TypeOK
<1>10. /\ IF phase'[c] = "closed" THEN owner'[c] = NoLink ELSE owner'[c] = m
       /\ \A d \in AllConns \ {c} : phase'[d] = phase[d] /\ owner'[d] = owner[d]
       /\ phase'[c] = "closed" \/ phase'[c] = "relaying"
  BY <1>1, <1>2, <1>3, <1>9 DEF Close
<1>11. ASSUME NEW x \in Int, Credit(m, c, x) PROVE Credit(m, c, x + (0 - k))'
  <2>1. Owes(m, c, x + f)
    BY <1>3, <1>7, <1>11 DEF Credit
  <2>2. Owes(m, c, x + f - k)'
    BY <1>4, <2>1
  <2>3. /\ x + f - k \in Int /\ x + (0 - k) + g \in Int /\ x + (0 - k) \in Int
        /\ x + (0 - k) + g <= x + f - k /\ x + (0 - k) <= x + f - k
    BY <1>7
  <2>4. CASE phase'[c] = "relaying"
    <3>1. Owes(m, c, x + (0 - k) + g)'
      BY <2>2, <2>3, OwesLessNext
    <3>2. owner'[c] = m /\ ~(phase'[c] # "relaying")
      BY <1>10, <2>4
    <3> QED
      BY <1>7, <2>3, <3>1, <3>2, CreditFollows
  <2>5. CASE phase'[c] # "relaying"
    <3>1. Owes(m, c, x + (0 - k))'
      BY <2>2, <2>3, OwesLessNext
    <3>2. Settled(m, x + (0 - k))'
      BY <1>4, <3>1 DEF Owes, Settled
    <3>3. owner'[c] # m
      BY <1>3, <1>10, <2>5
    <3> QED
      BY <3>2, <3>3 DEF Credit
  <2> QED
    BY <2>4, <2>5
<1>12. \/ k = 0 /\ link' = link
       \/ Allowed(m) /\ link' = [link EXCEPT ![m].used = @ + k]
  BY <1>4 DEF Charges
<1> QED
  BY <1>1, <1>2, <1>3, <1>4, <1>8, <1>10, <1>11, <1>12, SpendMoves

(* A tunnel that opens takes over what its handler is left with: its link  *)
(* is allowed, so that a dropped batch was dropped at the cap.             *)
LEMMA SpendOpens ==
  ASSUME TypeOK, TypeOK', TunnelInv, SpendInv, NEW c \in AllConns, NEW m \in Links, Open(c, m)
  PROVE  SpendInv'
<1>1. /\ phase[c] = "closed" /\ Allowed(m)
      /\ owner' = [owner EXCEPT ![c] = m]
      /\ phase' = [phase EXCEPT ![c] = IF c \in Conns THEN "accepted" ELSE "connecting"]
      /\ gate' = [d \in Conns |-> IF d = c THEN NewGate ELSE gate[d]]
      /\ UNCHANGED <<link, total, cap, frame, period>>
  BY DEF Open
<1>2. /\ phase \in [AllConns -> {"closed", "accepted", "connecting", "relaying"}]
      /\ owner \in [AllConns -> Links \cup {NoLink}]
  BY DEF TypeOK
<1>3. /\ owner'[c] = m /\ phase'[c] # "closed" /\ (c \in Conns => phase'[c] = "accepted")
      /\ \A d \in AllConns \ {c} : phase'[d] = phase[d] /\ owner'[d] = owner[d]
      /\ \A d \in Conns \ {c} : /\ gate'[d] = gate[d] /\ frame'[d] = frame[d]
                                /\ phase'[d] = phase[d] /\ owner'[d] = owner[d]
  BY <1>1, <1>2 DEF AllConns
<1>4. OwnerInv'
  BY <1>3 DEF SpendInv, OwnerInv
<1>5. owner[c] = NoLink
  BY <1>1 DEF SpendInv, OwnerInv
<1>6. ASSUME NEW l \in Links
      PROVE  /\ Allowed(l)' = Allowed(l) /\ CapReached' = CapReached
             /\ Charged(l)' = Charged(l) /\ period' = period
             /\ RoomInv(l)' = RoomInv(l) /\ Limited(l)' = Limited(l)
  BY <1>1 DEF Allowed, CapReached, Charged, RoomInv, Limited
<1>7. ASSUME NEW l \in Links, c \in Conns, NEW x \in Int, Credit(l, c, x)
      PROVE  Credit(l, c, x + 0)'
  <2>1. Settled(l, x)
    BY <1>5, <1>7, QuotaGateAssumption DEF Credit
  <2>2. Settled(l, x)'
    BY <1>6, <2>1 DEF Settled
  <2>3. x + 0 = x
    OBVIOUS
  <2>4. CASE l # m
    BY <1>3, <2>2, <2>3, <2>4 DEF Credit
  <2>5. CASE l = m
    <3>1. Flying(c)' = 0
      <4>1. frame[c].up = 0 /\ frame[c].down = 0
        BY <1>1, <1>7 DEF TunnelInv, GateInv
      <4> QED
        BY <1>1, <4>1 DEF Flying
    <3>2. Owes(l, c, x + 0)'
      <4>1. gate'[c] = NewGate
        BY <1>1, <1>7
      <4>2. gate'[c].pending = 0
        BY <4>1 DEF NewGate
      <4> QED
        BY <1>1, <1>6, <2>1, <2>3, <2>5, <4>2 DEF Owes, Settled
    <3>3. Credit(l, c, x)'
      BY <1>3, <1>7, <2>2, <2>5, <3>1, <3>2, CreditFollows
    <3> QED
      BY <2>3, <3>3
  <2> QED
    BY <2>4, <2>5
<1>8. ASSUME NEW l \in Links, Limited(l)' PROVE Covered(l)'
  <2>1. Covered(l)
    BY <1>6, <1>8 DEF SpendInv
  <2>2. period'[l].spent <= period[l].spent + 0 + (Charged(l)' - Charged(l))
    <3>1. period[l].spent \in Nat /\ Charged(l) \in Int
      BY LinkNumbers
    <3> QED
      BY <1>6, <3>1
  <2>3. /\ CapReached => CapReached'
        /\ ~Allowed(l) => ~Allowed(l)'
        /\ c \in Conns => \A x \in Int : Credit(l, c, x) => Credit(l, c, x + 0)'
    BY <1>6, <1>7
  <2>4. 0 \in Int
    OBVIOUS
  <2> QED
    BY <1>3, <2>1, <2>2, <2>3, <2>4, SpendCarries
<1> QED
  BY <1>4, <1>6, <1>8 DEF SpendInv

(* A step that begins new periods, and leaves the other links as they are. *)
LEMMA SpendEdits ==
  ASSUME TypeOK, TypeOK', SpendInv, UNCHANGED <<gateVars, total>>,
         \/ \A l \in Links : period'[l] = PeriodOf(link'[l])
         \/ /\ cap' = cap
            /\ \A l \in Links : \/ period'[l] = PeriodOf(link'[l])
                                \/ link'[l] = link[l] /\ period'[l] = period[l]
  PROVE  SpendInv'
<1>1. UNCHANGED <<phase, owner, gate, stage, frame>>
  BY DEF gateVars
<1>2. OwnerInv'
  BY <1>1 DEF SpendInv, OwnerInv
<1>3. ASSUME NEW l \in Links, period'[l] = PeriodOf(link'[l])
      PROVE  RoomInv(l)' /\ Covered(l)'
  BY <1>3, SpendBeginsAgain
<1>4. ASSUME NEW l \in Links, cap' = cap, link'[l] = link[l], period'[l] = period[l]
      PROVE  RoomInv(l)' /\ (Limited(l)' => Covered(l)')
  <2>1. /\ Allowed(l)' = Allowed(l) /\ CapReached' = CapReached
        /\ Charged(l)' = Charged(l)
        /\ RoomInv(l)' = RoomInv(l) /\ Limited(l)' = Limited(l)
    BY <1>4 DEF Allowed, CapReached, Charged, RoomInv, Limited
  <2>2. ASSUME Limited(l)' PROVE Covered(l)'
    <3>1. Covered(l)
      BY <2>1, <2>2 DEF SpendInv
    <3>2. PICK w \in Weights : \E s \in Sums(w) :
            /\ period[l].spent <= Charged(l) + s[Conns]
            /\ \A d \in Conns : Credit(l, d, w[d])
      BY <3>1 DEF Covered
    <3>3. PICK s \in Sums(w) :
            /\ period[l].spent <= Charged(l) + s[Conns]
            /\ \A d \in Conns : Credit(l, d, w[d])
      BY <3>2
    <3>4. ASSUME NEW d \in Conns PROVE Credit(l, d, w[d])'
      <4>1. Credit(l, d, w[d])
        BY <3>3
      <4> QED
        BY <1>1, <2>1, <4>1 DEF Credit, Owes, Settled, Flying
    <3> QED
      BY <1>4, <2>1, <3>3, <3>4 DEF Covered
  <2> QED
    BY <2>1, <2>2 DEF SpendInv
<1> QED
  BY <1>2, <1>3, <1>4 DEF SpendInv

(* A VMess tunnel relays what it charges.                                  *)
LEMMA SpendVMess ==
  ASSUME TypeOK, TypeOK', SpendInv, NEW c \in VMessConns, VMessTunnel(c)
  PROVE  SpendInv'
<1>1. c \in AllConns /\ c \notin Conns
  BY QuotaGateAssumption DEF AllConns
<1>2. /\ phase \in [AllConns -> {"closed", "accepted", "connecting", "relaying"}]
      /\ owner \in [AllConns -> Links \cup {NoLink}] /\ total \in Nat /\ cap \in Nat
  BY DEF TypeOK
<1>3. /\ phase[c] # "closed" /\ UNCHANGED <<gate, frame, cap>>
      /\ \/ Close(c) /\ UNCHANGED <<link, period, total>>
         \/ /\ phase' = [phase EXCEPT ![c] = "relaying"] /\ owner' = owner
            /\ UNCHANGED <<link, period, total>>
         \/ \E n \in FrameSizes :
              /\ Allowed(owner[c]) /\ UNCHANGED <<phase, owner>>
              /\ total' = total + n
              /\ link' = [link EXCEPT ![owner[c]].used = @ + n]
              /\ period' = [period EXCEPT ![owner[c]].spent = @ + n]
  BY DEF VMessTunnel, VMessConnected, VMessFrame, VMessEnds, PolicyCut, histVars, gateVars
<1>4. PICK m \in Links : owner[c] = m
  BY <1>1, <1>3 DEF SpendInv, OwnerInv
<1>5. /\ IF phase'[c] = "closed" THEN owner'[c] = NoLink ELSE owner'[c] = m
      /\ \A d \in AllConns \ {c} : phase'[d] = phase[d] /\ owner'[d] = owner[d]
  BY <1>1, <1>2, <1>3, <1>4 DEF Close
<1>6. CASE UNCHANGED <<link, period, total>>
  <2>1. CapReached' = CapReached /\ 0 \in Nat
    BY <1>3, <1>6 DEF CapReached
  <2> QED
    BY <1>1, <1>3, <1>4, <1>5, <1>6, <2>1, SpendMoves
<1>7. ASSUME NEW n \in FrameSizes, Allowed(owner[c]), total' = total + n,
             link' = [link EXCEPT ![owner[c]].used = @ + n],
             period' = [period EXCEPT ![owner[c]].spent = @ + n]
      PROVE  SpendInv'
  <2>1. n \in Nat
    OBVIOUS
  <2>2. CapReached => CapReached'
    BY <1>2, <1>3, <1>7, <2>1 DEF CapReached
  <2>3. /\ Allowed(m) /\ link' = [link EXCEPT ![m].used = @ + n]
        /\ period' = [period EXCEPT ![m].spent = @ + n]
    BY <1>4, <1>7
  <2> QED
    BY <1>1, <1>3, <1>4, <1>5, <2>1, <2>2, <2>3, SpendMoves
<1> QED
  BY <1>3, <1>6, <1>7

(* Every step of the Core keeps what the tunnels of a link relay covered.  *)
LEMMA SpendStep == TypeOK /\ TunnelInv /\ SpendInv /\ [Next]_vars => SpendInv'
<1> SUFFICES ASSUME TypeOK, TunnelInv, SpendInv, [Next]_vars
             PROVE  SpendInv'
  OBVIOUS
<1>1. TypeOK'
  BY TypeStep
<1>2. ASSUME NEW l \in Links, CreateLink(l) \/ PatchLink(l) \/ DeleteLink(l) \/ Expire(l)
      PROVE  SpendInv'
  <2>1. /\ period' = [period EXCEPT ![l] = PeriodOf(link'[l])]
        /\ UNCHANGED <<gateVars, total>> /\ cap' = cap
        /\ period \in [Links -> PeriodRecord] /\ link \in [Links -> LinkRecord]
    BY <1>2 DEF CreateLink, PatchLink, DeleteLink, Expire, NewPeriod, TypeOK
  <2>2. \A m \in Links \ {l} : link'[m] = link[m]
    BY <1>2, <2>1 DEF CreateLink, PatchLink, DeleteLink, Expire
  <2>3. \A m \in Links : \/ period'[m] = PeriodOf(link'[m])
                         \/ link'[m] = link[m] /\ period'[m] = period[m]
    BY <2>1, <2>2
  <2> QED
    BY <1>1, <2>1, <2>3, SpendEdits
<1>3. ASSUME NEW v \in Caps, SetCap(v)
      PROVE  SpendInv'
  <2>1. UNCHANGED <<gateVars, total>> /\ \A l \in Links : period'[l] = PeriodOf(link'[l])
    BY <1>3 DEF SetCap
  <2> QED
    BY <1>1, <2>1, SpendEdits
<1>4. ASSUME NEW c \in AllConns, NEW l \in Links, Open(c, l)
      PROVE  SpendInv'
  BY <1>1, <1>4, SpendOpens
<1>5. ASSUME NEW c \in Conns, Tunnel(c)
      PROVE  SpendInv'
  <2>1. \/ \E n \in FrameSizes : FirstFrame(c, n) \/ \E p \in Pumps : Frame(c, p, n)
        \/ HandshakeFails(c) \/ ConnectFails(c) \/ \E p \in Pumps : DeniedAfterThrottle(c, p)
        \/ Connected(c) \/ \E p \in Pumps : Write(c, p)
        \/ Finish(c) \/ \E p \in Pumps : PumpEnds(c, p)
    BY <1>5 DEF Tunnel
  <2> QED
    BY <1>1, <2>1, SpendAsks, SpendDrops, SpendWrites, SpendFlushes
<1>6. ASSUME NEW c \in VMessConns, VMessTunnel(c)
      PROVE  SpendInv'
  BY <1>1, <1>6, SpendVMess
<1>7. CASE UNCHANGED vars
  <2>1. /\ UNCHANGED <<gateVars, total>> /\ cap' = cap
        /\ \A l \in Links : link'[l] = link[l] /\ period'[l] = period[l]
    BY <1>7 DEF vars, histVars
  <2> QED
    BY <1>1, <2>1, SpendEdits
<1> QED
  BY <1>2, <1>3, <1>4, <1>5, <1>6, <1>7 DEF Next, Manage

LEMMA SpendInit == Init => SpendInv
<1> SUFFICES ASSUME Init PROVE SpendInv
  OBVIOUS
<1>1. TypeOK
  BY TypeInit
<1>2. \A l \in Links : period[l] = PeriodOf(link[l])
  BY DEF Init
<1>3. OwnerInv
  BY DEF Init, OwnerInv
<1> QED
  BY <1>1, <1>2, <1>3, SpendBegins DEF SpendInv

(* What is charged is bounded by the overshoot, and every weight by a batch*)
(* and two frames.                                                         *)
LEMMA SpendIsCovered == TypeOK /\ TunnelInv /\ LinkInv /\ SpendInv => SpendBounded
<1> SUFFICES ASSUME TypeOK, TunnelInv, LinkInv, SpendInv, NEW l \in Links,
                    link[l].limit > 0 \/ ~Allowed(l)
             PROVE  period[l].spent <=
                      (IF period[l].room > 0 THEN period[l].room + Overshoot ELSE 0)
                      + Cardinality(Conns) * (MaxBatch - 1 + 2 * MaxFrame)
  BY DEF SpendBounded
<1>1. /\ link[l].limit \in Nat /\ link[l].used \in Nat /\ period[l].ceiling \in Nat
      /\ period[l].room \in Nat /\ period[l].spent \in Nat
  BY LinkNumbers
<1>2. Limited(l) /\ RoomInv(l) /\ Covered(l)
  BY DEF Limited, SpendInv
<1> DEFINE most == IF period[l].room > 0 THEN period[l].room + Overshoot ELSE 0
           B    == MaxBatch - 1 + 2 * MaxFrame
<1>3. B \in Nat /\ Overshoot \in Nat /\ most \in Nat
  BY <1>1 DEF Overshoot
<1>4. Charged(l) <= most
  <2>1. CASE period[l].room > 0
    <3>1. /\ link[l].limit > 0 /\ period[l].ceiling = link[l].limit
      BY <1>2, <2>1 DEF RoomInv
    <3>2. link[l].used <= period[l].ceiling + Overshoot
      BY <3>1 DEF LinkInv
    <3> QED
      BY <1>1, <1>3, <2>1, <3>1, <3>2 DEF Charged
  <2>2. CASE ~(period[l].room > 0)
    BY <2>2 DEF Charged
  <2> QED
    BY <2>1, <2>2
<1>5. PICK w \in Weights : \E s \in Sums(w) :
        /\ period[l].spent <= Charged(l) + s[Conns]
        /\ \A d \in Conns : Credit(l, d, w[d])
  BY <1>2 DEF Covered
<1>6. PICK s \in Sums(w) :
        /\ period[l].spent <= Charged(l) + s[Conns]
        /\ \A d \in Conns : Credit(l, d, w[d])
  BY <1>5
<1>7. ASSUME NEW d \in Conns PROVE w[d] <= B
  <2>1. Credit(l, d, w[d]) /\ w[d] \in Int
    BY <1>6 DEF Weights
  <2>2. /\ gate[d].ok \in BOOLEAN /\ gate[d].pending \in Nat /\ Flying(d) \in 0..(2 * MaxFrame)
        /\ gate[d].pending <= MaxBatch - 1
    BY GateNumbers DEF TunnelInv, GateInv
  <2>3. CASE Settled(l, w[d])
    BY <2>1, <2>3 DEF Settled
  <2>4. CASE Owes(l, d, w[d] + Flying(d))
    BY <2>1, <2>2, <2>4 DEF Owes
  <2> QED
    BY <2>1, <2>3, <2>4 DEF Credit
<1>8. s[Conns] <= Cardinality(Conns) * B
  <2> HIDE DEF B
  <2> QED
    BY <1>3, <1>7, SumIsBounded
<1>9. s[Conns] \in Int /\ Charged(l) \in Int /\ Cardinality(Conns) * B \in Int
  <2>1. Cardinality(Conns) \in Nat
    BY FS_CardinalityType
  <2> QED
    BY <1>3, <2>1, LinkNumbers DEF Sums
<1>10. period[l].spent <= most + Cardinality(Conns) * B
  <2> HIDE DEF most, B
  <2>1. \A a, b, x, y, z \in Int : a <= b + x /\ b <= y /\ x <= z => a <= y + z
    OBVIOUS
  <2> QED
    BY <1>1, <1>3, <1>4, <1>6, <1>8, <1>9, <2>1
<1> QED
  BY <1>10

(* For any number of tunnels, what the tunnels of a link together relay    *)
(* after an edit of the link or of the cap is what its quota had left, one *)
(* overshoot, and a batch and two frames for each tunnel handler.          *)
THEOREM SpendIsBounded == Spec => []SpendBounded
<1>1. Init => LinkInv
  BY DEF Init, LinkInv, PeriodOf, Max2, Overshoot
<1> QED
  BY <1>1, SpendIsCovered, SpendInit, SpendStep, TypeCorrect, TunnelInit, TunnelStep, LinkStep,
     PTL DEF Spec

-----------------------------------------------------------------------------
(* A gate that has refused stays shut until its tunnel is over.            *)
LEMMA RefusalStays ==
  TypeOK /\ [Next]_vars
    => [\A c \in Conns : ~gate[c].ok /\ phase'[c] = phase[c] => ~gate'[c].ok]_vars
<1> SUFFICES ASSUME TypeOK, [Next]_vars, NEW c \in Conns, ~gate[c].ok, phase'[c] = phase[c]
             PROVE  ~gate'[c].ok
  OBVIOUS
<1>1. /\ gate \in [Conns -> GateRecord] /\ gate[c] \in GateRecord /\ c \in AllConns
      /\ phase \in [AllConns -> {"closed", "accepted", "connecting", "relaying"}]
  BY DEF TypeOK, AllConns
<1>2. CASE gate' = gate
  BY <1>2
<1>3. ASSUME NEW d \in Conns, NEW n \in FrameSizes, NEW a \in BOOLEAN, GateAdd(d, n, a)
      PROVE  ~gate'[c].ok
  <2>1. CASE d = c
    BY <1>3, <2>1 DEF GateAdd
  <2>2. CASE d # c
    <3>1. gate' = gate \/ \E r : gate' = [gate EXCEPT ![d] = r]
      BY <1>3 DEF GateAdd
    <3> QED
      BY <1>1, <2>2, <3>1
  <2> QED
    BY <2>1, <2>2
<1>4. ASSUME NEW d \in Conns, GateFlush(d)
      PROVE  ~gate'[c].ok
  <2>1. CASE d = c
    <3>1. gate' = [gate EXCEPT ![c].pending = 0, ![c].ok = @ /\ (gate[c].pending = 0)]
      BY <1>4, <2>1 DEF GateFlush
    <3>2. gate'[c].ok = (gate[c].ok /\ gate[c].pending = 0)
      BY <1>1, <3>1 DEF GateRecord
    <3> QED
      BY <3>2
  <2>2. CASE d # c
    BY <1>1, <1>4, <2>2 DEF GateFlush
  <2> QED
    BY <2>1, <2>2
<1>5. ASSUME NEW d \in AllConns, NEW l \in Links, Open(d, l)
      PROVE  ~gate'[c].ok
  <2>1. d # c
    BY <1>1, <1>5 DEF Open
  <2>2. gate'[c] = gate[c]
    BY <1>5, <2>1 DEF Open
  <2> QED
    BY <2>2
<1>6. CASE Manage
  BY <1>2, <1>6 DEF Manage, CreateLink, PatchLink, DeleteLink, Expire, SetCap, NewPeriod, gateVars
<1>7. ASSUME NEW d \in Conns, Tunnel(d)
      PROVE  ~gate'[c].ok
  BY <1>2, <1>3, <1>4, <1>7
  DEF Tunnel, FirstFrame, HandshakeFails, Connected, ConnectFails, Write, DeniedAfterThrottle,
      PumpEnds, Frame, Finish
<1>8. ASSUME NEW d \in VMessConns, VMessTunnel(d)
      PROVE  ~gate'[c].ok
  BY <1>2, <1>8 DEF VMessTunnel, VMessConnected, VMessFrame, VMessEnds, PolicyCut, gateVars
<1> QED
  BY <1>2, <1>5, <1>6, <1>7, <1>8 DEF Next, vars, gateVars

(* The safety part of TunnelsEnd: a tunnel that was refused cannot come    *)
(* back, for any edits of its link and of the cap.                         *)
THEOREM RefusedStaysRefused == Spec => RefusalIsFinal
  BY TypeCorrect, RefusalStays, PTL DEF Spec, RefusalIsFinal

-----------------------------------------------------------------------------
HIDE QuotaGateAssumption

-----------------------------------------------------------------------------
(***************************************************************************)
(* The parts that are instantiated.                                        *)
(***************************************************************************)

(* Every instance has a copy of the operators of FiniteSets.               *)
LEMMA TrackerSets ==
  \A A : T!Cardinality(A) = Cardinality(A) /\ T!IsFiniteSet(A) = IsFiniteSet(A)
BY Zenon DEF T!Cardinality, Cardinality, T!IsFiniteSet, IsFiniteSet

-----------------------------------------------------------------------------
(* The connection tracker: link is its ipLimit, total its entry, cap its   *)
(* stage, phase its peer and owner its peak.                               *)

(* A handler that serves a client is listed for it; a VMess handler serves *)
(* VMess links only; a handler that ended is listed nowhere, unless it is  *)
(* one of Trojan.                                                          *)
HandlerKept(c) ==
  /\ cap[c] \in {"handshake", "relaying"} => total[c] = phase[c]
  /\ cap[c] = "connecting" => c \in VMessIds /\ phase[c] \in TrackedVMessLinks \X Ips
  /\ c \in VMessIds => total[c] = None \/ total[c] \in TrackedVMessLinks \X Ips
  /\ cap[c] = "closed" => c \in TrojanIds \/ total[c] = None

(* What was connected at the last edit, or the limit since then.           *)
WithinPeak(l) ==
  link[l] > 0 => link[l] <= owner[l] /\ T!Cardinality(T!UniqueIps(l)) <= owner[l]

TrackerKept ==
  /\ T!TypeOK
  /\ \A c \in T!Ids : HandlerKept(c)
  /\ \A l \in TrackedLinks \ TrackedVMessLinks : WithinPeak(l)

TrackerInv == focus = "tracker" => TrackerKept

LEMMA TrackerFinite ==
  /\ IsFiniteSet(Ips)
  /\ \A l : T!UniqueIps(l) \subseteq Ips
  /\ \A l : IsFiniteSet(T!UniqueIps(l)) /\ T!Cardinality(T!UniqueIps(l)) \in Nat
<1>1. IsFiniteSet(Ips)
  BY CoreAssumption, TrackerSets DEF T!ConnectionTrackerAssumption
<1>2. \A l : T!UniqueIps(l) \subseteq Ips
  BY DEF T!UniqueIps
<1>3. ASSUME NEW l
      PROVE  IsFiniteSet(T!UniqueIps(l)) /\ T!Cardinality(T!UniqueIps(l)) \in Nat
  <2>1. IsFiniteSet(T!UniqueIps(l))
    BY <1>1, <1>2, FS_Subset
  <2>2. Cardinality(T!UniqueIps(l)) \in Nat
    BY <2>1, FS_CardinalityType
  <2> QED BY <2>1, <2>2, TrackerSets
<1> QED BY <1>1, <1>2, <1>3

LEMMA TrackerStart == CoreInit => TrackerInv
<1> SUFFICES ASSUME CoreInit, focus = "tracker" PROVE TrackerInv
  BY DEF TrackerInv
<1>1. T!Init
  BY DEF CoreInit
<1>2. /\ link \in [TrackedLinks -> IpLimits] /\ owner = link
      /\ total = [c \in T!Ids |-> None]
      /\ cap = [c \in T!Ids |-> "closed"]
      /\ phase = [c \in T!Ids |-> None]
  BY <1>1 DEF T!Init
<1>3. T!TypeOK
  BY <1>2, CoreAssumption DEF T!TypeOK, T!ConnectionTrackerAssumption
<1>4. \A c \in T!Ids : HandlerKept(c)
  BY <1>2 DEF HandlerKept
<1>5. ASSUME NEW l \in TrackedLinks \ TrackedVMessLinks PROVE WithinPeak(l)
  <2>1. T!UniqueIps(l) = {}
    BY <1>2, CoreAssumption DEF T!UniqueIps, T!ConnectionTrackerAssumption
  <2>2. T!Cardinality(T!UniqueIps(l)) = 0
    BY <2>1, FS_EmptySet, TrackerSets
  <2>3. link[l] \in Nat
    BY <1>2, CoreAssumption DEF T!ConnectionTrackerAssumption
  <2> QED BY <1>2, <2>2, <2>3 DEF WithinPeak
<1> QED BY <1>3, <1>4, <1>5 DEF TrackerInv, TrackerKept

(* Fewer addresses and the same limit keep a link within its peak.         *)
LEMMA FewerStayWithin ==
  ASSUME NEW l \in TrackedLinks, T!TypeOK, WithinPeak(l),
         link'[l] = link[l], owner'[l] = owner[l],
         T!UniqueIps(l)' \subseteq T!UniqueIps(l)
  PROVE  WithinPeak(l)'
<1>1. Cardinality(T!UniqueIps(l)') <= Cardinality(T!UniqueIps(l))
  BY TrackerFinite, FS_Subset
<1>2. T!Cardinality(T!UniqueIps(l)) = Cardinality(T!UniqueIps(l))
  BY TrackerSets
<1>3. (T!Cardinality(T!UniqueIps(l)))' = Cardinality(T!UniqueIps(l)')
  BY TrackerSets
<1>4. /\ Cardinality(T!UniqueIps(l)) \in Nat /\ owner[l] \in Nat /\ link[l] \in Nat
      /\ Cardinality(T!UniqueIps(l)') \in Nat
  <2>1. IsFiniteSet(T!UniqueIps(l)')
    BY TrackerFinite, FS_Subset
  <2> QED BY <2>1, TrackerFinite, <1>2, FS_CardinalityType DEF T!TypeOK
<1> QED BY <1>1, <1>2, <1>3, <1>4 DEF WithinPeak

LEMMA LimitIsSet ==
  ASSUME TrackerKept, NEW k \in TrackedLinks, NEW n \in IpLimits, T!SetIpLimit(k, n)
  PROVE  TrackerKept'
<1>1. /\ \A l \in TrackedLinks : link'[l] = IF l = k THEN n ELSE link[l]
      /\ \A l \in TrackedLinks :
           owner'[l] = IF l = k THEN T!Max2(n, T!Cardinality(T!UniqueIps(k))) ELSE owner[l]
      /\ total' = total /\ cap' = cap /\ phase' = phase
  BY DEF TrackerKept, T!TypeOK, T!SetIpLimit
<1>2. n \in Nat
  BY CoreAssumption DEF T!ConnectionTrackerAssumption
<1>3. T!Max2(n, T!Cardinality(T!UniqueIps(k))) \in Nat
  BY <1>2, TrackerFinite DEF T!Max2
<1>4. T!TypeOK'
  BY <1>2, <1>3 DEF TrackerKept, T!TypeOK, T!SetIpLimit
<1>5. \A c \in T!Ids : HandlerKept(c)'
  BY <1>1 DEF TrackerKept, HandlerKept
<1>6. ASSUME NEW l \in TrackedLinks \ TrackedVMessLinks PROVE WithinPeak(l)'
  <2>1. T!UniqueIps(l)' = T!UniqueIps(l)
    BY <1>1 DEF T!UniqueIps
  <2>2. CASE l = k
    <3>1. (T!Cardinality(T!UniqueIps(l)))' = T!Cardinality(T!UniqueIps(k))
      BY <2>1, <2>2, TrackerSets
    <3> QED BY <3>1, <2>2, <1>1, <1>2, TrackerFinite DEF WithinPeak, T!Max2
  <2>3. CASE l # k
    BY <2>1, <2>3, <1>1, FewerStayWithin DEF TrackerKept
  <2> QED BY <2>2, <2>3
<1> QED BY <1>4, <1>5, <1>6 DEF TrackerKept

(* One more address is allowed below the limit only, so it fits the peak.  *)
LEMMA ClientIsAccepted ==
  ASSUME TrackerKept, NEW c \in T!Ids, NEW k \in TrackedLinks, NEW ip \in Ips,
         T!Accept(c, k, ip)
  PROVE  TrackerKept'
<1>1. /\ link' = link /\ owner' = owner
      /\ \A d \in T!Ids : total'[d] = IF d = c THEN <<k, ip>> ELSE total[d]
      /\ \A d \in T!Ids : phase'[d] = IF d = c THEN <<k, ip>> ELSE phase[d]
      /\ \A d \in T!Ids : cap'[d] = IF d = c THEN "handshake" ELSE cap[d]
      /\ c \notin VMessIds /\ T!IpAllowed(k, ip)
  BY DEF TrackerKept, T!TypeOK, T!Accept, T!Register
<1>2. T!TypeOK'
  BY DEF TrackerKept, T!TypeOK, T!Accept, T!Register
<1>3. \A d \in T!Ids : HandlerKept(d)'
  BY <1>1 DEF TrackerKept, HandlerKept
<1>4. ASSUME NEW l \in TrackedLinks \ TrackedVMessLinks PROVE WithinPeak(l)'
  <2>0. link'[l] = link[l] /\ owner'[l] = owner[l]
    BY <1>1
  <2>1. T!UniqueIps(l)' \subseteq T!UniqueIps(l) \cup {ip}
    BY <1>1 DEF T!UniqueIps
  <2>2. CASE T!UniqueIps(l)' \subseteq T!UniqueIps(l)
    BY <2>0, <2>2, FewerStayWithin DEF TrackerKept
  <2>3. CASE ~(T!UniqueIps(l)' \subseteq T!UniqueIps(l))
    <3>1. l = k /\ ip \notin T!UniqueIps(l)
      BY <2>1, <2>3, <1>1 DEF T!UniqueIps
    <3>2. link[l] = 0 \/ T!Cardinality(T!UniqueIps(l)) < link[l]
      BY <3>1, <1>1 DEF T!IpAllowed
    <3>3. IsFiniteSet(T!UniqueIps(l) \cup {ip})
          /\ Cardinality(T!UniqueIps(l) \cup {ip}) = Cardinality(T!UniqueIps(l)) + 1
      BY <3>1, TrackerFinite, FS_AddElement
    <3>4. /\ IsFiniteSet(T!UniqueIps(l)')
          /\ Cardinality(T!UniqueIps(l)') <= Cardinality(T!UniqueIps(l) \cup {ip})
      BY <2>1, <3>3, FS_Subset
    <3>5. /\ T!Cardinality(T!UniqueIps(l)) = Cardinality(T!UniqueIps(l))
          /\ (T!Cardinality(T!UniqueIps(l)))' = Cardinality(T!UniqueIps(l)')
          /\ Cardinality(T!UniqueIps(l)') \in Nat /\ Cardinality(T!UniqueIps(l)) \in Nat
      BY TrackerSets, TrackerFinite, <3>4, FS_CardinalityType
    <3>6. link[l] \in Nat /\ owner[l] \in Nat
      BY DEF TrackerKept, T!TypeOK
    <3> QED BY <2>0, <3>2, <3>3, <3>4, <3>5, <3>6 DEF TrackerKept, WithinPeak
  <2> QED BY <2>2, <2>3
<1> QED BY <1>2, <1>3, <1>4 DEF TrackerKept

LEMMA VMessIsChecked ==
  ASSUME TrackerKept, NEW c \in T!Ids, NEW k \in TrackedLinks, NEW ip \in Ips,
         T!VMessCheck(c, k, ip)
  PROVE  TrackerKept'
<1>1. /\ link' = link /\ owner' = owner /\ total' = total
      /\ \A d \in T!Ids : phase'[d] = IF d = c THEN <<k, ip>> ELSE phase[d]
      /\ \A d \in T!Ids : cap'[d] = IF d = c THEN "connecting" ELSE cap[d]
      /\ c \in VMessIds /\ k \in TrackedVMessLinks
  BY DEF TrackerKept, T!TypeOK, T!VMessCheck
<1>2. T!TypeOK'
  BY DEF TrackerKept, T!TypeOK, T!VMessCheck
<1>3. \A d \in T!Ids : HandlerKept(d)'
  BY <1>1 DEF TrackerKept, HandlerKept
<1>4. \A l \in TrackedLinks \ TrackedVMessLinks : WithinPeak(l)'
  <2>1. \A l : T!UniqueIps(l)' \subseteq T!UniqueIps(l)
    BY <1>1 DEF T!UniqueIps
  <2> QED BY <2>1, <1>1, FewerStayWithin DEF TrackerKept
<1> QED BY <1>2, <1>3, <1>4 DEF TrackerKept

(* What a VMess handler registers concerns a VMess link only.              *)
LEMMA VMessIsRegistered ==
  ASSUME TrackerKept, NEW c \in T!Ids, T!VMessRegister(c)
  PROVE  TrackerKept'
<1>1. c \in VMessIds /\ phase[c] \in TrackedVMessLinks \X Ips
  BY DEF TrackerKept, T!VMessRegister, HandlerKept
<1>2. <<phase[c][1], phase[c][2]>> = phase[c]
  BY <1>1
<1>3. /\ link' = link /\ owner' = owner /\ phase' = phase
      /\ \A d \in T!Ids : total'[d] = IF d = c THEN phase[c] ELSE total[d]
      /\ \A d \in T!Ids : cap'[d] = IF d = c THEN "relaying" ELSE cap[d]
  BY <1>2 DEF TrackerKept, T!TypeOK, T!VMessRegister, T!Register
<1>4. T!TypeOK'
  BY <1>1, <1>2, CoreAssumption
     DEF TrackerKept, T!TypeOK, T!VMessRegister, T!Register, T!ConnectionTrackerAssumption
<1>5. \A d \in T!Ids : HandlerKept(d)'
  BY <1>1, <1>3 DEF TrackerKept, HandlerKept
<1>6. \A l \in TrackedLinks \ TrackedVMessLinks : WithinPeak(l)'
  <2>1. \A l \in TrackedLinks \ TrackedVMessLinks :
          T!UniqueIps(l)' \subseteq T!UniqueIps(l)
    BY <1>1, <1>3 DEF T!UniqueIps
  <2> QED BY <2>1, <1>3, FewerStayWithin DEF TrackerKept
<1> QED BY <1>4, <1>5, <1>6 DEF TrackerKept

LEMMA HandlerRelays ==
  ASSUME TrackerKept, NEW c \in T!Ids, T!Relay(c)
  PROVE  TrackerKept'
<1>1. /\ link' = link /\ owner' = owner /\ phase' = phase /\ total' = total
      /\ cap[c] = "handshake"
      /\ \A d \in T!Ids : cap'[d] = IF d = c THEN "relaying" ELSE cap[d]
  BY DEF TrackerKept, T!TypeOK, T!Relay
<1>2. T!TypeOK'
  BY DEF TrackerKept, T!TypeOK, T!Relay
<1>3. \A d \in T!Ids : HandlerKept(d)'
  BY <1>1 DEF TrackerKept, HandlerKept
<1>4. \A l \in TrackedLinks \ TrackedVMessLinks : WithinPeak(l)'
  <2>1. \A l : T!UniqueIps(l)' \subseteq T!UniqueIps(l)
    BY <1>1 DEF T!UniqueIps
  <2> QED BY <2>1, <1>1, FewerStayWithin DEF TrackerKept
<1> QED BY <1>2, <1>3, <1>4 DEF TrackerKept

LEMMA HandlerEnds ==
  ASSUME TrackerKept, NEW c \in T!Ids, T!TrojanDenied(c) \/ T!End(c)
  PROVE  TrackerKept'
<1>1. /\ link' = link /\ owner' = owner
      /\ \A d \in T!Ids : phase'[d] = IF d = c THEN None ELSE phase[d]
      /\ \A d \in T!Ids : cap'[d] = IF d = c THEN "closed" ELSE cap[d]
      /\ \A d \in T!Ids \ {c} : total'[d] = total[d]
      /\ \/ total'[c] = None
         \/ /\ c \in TrojanIds
            /\ total'[c] = total[c]
  BY DEF TrackerKept, T!TypeOK, T!TrojanDenied, T!End, T!Remove
<1>2. T!TypeOK'
  BY DEF TrackerKept, T!TypeOK, T!TrojanDenied, T!End, T!Remove
<1>3. \A d \in T!Ids : HandlerKept(d)'
  BY <1>1 DEF TrackerKept, HandlerKept
<1>4. \A l \in TrackedLinks \ TrackedVMessLinks : WithinPeak(l)'
  <2>0. \A l \in TrackedLinks, ip \in Ips : None # <<l, ip>>
    BY CoreAssumption DEF T!ConnectionTrackerAssumption
  <2>1. \A l \in TrackedLinks : T!UniqueIps(l)' \subseteq T!UniqueIps(l)
    <3> SUFFICES ASSUME NEW l \in TrackedLinks, NEW ip \in Ips, NEW d \in T!Ids,
                        total'[d] = <<l, ip>>
                 PROVE  total[d] = <<l, ip>>
      BY DEF T!UniqueIps
    <3> QED BY <1>1, <2>0
  <2> QED BY <2>1, <1>1, FewerStayWithin DEF TrackerKept
<1> QED BY <1>2, <1>3, <1>4 DEF TrackerKept

LEMMA TrackerWaits == ASSUME TrackerKept, UNCHANGED coreVars PROVE TrackerKept'
<1>1. T!TypeOK' /\ \A d \in T!Ids : HandlerKept(d)'
  BY DEF TrackerKept, T!TypeOK, HandlerKept, coreVars, vars, gateVars
<1>2. \A l : T!UniqueIps(l)' \subseteq T!UniqueIps(l)
  BY DEF T!UniqueIps, coreVars, vars
<1>3. \A l \in TrackedLinks \ TrackedVMessLinks : WithinPeak(l)'
  BY <1>2, FewerStayWithin DEF TrackerKept, coreVars, vars, gateVars
<1> QED BY <1>1, <1>3 DEF TrackerKept

LEMMA TrackerStep == TrackerInv /\ [CoreNext]_coreVars => TrackerInv'
<1> SUFFICES ASSUME TrackerInv, [CoreNext]_coreVars, focus' = "tracker"
             PROVE  TrackerKept'
  BY DEF TrackerInv
<1>1. focus = "tracker"
  BY DEF CoreNext, In, coreVars
<1>2. TrackerKept
  BY <1>1 DEF TrackerInv
<1>3. CASE UNCHANGED coreVars
  BY <1>2, <1>3, TrackerWaits
<1>4. CASE CoreNext
  <2>1. \/ \E l \in TrackedLinks, n \in IpLimits : T!SetIpLimit(l, n)
        \/ \E c \in T!Ids, l \in TrackedLinks, ip \in Ips : T!Accept(c, l, ip)
        \/ \E c \in T!Ids, l \in TrackedLinks, ip \in Ips : T!VMessCheck(c, l, ip)
        \/ \E c \in T!Ids : T!VMessRegister(c)
        \/ \E c \in T!Ids : T!Relay(c)
        \/ \E c \in T!Ids : T!TrojanDenied(c)
        \/ \E c \in T!Ids : T!End(c)
    BY <1>1, <1>4 DEF CoreNext, In
  <2> QED BY <1>2, <2>1, LimitIsSet, ClientIsAccepted, VMessIsChecked, VMessIsRegistered,
             HandlerRelays, HandlerEnds
<1> QED BY <1>3, <1>4

(* However handlers of any number interleave, a link that no VMess tunnel  *)
(* serves never has more addresses than its limit allowed since its last   *)
(* edit, a tunnel that relays is listed for its client, and only a refused *)
(* Trojan tunnel stays listed when it is gone.                             *)
THEOREM ConnectedClientsAreListed == CoreSpec => []TrackerHolds
<1>1. TrackerInv => TrackerHolds
  <2> SUFFICES ASSUME TrackerInv, focus = "tracker"
               PROVE  T!GatedIpsWithinLimit /\ T!RelayingIsListed /\ T!OnlyTrojanLeaks
    BY DEF TrackerHolds, TrackerInv, TrackerKept
  <2>1. T!GatedIpsWithinLimit
    BY DEF TrackerInv, TrackerKept, WithinPeak, T!GatedIpsWithinLimit
  <2>2. T!RelayingIsListed /\ T!OnlyTrojanLeaks
    BY DEF TrackerInv, TrackerKept, HandlerKept, T!RelayingIsListed, T!OnlyTrojanLeaks
  <2> QED BY <2>1, <2>2
<1> QED BY <1>1, TrackerStart, TrackerStep, PTL DEF CoreSpec

-----------------------------------------------------------------------------
(* The quota: the invariants of QuotaGateProofs.                           *)
QuotaInv ==
  focus = "quota" =>
    /\ TypeOK /\ TunnelInv /\ LinkInv
    /\ VMessConns = {} => CapInv

LEMMA QuotaStart == CoreInit => QuotaInv
<1> SUFFICES ASSUME CoreInit, focus = "quota"
             PROVE  TypeOK /\ TunnelInv /\ LinkInv /\ CapInv
  BY DEF QuotaInv
<1>1. Init
  BY DEF CoreInit
<1>2. TypeOK /\ TunnelInv
  BY <1>1, TypeInit, TunnelInit
<1>3. LinkInv
  BY <1>1 DEF Init, LinkInv, PeriodOf, Max2, Overshoot
<1>4. CapInv
  BY <1>1 DEF Init, CapInv, Overshoot
<1> QED BY <1>2, <1>3, <1>4

LEMMA QuotaPart ==
  ASSUME [CoreNext]_coreVars, focus' = "quota"
  PROVE  focus = "quota" /\ [Next]_vars
<1>1. focus = "quota"
  BY DEF CoreNext, In, coreVars
<1>2. CASE CoreNext
  <2>1. \/ \E l \in Links : CreateLink(l) \/ PatchLink(l) \/ DeleteLink(l) \/ Expire(l)
        \/ \E v \in Caps : SetCap(v)
        \/ \E c \in Conns, l \in Links : Open(c, l)
        \/ \E c \in Conns : Tunnel(c)
    BY <1>1, <1>2 DEF CoreNext, In, Tunnel
  <2> QED BY <1>1, <2>1 DEF Next, Manage, AllConns
<1> QED BY <1>1, <1>2 DEF coreVars

LEMMA QuotaStep == QuotaInv /\ [CoreNext]_coreVars => QuotaInv'
<1> SUFFICES ASSUME QuotaInv, [CoreNext]_coreVars, focus' = "quota"
             PROVE  (TypeOK /\ TunnelInv /\ LinkInv /\ (VMessConns = {} => CapInv))'
  BY DEF QuotaInv
<1>1. TypeOK /\ TunnelInv /\ LinkInv /\ (VMessConns = {} => CapInv) /\ [Next]_vars
  BY QuotaPart DEF QuotaInv
<1> QED BY <1>1, TypeStep, TunnelStep, LinkStep, CapStep

(* The bounds of QuotaGate, whichever part of the Core is explored.        *)
THEOREM CoreOvershootIsBounded == CoreSpec => []QuotaHolds
<1>1. QuotaInv => QuotaHolds
  <2> SUFFICES ASSUME QuotaInv, focus = "quota" PROVE OvershootBounded
    BY DEF QuotaHolds
  <2>1. TypeOK /\ TunnelInv /\ LinkInv /\ (VMessConns = {} => CapInv)
    BY DEF QuotaInv
  <2>2. UncountedBounded
    BY <2>1, TunnelIsUncounted
  <2> QED BY <2>1, <2>2
          DEF OvershootBounded, LinkInv, LinkOvershootBounded, CapInv, CapOvershootBounded
<1> QED BY <1>1, QuotaStart, QuotaStep, PTL DEF CoreSpec

-----------------------------------------------------------------------------
(* The stream of a Shadowsocks tunnel: link is its sent, total its tunnel, *)
(* cap its cut, phase its keyed, owner its decNonce, gate its upstream,    *)
(* stage its todoChunks, frame its encNonce and debt its reply.            *)
TunnelStates ==
  [at : {"handshake", "admit", "first", "pumping", "decrypting", "closed"},
   found : BOOLEAN,
   why : {"none", "handshake", "refused", "bad aead frame", "quota", "pump error",
          "hang up"}]

Replies == [size : S!Sizes, salt : BOOLEAN, nonce : Nat]

StreamTyped ==
  /\ link \in 0..S!PayloadEnd(MaxChunks)
  /\ total \in TunnelStates
  /\ cap \in Nat /\ cap <= link
  /\ owner \in Nat /\ stage \in Nat /\ frame \in Nat
  /\ gate \in Seq(Nat)
  /\ debt \in Seq(Replies)

(* The chunks so far, in order; the decoder has cut off the last of them,  *)
(* and its nonce is the next one, or the one after the next length when    *)
(* that has come.                                                          *)
InStep(m) ==
  /\ cap = S!PayloadEnd(m) /\ owner \in {2 * m, 2 * m + 1}

StreamKept ==
  /\ StreamTyped
  /\ cap # 0 => phase
  /\ total.at = "handshake" =>
       cap = 0 /\ owner = 0 /\ gate = <<>> /\ stage = 0
  /\ total.at \in {"admit", "first"} =>
       /\ total.found /\ gate = <<>> /\ stage = S!Whole(link)
       /\ InStep(S!Whole(link))
       /\ owner = 2 * S!Whole(link) => link < S!LengthEnd(S!Whole(link) + 1)
  /\ total.at \in {"pumping", "decrypting"} =>
       total.found /\ InStep(Len(gate))
  /\ total.at = "pumping" /\ owner = 2 * Len(gate) => link < S!LengthEnd(Len(gate) + 1)
  /\ \A k \in 1..Len(gate) : gate[k] = k
  /\ gate # <<>> => total.found /\ S!PayloadEnd(Len(gate)) <= link
  /\ total.why = "bad aead frame" => total.at = "closed" /\ owner % 2 = 1
  /\ frame = 2 * Len(debt)
  /\ \A i \in DOMAIN debt : debt[i].nonce = 2 * (i - 1) /\ (debt[i].salt <=> i = 1)

StreamInv == focus = "shadowsocks" => StreamKept

(* How many chunks are whole.                                              *)
LEMMA WholeChunks ==
  ASSUME NEW n \in Nat
  PROVE  /\ S!Whole(n) \in Nat
         /\ n < 2 => S!Whole(n) = 0
         /\ n >= 2 => S!PayloadEnd(S!Whole(n)) <= n /\ n < S!PayloadEnd(S!Whole(n) + 1)
<1>1. CASE n < 2
  BY <1>1 DEF S!Whole
<1>2. CASE n >= 2
  <2>1. S!Whole(n) = (n - 2) \div 4 /\ n - 2 \in Nat
    BY <1>2 DEF S!Whole
  <2>2. \A x \in Nat : x \div 4 \in Nat /\ 4 * (x \div 4) <= x /\ x < 4 * (x \div 4) + 4
    OBVIOUS
  <2>3. S!Whole(n) \in Nat /\ 4 * S!Whole(n) <= n - 2 /\ n - 2 < 4 * S!Whole(n) + 4
    BY <2>1, <2>2
  <2> QED BY <1>2, <2>3 DEF S!PayloadEnd
<1> QED BY <1>1, <1>2

(* Between a payload and the next one, the payloads before are whole.      *)
LEMMA WholeBetween ==
  ASSUME NEW n \in Nat, NEW m \in Nat,
         S!PayloadEnd(m) <= n, n < S!PayloadEnd(m + 1)
  PROVE  S!Whole(n) = m
<1>1. 4 * m + 2 <= n /\ n < 4 * m + 6
  BY DEF S!PayloadEnd
<1>2. S!Whole(n) \in Nat /\ n >= 2
  BY <1>1, WholeChunks
<1>3. S!PayloadEnd(S!Whole(n)) <= n /\ n < S!PayloadEnd(S!Whole(n) + 1)
  BY <1>2, WholeChunks
<1>4. 4 * S!Whole(n) + 2 <= n /\ n < 4 * S!Whole(n) + 6
  BY <1>2, <1>3 DEF S!PayloadEnd
<1> QED BY <1>1, <1>2, <1>4

LEMMA NoChunks ==
  /\ <<>> \in Seq(Nat)
  /\ <<>> \in Seq(Replies)
  OBVIOUS

LEMMA StreamStart == CoreInit => StreamInv
<1> SUFFICES ASSUME CoreInit, focus = "shadowsocks" PROVE StreamKept
  BY DEF StreamInv
<1>1. S!SsInit
  BY DEF CoreInit
<1>2. S!PayloadEnd(MaxChunks) \in Nat
  BY CoreAssumption DEF S!ShadowsocksStreamAssumption, S!PayloadEnd
<1>3. /\ link = 0 /\ cap = 0 /\ phase = FALSE /\ owner = 0
      /\ total = [at |-> "handshake", found |-> FALSE, why |-> "none"]
      /\ gate = <<>> /\ stage = 0 /\ frame = 0 /\ debt = <<>>
  BY <1>1 DEF S!SsInit
<1>4. Len(gate) = 0 /\ Len(debt) = 0 /\ DOMAIN debt = {}
  BY <1>3
<1>5. StreamTyped
  <2>1. link \in 0..S!PayloadEnd(MaxChunks)
    BY <1>2, <1>3
  <2>2. total \in TunnelStates
    BY <1>3 DEF TunnelStates
  <2>3. gate \in Seq(Nat) /\ debt \in Seq(Replies)
    BY <1>3, NoChunks
  <2>4. cap \in Nat /\ cap <= link /\ owner \in Nat /\ stage \in Nat /\ frame \in Nat
    BY <1>3
  <2> QED BY Zenon, <2>1, <2>2, <2>3, <2>4 DEF StreamTyped
<1> QED BY <1>3, <1>4, <1>5, NoChunks DEF StreamKept

LEMMA RowIsSeq ==
  ASSUME NEW n \in Nat, NEW f \in [1..n -> Nat]
  PROVE  f \in Seq(Nat) /\ Len(f) = n
<1>1. f \in Seq(Nat)
  BY SeqDef
<1>2. DOMAIN f = 1..Len(f) /\ Len(f) \in Nat /\ DOMAIN f = 1..n
  BY <1>1, LenProperties
<1>3. 1..n = 1..Len(f)
  BY <1>2
<1> QED BY <1>1, <1>2, <1>3

LEMMA StaysTyped ==
  ASSUME StreamTyped, UNCHANGED <<gate, frame, debt>>,
         link' \in 0..S!PayloadEnd(MaxChunks), total' \in TunnelStates,
         cap' \in Nat, cap' <= link', owner' \in Nat, stage' \in Nat
  PROVE  StreamTyped'
<1>1. gate' \in Seq(Nat) /\ debt' \in Seq(Replies) /\ frame' \in Nat
  BY DEF StreamTyped
<1> QED BY Zenon, <1>1 DEF StreamTyped

(* A message arrives; in the handshake it may complete the first chunks.   *)
LEMMA StreamHandshake ==
  ASSUME StreamKept, NEW n \in Nat \ {0}, NEW ok \in BOOLEAN, S!Handshake(n, ok)
  PROVE  StreamKept'
<1>1. /\ total.at = "handshake" /\ link \in Nat /\ link' = link + n
      /\ S!PayloadEnd(MaxChunks) \in Nat /\ link' \in 0..S!PayloadEnd(MaxChunks)
      /\ gate' = gate /\ frame' = frame /\ debt' = debt
      /\ gate = <<>> /\ cap = 0
  <2>1. S!PayloadEnd(MaxChunks) \in Nat
    BY CoreAssumption DEF S!ShadowsocksStreamAssumption, S!PayloadEnd
  <2>2. /\ total.at = "handshake" /\ link' = link + n
        /\ n \in 1..(S!PayloadEnd(MaxChunks) - link)
        /\ gate' = gate /\ frame' = frame /\ debt' = debt
    BY DEF S!Handshake, S!At
  <2>3. link \in 0..S!PayloadEnd(MaxChunks) /\ gate = <<>> /\ cap = 0
    BY <2>2 DEF StreamKept, StreamTyped
  <2> QED BY <2>1, <2>2, <2>3
<1>2. Len(gate) = 0 /\ gate \in Seq(Nat)
  BY <1>1, NoChunks
<1>3. CASE ok /\ S!Whole(link') > 0
  <2> DEFINE w == S!Whole(link')
  <2>1. /\ w \in Nat /\ w > 0
        /\ S!PayloadEnd(w) <= link' /\ link' < S!PayloadEnd(w + 1) /\ link' >= 2
    BY <1>1, <1>3, WholeChunks
  <2>2. /\ total' = [total EXCEPT !.at = "admit", !.found = TRUE]
        /\ cap' = S!CutAt(link') /\ phase' = TRUE /\ owner' = S!NonceAt(link')
        /\ stage' = w
    BY <1>3 DEF S!Handshake
  <2>3. /\ total' \in TunnelStates /\ total'.at = "admit" /\ total'.found
        /\ total'.why = total.why
    BY <2>2 DEF StreamKept, StreamTyped, TunnelStates
  <2>4. cap' = S!PayloadEnd(w) /\ cap' \in Nat /\ cap' <= link'
    BY <1>1, <2>1, <2>2 DEF S!CutAt, S!PayloadEnd
  <2>5. owner' = 2 * w \/ owner' = 2 * w + 1
    BY <2>1, <2>2 DEF S!NonceAt
  <2>6. owner' = 2 * w => link' < S!LengthEnd(w + 1)
    <3>1. S!LengthEnd(w + 1) \in Nat
      BY <2>1 DEF S!LengthEnd
    <3> QED BY <1>1, <2>1, <2>2, <3>1 DEF S!NonceAt
  <2>7. StreamTyped'
    <3>1. owner' \in Nat /\ stage' \in Nat
      BY <2>1, <2>2, <2>5
    <3> QED BY <1>1, <2>3, <2>4, <3>1, StaysTyped DEF StreamKept
  <2>8. total.why # "bad aead frame"
    BY <1>1 DEF StreamKept
  <2> QED BY <1>1, <1>2, <2>1, <2>2, <2>3, <2>4, <2>5, <2>6, <2>7, <2>8
          DEF StreamKept, InStep
<1>4. CASE ~(ok /\ S!Whole(link') > 0)
  <2>1. UNCHANGED <<total, cap, phase, owner, stage>>
    BY <1>4 DEF S!Handshake
  <2>2. cap' = 0 /\ owner' = 0 /\ stage' = 0 /\ total' \in TunnelStates
    BY <1>1, <2>1 DEF StreamKept, StreamTyped
  <2>3. StreamTyped'
    <3>1. cap' <= link' /\ cap' \in Nat /\ owner' \in Nat /\ stage' \in Nat
      BY <1>1, <2>2
    <3>2. StreamTyped /\ UNCHANGED <<gate, frame, debt>>
      BY <1>1 DEF StreamKept
    <3>3. link' \in 0..S!PayloadEnd(MaxChunks) /\ total' \in TunnelStates
      BY <1>1, <2>2
    <3> QED BY Zenon, <3>1, <3>2, <3>3, StaysTyped
  <2> QED BY <1>1, <1>2, <2>1, <2>3 DEF StreamKept
<1> QED BY <1>3, <1>4

(* The tunnel ends, or moves on, without touching the stream.              *)
LEMMA StreamEnds ==
  ASSUME StreamKept, total.at # "closed",
         UNCHANGED <<link, cap, phase, owner, gate, stage, frame, debt>>,
         NEW why \in {"handshake", "refused", "pump error", "hang up"}, S!Ends(why)
  PROVE  StreamKept'
<1>1. total' \in TunnelStates /\ total'.at = "closed" /\ total'.why = why
      /\ total'.found = total.found
  BY DEF StreamKept, StreamTyped, TunnelStates, S!Ends
<1>2. StreamTyped'
  BY <1>1 DEF StreamKept, StreamTyped
<1> QED BY <1>1, <1>2 DEF StreamKept

LEMMA StreamIsAdmitted ==
  ASSUME StreamKept, NEW ok \in BOOLEAN, S!Admit(ok)
  PROVE  StreamKept'
<1>1. CASE ok
  <2>1. /\ total.at = "admit" /\ total' = [total EXCEPT !.at = "first"]
        /\ UNCHANGED <<link, cap, phase, owner, gate, stage, frame, debt>>
    BY <1>1 DEF S!Admit, S!At
  <2>2. total' \in TunnelStates /\ total'.at = "first" /\ total'.found = total.found
        /\ total'.why = total.why
    BY <2>1 DEF StreamKept, StreamTyped, TunnelStates
  <2>3. StreamTyped'
    BY <2>1, <2>2 DEF StreamKept, StreamTyped
  <2> QED BY <2>1, <2>2, <2>3 DEF StreamKept, InStep
<1>2. CASE ~ok
  BY <1>2, StreamEnds DEF S!Admit, S!At
<1> QED BY <1>1, <1>2

(* The chunks of the handshake come before any other.                      *)
LEMMA StreamBegins ==
  ASSUME StreamKept, S!WriteFirst
  PROVE  StreamKept'
<1>1. /\ total.at = "first" /\ total' = [total EXCEPT !.at = "pumping"]
      /\ gate' = [k \in 1..stage |-> k] /\ stage' = 0
      /\ UNCHANGED <<link, cap, phase, owner, frame, debt>>
  BY DEF S!WriteFirst, S!At
<1>2. total' \in TunnelStates /\ total'.at = "pumping" /\ total'.found = total.found
      /\ total'.why = total.why
  BY <1>1 DEF StreamKept, StreamTyped, TunnelStates
<1>3. /\ stage = S!Whole(link) /\ stage \in Nat /\ InStep(stage) /\ total.found
      /\ total.why # "bad aead frame" /\ cap <= link
      /\ owner = 2 * stage => link < S!LengthEnd(stage + 1)
  BY <1>1 DEF StreamKept, StreamTyped
<1>4. gate' \in Seq(Nat) /\ Len(gate') = stage /\ \A k \in 1..stage : gate'[k] = k
  <2> DEFINE row == [k \in 1..stage |-> k]
  <2>0. stage \in Nat
    BY <1>3
  <2>1. row \in [1..stage -> Nat]
    BY <2>0
  <2>2. row \in Seq(Nat) /\ Len(row) = stage
    BY <2>0, <2>1, RowIsSeq
  <2> QED BY <1>1, <2>1, <2>2
<1>5. StreamTyped'
  BY <1>1, <1>2, <1>4 DEF StreamKept, StreamTyped
<1> QED BY <1>1, <1>2, <1>3, <1>4, <1>5 DEF StreamKept, InStep

LEMMA StreamIsFed ==
  ASSUME StreamKept, NEW n \in Nat \ {0}, S!Feed(n)
  PROVE  StreamKept'
<1>1. /\ total.at = "pumping" /\ link' = link + n
      /\ total' = [total EXCEPT !.at = "decrypting"]
      /\ n \in 1..(S!PayloadEnd(MaxChunks) - link)
      /\ UNCHANGED <<cap, phase, owner, gate, stage, frame, debt>>
  BY DEF S!Feed, S!At
<1>2. S!PayloadEnd(MaxChunks) \in Nat
  BY CoreAssumption DEF S!ShadowsocksStreamAssumption, S!PayloadEnd
<1>3. link \in 0..S!PayloadEnd(MaxChunks) /\ cap \in Nat /\ cap <= link
      /\ owner \in Nat /\ stage \in Nat
  BY DEF StreamKept, StreamTyped
<1>4. link' \in 0..S!PayloadEnd(MaxChunks) /\ cap' <= link' /\ link <= link'
      /\ link \in Nat /\ link' \in Nat
  BY <1>1, <1>2, <1>3
<1>5. total' \in TunnelStates /\ total'.at = "decrypting" /\ total'.found = total.found
      /\ total'.why = total.why
  BY <1>1 DEF StreamKept, StreamTyped, TunnelStates
<1>6. StreamTyped'
  BY <1>1, <1>3, <1>4, <1>5, StaysTyped DEF StreamKept
<1>7. gate # <<>> => S!PayloadEnd(Len(gate)) <= link'
  <2>1. ASSUME gate # <<>> PROVE S!PayloadEnd(Len(gate)) <= link'
    <3>1. S!PayloadEnd(Len(gate)) <= link /\ InStep(Len(gate))
      BY <1>1, <2>1 DEF StreamKept
    <3>2. S!PayloadEnd(Len(gate)) \in Nat
      BY <1>3, <3>1 DEF InStep
    <3> QED BY <1>4, <3>1, <3>2
  <2> QED BY <2>1
<1> QED BY <1>1, <1>5, <1>6, <1>7 DEF StreamKept, InStep

(* A round of the decoder: it waits, takes the length alone, takes a whole *)
(* chunk, or fails because the length was taken already.                   *)
LEMMA StreamIsDecrypted ==
  ASSUME StreamKept, NEW ok \in BOOLEAN, S!DecryptNext(ok)
  PROVE  StreamKept'
<1> DEFINE m == Len(gate)
           k == cap \div 4 + 1
<1>1. /\ total.at = "decrypting"
      /\ UNCHANGED <<link, phase, stage, frame, debt>>
  BY DEF S!DecryptNext, S!At
<1>0. gate \in Seq(Nat) /\ m \in Nat
  BY LenProperties DEF StreamKept, StreamTyped
<1> HIDE DEF m
<1>2. /\ link \in 0..S!PayloadEnd(MaxChunks) /\ link \in Nat /\ cap <= link
      /\ m \in Nat /\ stage \in Nat /\ owner \in Nat /\ cap \in Nat
      /\ total \in TunnelStates
      /\ cap = S!PayloadEnd(m) /\ owner \in {2 * m, 2 * m + 1}
  <2>1. link \in 0..S!PayloadEnd(MaxChunks) /\ cap <= link
        /\ stage \in Nat /\ owner \in Nat /\ cap \in Nat /\ total \in TunnelStates
    BY DEF StreamKept, StreamTyped
  <2>2. InStep(m)
    BY <1>1 DEF StreamKept, m
  <2>3. S!PayloadEnd(MaxChunks) \in Nat
    BY CoreAssumption DEF S!ShadowsocksStreamAssumption, S!PayloadEnd
  <2> QED BY <1>0, <2>1, <2>2, <2>3 DEF InStep
<1>20. /\ total.found /\ total.why # "bad aead frame"
       /\ \A i \in 1..m : gate[i] = i
  BY <1>1 DEF StreamKept, m
<1>3. k = m + 1
  <2>1. \A x \in Nat : (4 * x + 2) \div 4 = x
    OBVIOUS
  <2> QED BY <1>2, <2>1 DEF S!PayloadEnd
<1>4. S!LengthEnd(m + 1) = 4 * m + 4 /\ S!PayloadEnd(m) = 4 * m + 2
      /\ S!PayloadEnd(m + 1) = 4 * m + 6
  BY <1>2 DEF S!LengthEnd, S!PayloadEnd
<1>5. \/ /\ link < S!LengthEnd(m + 1)
         /\ total' = [total EXCEPT !.at = "pumping"]
         /\ UNCHANGED <<cap, owner, gate>>
      \/ /\ link >= S!LengthEnd(m + 1) /\ owner # 2 * m
         /\ S!Ends("bad aead frame")
         /\ UNCHANGED <<cap, owner, gate>>
      \/ /\ link \in S!LengthEnd(m + 1)..(S!PayloadEnd(m + 1) - 1) /\ owner = 2 * m
         /\ owner' = owner + 1
         /\ total' = [total EXCEPT !.at = "pumping"]
         /\ UNCHANGED <<cap, gate>>
      \/ /\ link >= S!PayloadEnd(m + 1) /\ owner = 2 * m
         /\ owner' = owner + 2 /\ cap' = S!PayloadEnd(m + 1)
         /\ gate' = Append(gate, m + 1) /\ total' = total
      \/ /\ link >= S!PayloadEnd(m + 1) /\ owner = 2 * m
         /\ owner' = owner + 2 /\ cap' = S!PayloadEnd(m + 1)
         /\ S!Ends("quota") /\ gate' = gate
  <2> HIDE DEF k
  <2>1. k - 1 = m
    BY <1>0, <1>3
  <2> QED BY <1>3, <2>1 DEF S!DecryptNext, k
<1>6. gate # <<>> => S!PayloadEnd(m) <= link
  BY DEF StreamKept, m
<1>7. debt \in Seq(Replies) /\ frame \in Nat /\ frame = 2 * Len(debt)
      /\ \A i \in DOMAIN debt : debt[i].nonce = 2 * (i - 1) /\ (debt[i].salt <=> i = 1)
  BY DEF StreamKept, StreamTyped
<1>8. cap # 0 /\ phase
  <2>1. cap # 0
    BY <1>2, <1>4
  <2> QED BY <2>1 DEF StreamKept
<1>9. ASSUME link < S!LengthEnd(m + 1), total' = [total EXCEPT !.at = "pumping"],
             UNCHANGED <<cap, owner, gate>>
      PROVE  StreamKept'
  <2>1. total' \in TunnelStates /\ total'.at = "pumping" /\ total'.found = total.found
        /\ total'.why = total.why
    BY <1>2, <1>20, <1>9 DEF TunnelStates
  <2>2. StreamTyped'
    BY <1>1, <1>2, <1>9, <2>1, StaysTyped DEF StreamKept
  <2> QED BY <1>1, <1>2, <1>20, <1>6, <1>7, <1>8, <1>9, <2>1, <2>2 DEF StreamKept, InStep, m
<1>10. ASSUME owner # 2 * m, S!Ends("bad aead frame"), UNCHANGED <<cap, owner, gate>>
       PROVE  StreamKept'
  <2>1. total' \in TunnelStates /\ total'.at = "closed" /\ total'.found = total.found
    BY <1>2, <1>10 DEF TunnelStates, S!Ends
  <2>2. StreamTyped'
    BY <1>1, <1>2, <1>10, <2>1, StaysTyped DEF StreamKept
  <2>3. owner' % 2 = 1
    <3>1. \A x \in Nat : (2 * x + 1) % 2 = 1
      OBVIOUS
    <3> QED BY <1>2, <1>10, <3>1
  <2> QED BY <1>1, <1>2, <1>20, <1>6, <1>7, <1>8, <1>10, <2>1, <2>2, <2>3 DEF StreamKept, m
<1>11. ASSUME owner' = 2 * m + 1, total' = [total EXCEPT !.at = "pumping"],
              UNCHANGED <<cap, gate>>
       PROVE  StreamKept'
  <2>1. total' \in TunnelStates /\ total'.at = "pumping" /\ total'.found = total.found
        /\ total'.why = total.why
    BY <1>2, <1>20, <1>11 DEF TunnelStates
  <2>2. owner' \in Nat /\ owner' # 2 * m /\ owner' \in {2 * m, 2 * m + 1}
    BY <1>2, <1>11
  <2>3. StreamTyped'
    BY <1>1, <1>2, <1>11, <2>1, <2>2, StaysTyped DEF StreamKept
  <2> QED BY <1>1, <1>2, <1>20, <1>6, <1>7, <1>8, <1>11, <2>1, <2>2, <2>3
          DEF StreamKept, InStep, m
<1>12. ASSUME link >= S!PayloadEnd(m + 1), owner' = 2 * m + 2, cap' = S!PayloadEnd(m + 1),
              gate' = Append(gate, m + 1), total' = total
       PROVE  StreamKept'
  <2>1. gate' \in Seq(Nat) /\ Len(gate') = m + 1 /\ \A i \in 1..(m + 1) : gate'[i] = i
    <3>1. m + 1 \in Nat
      BY <1>0
    <3>2. /\ gate' \in Seq(Nat) /\ Len(gate') = m + 1
          /\ \A i \in 1..m : gate'[i] = gate[i]
          /\ gate'[m + 1] = m + 1
      BY <1>0, <1>12, <3>1, AppendProperties DEF m
    <3>3. \A i \in 1..(m + 1) : i \in 1..m \/ i = m + 1
      BY <1>0
    <3> QED BY <1>20, <3>2, <3>3
  <2>2. cap' \in Nat /\ cap' <= link' /\ owner' \in Nat
    BY <1>1, <1>2, <1>4, <1>12
  <2>3. StreamTyped'
    BY Zenon, <1>1, <1>2, <1>7, <1>12, <2>1, <2>2 DEF StreamTyped
  <2>4. owner' = 2 * (m + 1)
    BY <1>2, <1>12
  <2> QED BY <1>1, <1>2, <1>7, <1>8, <1>12, <2>1, <2>2, <2>3, <2>4 DEF StreamKept, InStep, m
<1>13. ASSUME link >= S!PayloadEnd(m + 1), owner' = 2 * m + 2, cap' = S!PayloadEnd(m + 1),
              S!Ends("quota"), gate' = gate
       PROVE  StreamKept'
  <2>1. total' \in TunnelStates /\ total'.at = "closed" /\ total'.found = total.found
        /\ total'.why = "quota"
    BY <1>2, <1>13 DEF TunnelStates, S!Ends
  <2>2. cap' \in Nat /\ cap' <= link' /\ owner' \in Nat
    BY <1>1, <1>2, <1>4, <1>13
  <2>3. StreamTyped'
    BY <1>1, <1>2, <1>13, <2>1, <2>2, StaysTyped DEF StreamKept
  <2> QED BY <1>1, <1>2, <1>20, <1>6, <1>7, <1>8, <1>13, <2>1, <2>3 DEF StreamKept, m
<1> QED BY <1>2, <1>5, <1>9, <1>10, <1>11, <1>12, <1>13

LEMMA StreamIsAnswered ==
  ASSUME StreamKept, NEW size \in S!Sizes, S!EncryptToWs(size)
  PROVE  StreamKept'
<1>1. total.at \in {"pumping", "decrypting"}
      /\ UNCHANGED <<link, cap, phase, owner, gate, stage>>
  BY DEF S!EncryptToWs, S!Pumping
<1>2. CASE size = "huge"
  BY <1>1, <1>2, StreamEnds DEF S!EncryptToWs
<1>3. CASE size # "huge"
  <2> DEFINE r == [size |-> size, salt |-> debt = <<>>, nonce |-> frame]
  <2>1. debt' = Append(debt, r) /\ frame' = frame + 2 /\ total' = total
    BY <1>3 DEF S!EncryptToWs
  <2>2. debt \in Seq(Replies) /\ frame \in Nat /\ frame = 2 * Len(debt) /\ Len(debt) \in Nat
        /\ \A i \in DOMAIN debt : debt[i].nonce = 2 * (i - 1) /\ (debt[i].salt <=> i = 1)
    BY LenProperties DEF StreamKept, StreamTyped
  <2>3. debt = <<>> <=> Len(debt) = 0
    BY <2>2, EmptySeq
  <2>4. r \in Replies /\ r.nonce = 2 * Len(debt) /\ (r.salt <=> Len(debt) = 0)
    BY <2>2, <2>3 DEF Replies
  <2> HIDE DEF r
  <2>5. /\ debt' \in Seq(Replies) /\ Len(debt') = Len(debt) + 1
        /\ \A i \in 1..Len(debt) : debt'[i] = debt[i]
        /\ debt'[Len(debt) + 1] = r
    BY <2>1, <2>2, <2>4, AppendProperties
  <2>6. DOMAIN debt = 1..Len(debt) /\ DOMAIN debt' = 1..(Len(debt) + 1)
    BY <2>2, <2>5, LenProperties
  <2>7. ASSUME NEW i \in DOMAIN debt'
        PROVE  debt'[i].nonce = 2 * (i - 1) /\ (debt'[i].salt <=> i = 1)
    <3>1. CASE i \in 1..Len(debt)
      BY <2>2, <2>5, <2>6, <3>1
    <3>2. CASE i = Len(debt) + 1
      <4>1. debt'[i].nonce = 2 * Len(debt) /\ (debt'[i].salt <=> Len(debt) = 0)
        BY <2>4, <2>5, <3>2
      <4> QED BY <2>2, <3>2, <4>1
    <3> QED BY <2>2, <2>6, <3>1, <3>2
  <2>8. frame' = 2 * Len(debt') /\ frame' \in Nat
    BY <2>1, <2>2, <2>5
  <2>9. StreamTyped'
    BY Zenon, <1>1, <2>1, <2>5, <2>8 DEF StreamKept, StreamTyped
  <2>10. /\ total.found /\ phase /\ InStep(Len(gate)) /\ total.why # "bad aead frame"
         /\ total.at = "pumping" /\ owner = 2 * Len(gate)
              => link < S!LengthEnd(Len(gate) + 1)
         /\ \A k \in 1..Len(gate) : gate[k] = k
         /\ gate # <<>> => S!PayloadEnd(Len(gate)) <= link
    <3>1. cap # 0
      <4>1. cap = S!PayloadEnd(Len(gate)) /\ gate \in Seq(Nat)
        BY <1>1 DEF StreamKept, StreamTyped, InStep
      <4>2. Len(gate) \in Nat
        BY <4>1, LenProperties
      <4> QED BY <4>1, <4>2 DEF S!PayloadEnd
    <3> QED BY <1>1, <3>1 DEF StreamKept
  <2> QED BY <1>1, <2>1, <2>7, <2>8, <2>9, <2>10 DEF StreamKept, InStep
<1> QED BY <1>2, <1>3

LEMMA StreamStep == StreamInv /\ [CoreNext]_coreVars => StreamInv'
<1> SUFFICES ASSUME StreamInv, [CoreNext]_coreVars, focus' = "shadowsocks"
             PROVE  StreamKept'
  BY DEF StreamInv
<1>1. focus = "shadowsocks"
  BY DEF CoreNext, In, coreVars
<1>2. StreamKept
  BY <1>1 DEF StreamInv
<1>3. CASE UNCHANGED coreVars
  <2>1. UNCHANGED <<link, total, cap, phase, owner, gate, stage, frame, debt>>
    BY <1>3 DEF coreVars, vars, gateVars, histVars
  <2> QED BY <1>2, <2>1 DEF StreamKept, StreamTyped, InStep
<1>4. CASE CoreNext
  <2>1. \A n \in 1..S!PayloadEnd(MaxChunks) : n \in Nat \ {0}
    BY CoreAssumption DEF S!ShadowsocksStreamAssumption, S!PayloadEnd
  <2>2. \/ \E n \in 1..S!PayloadEnd(MaxChunks), ok \in BOOLEAN : S!Handshake(n, ok)
        \/ S!HandshakeEnds
        \/ \E ok \in BOOLEAN : S!Admit(ok)
        \/ S!WriteFirst
        \/ \E n \in 1..S!PayloadEnd(MaxChunks) : S!Feed(n)
        \/ \E ok \in BOOLEAN : S!DecryptNext(ok)
        \/ \E size \in S!Sizes : S!EncryptToWs(size)
        \/ S!SsHangUp
    BY <1>1, <1>4 DEF CoreNext, In
  <2>3. CASE S!HandshakeEnds
    BY <1>2, <2>3, StreamEnds DEF S!HandshakeEnds, S!At
  <2>4. CASE S!SsHangUp
    BY <1>2, <2>4, StreamEnds DEF S!SsHangUp, S!Pumping
  <2> QED BY <1>2, <2>1, <2>2, <2>3, <2>4, StreamHandshake, StreamIsAdmitted, StreamBegins,
             StreamIsFed, StreamIsDecrypted, StreamIsAnswered
<1> QED BY <1>3, <1>4

(* However the client's messages cut its stream, the target gets its chunks*)
(* in order from the first one on and only after the link was admitted, a  *)
(* stream is refused as badly framed only when a message ended between a   *)
(* length and its payload, and no nonce of the answer is used twice.       *)
THEOREM StreamIsReadInOrder == CoreSpec => []StreamsHold
<1>1. StreamInv => StreamsHold
  <2> SUFFICES ASSUME StreamInv, focus = "shadowsocks" PROVE S!ShadowsocksHolds
    BY DEF StreamsHold
  <2>1. StreamKept
    BY DEF StreamInv
  <2>2. S!SsTypeOK
    BY <2>1 DEF StreamKept, StreamTyped, TunnelStates, S!SsTypeOK
  <2>3. gate \in Seq(Nat) /\ Len(gate) \in Nat
    BY <2>1, LenProperties DEF StreamKept, StreamTyped
  <2>4. gate = [k \in 1..Len(gate) |-> k]
    <3>1. gate = [k \in 1..Len(gate) |-> gate[k]]
      BY <2>3, LenProperties
    <3>2. \A k \in 1..Len(gate) : gate[k] = k
      BY <2>1 DEF StreamKept
    <3> QED BY <3>1, <3>2
  <2>5. ASSUME total.at = "pumping", owner % 2 = 0
        PROVE  Len(gate) = S!Whole(link)
    <3>1. /\ cap = S!PayloadEnd(Len(gate)) /\ cap <= link /\ link \in Nat
          /\ owner \in {2 * Len(gate), 2 * Len(gate) + 1}
      <4>1. S!PayloadEnd(MaxChunks) \in Nat
        BY CoreAssumption DEF S!ShadowsocksStreamAssumption, S!PayloadEnd
      <4>2. link \in 0..S!PayloadEnd(MaxChunks) /\ cap <= link
        BY <2>1 DEF StreamKept, StreamTyped
      <4>3. InStep(Len(gate))
        BY <2>1, <2>5 DEF StreamKept
      <4> QED BY <4>1, <4>2, <4>3 DEF InStep
    <3>2. \A x \in Nat : (2 * x + 1) % 2 = 1
      OBVIOUS
    <3>3. owner = 2 * Len(gate)
      BY <2>3, <2>5, <3>1, <3>2
    <3>4. link < S!LengthEnd(Len(gate) + 1)
      BY <2>1, <2>5, <3>3 DEF StreamKept
    <3>5. link < S!PayloadEnd(Len(gate) + 1)
      BY <2>3, <3>1, <3>4 DEF S!LengthEnd, S!PayloadEnd
    <3> QED BY <2>3, <3>1, <3>5, WholeBetween
  <2>6. S!StreamIsIntact
    BY <2>1, <2>4, <2>5 DEF StreamKept, S!StreamIsIntact, S!At
  <2>7. S!MisfedOnlyInside
    BY <2>1 DEF StreamKept, S!MisfedOnlyInside
  <2> QED BY <2>2, <2>6, <2>7 DEF S!ShadowsocksHolds
<1> QED BY <1>1, StreamStart, StreamStep, PTL DEF CoreSpec

-----------------------------------------------------------------------------
(* The uploads of XHTTP sessions: link is its sess, total its up, cap its  *)
(* pump, phase its queue, owner its req, gate its reader, stage its reaping*)
(* and frame its acked.                                                    *)
LEMMA SessionSets ==
  \A A : X!Cardinality(A) = Cardinality(A)
BY Zenon DEF X!Cardinality, Cardinality, X!IsFiniteSet, IsFiniteSet

(* What a packet sets free is the interval of packets up to the first one  *)
(* that has not arrived.                                                   *)
LEMMA RunIsInterval ==
  ASSUME NEW s \in X!Sessions, NEW q \in X!Packets, link[s].buf \subseteq X!Packets
  PROVE  \E n \in Nat \ {0} :
           /\ X!Cardinality(X!Run(s, q)) = n /\ X!Run(s, q) = q..(q + n - 1)
           /\ q + n \notin link[s].buf
<1> DEFINE B == link[s].buf
           A == X!Run(s, q)
           U == {x \in (q + 1)..(MaxSeq + 1) : x \notin B}
<1>1. MaxSeq \in Nat /\ q \in 0..MaxSeq /\ B \subseteq 0..MaxSeq
  BY CoreAssumption DEF X!XhttpSessionAssumption, X!Packets
<1>2. A = {q} \cup {r \in B : r > q /\ \A m \in (q + 1)..r : m \in B}
  BY DEF X!Run
<1> HIDE DEF B, A
<1>3. U \subseteq Nat /\ MaxSeq + 1 \in U
  BY <1>1
<1>4. PICK m \in U : \A k \in U : m <= k
  <2>1. U # {}
    BY <1>3
  <2> QED BY <1>3, <2>1, LeastNatural
<1>5. m \in Nat /\ m > q /\ m \notin B /\ q \in Nat
  BY <1>1, <1>3, <1>4
<1>6. \A x \in (q + 1)..(m - 1) : x \in B
  BY <1>1, <1>4, <1>5
<1>7. A = q..(m - 1)
  <2>1. ASSUME NEW x \in A PROVE x \in q..(m - 1)
    BY <1>1, <1>2, <1>5, <2>1
  <2>2. ASSUME NEW x \in q..(m - 1) PROVE x \in A
    BY <1>1, <1>2, <1>5, <1>6, <2>2
  <2> QED BY <2>1, <2>2
<1>8. Cardinality(q..(m - 1)) = m - q
  BY <1>1, <1>5, FS_Interval
<1>9. /\ m - q \in Nat \ {0} /\ q + (m - q) - 1 = m - 1 /\ q + (m - q) = m
  BY <1>1, <1>5
<1> QED BY <1>5, <1>7, <1>8, <1>9, SessionSets DEF A, B

(* An upstream that was dialled for nobody has received nothing; the       *)
(* writer of a session has received the packets below its turn, and the    *)
(* packet whose turn it is has not arrived; only packet 0 dials.           *)
WriterKept(s) ==
  link[s].writer # None =>
    /\ total[link[s].writer].sess = s
    /\ Len(total[link[s].writer].got) = link[s].next
    /\ link[s].next \notin link[s].buf

(* What was acknowledged waits in the buffer or has reached an upstream,   *)
(* at every stage of the session's life.                                   *)
AckedKept(s) ==
  \A q \in frame[s] :
    \/ q \in link[s].buf
    \/ \E u \in Upstreams : total[u].sess = s /\ q < Len(total[u].got)

SessionKept ==
  /\ X!TypeOK
  /\ \A u \in Upstreams : total[u].sess = None => total[u].got = <<>>
  /\ \A u \in Upstreams : \A i \in 1..Len(total[u].got) : total[u].got[i] = i - 1
  /\ \A h \in Uploads : owner[h].stage = "dial" => owner[h].seq = 0
  /\ \A s \in X!Sessions : WriterKept(s) /\ AckedKept(s)

SessionInv == focus = "session" => SessionKept

LEMMA SessionStart == CoreInit => SessionInv
<1> SUFFICES ASSUME CoreInit, focus = "session" PROVE SessionKept
  BY DEF SessionInv
<1>1. X!Init
  BY DEF CoreInit
<1>2. MaxSessions \in Nat \ {0} /\ MaxSeq \in Nat /\ BufBytes \in Nat
  BY CoreAssumption DEF X!XhttpSessionAssumption
<1>3. /\ \A s \in X!Sessions : link[s] = X!NewSession /\ phase[s] = <<>> /\ frame[s] = {}
      /\ \A u \in Upstreams : total[u] = X!NewUpstream
      /\ \A h \in Uploads : owner[h] = X!IdleRequest
  BY <1>1 DEF X!Init
<1>4. X!NewSession \in X!SessionRecord
  BY <1>2 DEF X!NewSession, X!SessionRecord
<1>5. X!NewUpstream \in X!UpstreamRecord
  <2>1. <<>> \in Seq(X!Packets)
    BY EmptySeq
  <2> QED BY <2>1 DEF X!NewUpstream, X!UpstreamRecord
<1>6. X!IdleRequest \in X!RequestRecord
  BY <1>2 DEF X!IdleRequest, X!RequestRecord, X!Sessions, X!Packets
<1>7. X!TypeOK
  <2>1. /\ link \in [X!Sessions -> X!SessionRecord]
        /\ total \in [Upstreams -> X!UpstreamRecord]
        /\ owner \in [Uploads -> X!RequestRecord]
    BY <1>1, <1>4, <1>5, <1>6 DEF X!Init
  <2>2. /\ cap \in [Upstreams -> {"none", "read", "put", "over", "done"}]
        /\ gate \in [{} -> X!Sessions \cup {None}]
        /\ frame \in [X!Sessions -> SUBSET X!Packets]
    BY <1>1 DEF X!Init
  <2>3. stage \in BOOLEAN
    BY Zenon, <1>1 DEF X!Init
  <2>4. phase \in [X!Sessions -> Seq({"data", "end"})]
    <3>1. <<>> \in Seq({"data", "end"})
      BY EmptySeq
    <3> QED BY <1>1, <3>1 DEF X!Init
  <2> QED BY Zenon, <2>1, <2>2, <2>3, <2>4 DEF X!TypeOK
<1>8. \A u \in Upstreams : total[u].got = <<>> /\ Len(total[u].got) = 0
  BY <1>3, EmptySeq DEF X!NewUpstream
<1>9. \A h \in Uploads : owner[h].stage = "idle"
  BY <1>3 DEF X!IdleRequest
<1>10. \A s \in X!Sessions : WriterKept(s) /\ AckedKept(s)
  BY <1>3 DEF X!NewSession, WriterKept, AckedKept
<1> QED BY <1>7, <1>8, <1>9, <1>10 DEF SessionKept

(* A step that leaves the writers, their turn and what they received.      *)
SameOrder ==
  /\ \A s \in X!Sessions :
       /\ link'[s].writer = link[s].writer
       /\ link'[s].buf = link[s].buf
       /\ link'[s].next = link[s].next
  /\ \A u \in Upstreams :
       /\ total'[u].sess = total[u].sess
       /\ total'[u].got = total[u].got
  /\ frame' = frame

LEMMA OrderIsKept ==
  ASSUME SessionKept, X!TypeOK', SameOrder,
         \A h \in Uploads : owner'[h].stage = "dial" => owner'[h].seq = 0
  PROVE  SessionKept'
<1>1. \A s \in X!Sessions : link[s].writer # None => link[s].writer \in Upstreams
  BY DEF SessionKept, X!TypeOK, X!SessionRecord
<1>2. \A s \in X!Sessions : WriterKept(s)'
  BY <1>1 DEF SessionKept, SameOrder, WriterKept
<1>3. \A s \in X!Sessions : AckedKept(s)'
  BY DEF SessionKept, SameOrder, AckedKept
<1> QED BY <1>2, <1>3 DEF SessionKept, SameOrder

(* The parts of the type invariant, for the step that changes few of them. *)
LEMMA SessionTypes ==
  ASSUME SessionKept,
         /\ link' = link \/ link' \in [X!Sessions -> X!SessionRecord]
         /\ total' = total
              \/ total' \in [Upstreams -> X!UpstreamRecord]
         /\ cap' = cap \/ cap' \in [Upstreams -> {"none", "read", "put", "over", "done"}]
         /\ phase' = phase \/ phase' \in [X!Sessions -> Seq({"data", "end"})]
         /\ owner' = owner
              \/ owner' \in [Uploads -> X!RequestRecord]
         /\ gate' = gate
         /\ stage' = stage \/ stage' = TRUE \/ stage' = FALSE
         /\ frame' = frame \/ frame' \in [X!Sessions -> SUBSET X!Packets]
  PROVE  X!TypeOK'
BY Zenon DEF SessionKept, X!TypeOK

LEMMA SessionFacts ==
  ASSUME SessionKept
  PROVE  /\ link \in [X!Sessions -> X!SessionRecord]
         /\ total \in [Upstreams -> X!UpstreamRecord]
         /\ cap \in [Upstreams -> {"none", "read", "put", "over", "done"}]
         /\ owner \in [Uploads -> X!RequestRecord]
         /\ phase \in [X!Sessions -> Seq({"data", "end"})]
         /\ frame \in [X!Sessions -> SUBSET X!Packets]
         /\ \A h \in Uploads : owner[h].stage = "dial" => owner[h].seq = 0
         /\ 1 \in X!Sessions /\ 0 \in X!Packets
<1>1. MaxSessions \in Nat \ {0} /\ MaxSeq \in Nat
  BY CoreAssumption DEF X!XhttpSessionAssumption
<1> QED BY <1>1 DEF SessionKept, X!TypeOK, X!Sessions, X!Packets

(* What a step may do to a session without touching its order.             *)
SessionsMove ==
  /\ link' \in [X!Sessions -> X!SessionRecord]
  /\ \A s \in X!Sessions :
       /\ link'[s].writer = link[s].writer
       /\ link'[s].buf = link[s].buf
       /\ link'[s].next = link[s].next

LEMMA SessionGot ==
  ASSUME SessionKept, NEW s \in X!Sessions, X!GetOrCreate(s) PROVE SessionsMove
<1>1. link \in [X!Sessions -> X!SessionRecord]
  BY SessionFacts
<1> DEFINE r == [link[s] EXCEPT !.stage = "live", !.fresh = TRUE]
<1>2. link' = [link EXCEPT ![s] = r]
  BY DEF X!GetOrCreate
<1>3. /\ r \in X!SessionRecord
      /\ r.writer = link[s].writer /\ r.buf = link[s].buf /\ r.next = link[s].next
  BY <1>1 DEF X!SessionRecord
<1> HIDE DEF r
<1> QED BY <1>1, <1>2, <1>3 DEF SessionsMove

LEMMA EndIsTold ==
  ASSUME SessionKept, NEW s \in X!Sessions, X!Sentinel(s)
  PROVE  phase' \in [X!Sessions -> Seq({"data", "end"})]
<1>1. phase \in [X!Sessions -> Seq({"data", "end"})]
  BY SessionFacts
<1>2. Append(phase[s], "end") \in Seq({"data", "end"})
  BY <1>1, AppendProperties
<1>3. \/ phase' = [phase EXCEPT ![s] = Append(phase[s], "end")]
      \/ phase' = [phase EXCEPT ![s] = phase[s]]
  BY DEF X!Sentinel
<1> QED BY <1>1, <1>2, <1>3

LEMMA SessionTornDown ==
  ASSUME SessionKept, NEW t \in X!Tasks, X!TearDown(t)
  PROVE  SessionsMove /\ phase' \in [X!Sessions -> Seq({"data", "end"})]
<1>1. link \in [X!Sessions -> X!SessionRecord]
  BY SessionFacts
<1>2. CASE UNCHANGED <<link, phase>>
  BY <1>1, <1>2, SessionFacts DEF SessionsMove
<1>3. ASSUME NEW s \in X!Sessions, link[s].writer = None, X!Sentinel(s),
             link' = [link EXCEPT ![s].stage = "gone", ![s].fresh = FALSE]
      PROVE  SessionsMove /\ phase' \in [X!Sessions -> Seq({"data", "end"})]
  <2>1. [link[s] EXCEPT !.stage = "gone", !.fresh = FALSE] \in X!SessionRecord
    BY <1>1 DEF X!SessionRecord
  <2>2. SessionsMove
    BY <1>1, <1>3, <2>1 DEF SessionsMove, X!SessionRecord
  <2> QED BY <1>3, <2>2, EndIsTold
<1>4. ASSUME NEW s \in X!Sessions, phase' = phase,
             link' = [link EXCEPT ![s].stage = "cancel", ![s].fresh = FALSE,
                                  ![s].by = t, ![s].task = link[s].writer]
      PROVE  SessionsMove /\ phase' \in [X!Sessions -> Seq({"data", "end"})]
  <2>1. [link[s] EXCEPT !.stage = "cancel", !.fresh = FALSE, !.by = t,
                        !.task = link[s].writer]
          \in X!SessionRecord
    BY <1>1 DEF X!SessionRecord
  <2>2. SessionsMove
    BY <1>1, <1>4, <2>1 DEF SessionsMove, X!SessionRecord
  <2> QED BY <1>4, <2>2, SessionFacts
<1> QED BY <1>2, <1>3, <1>4 DEF X!TearDown

LEMMA Closed ==
  ASSUME NEW r \in X!UpstreamRecord
  PROVE  /\ [r EXCEPT !.open = FALSE] \in X!UpstreamRecord
         /\ [r EXCEPT !.open = FALSE].sess = r.sess
         /\ [r EXCEPT !.open = FALSE].got = r.got
<1> DEFINE Gots == Seq(X!Packets)
<1>1. X!UpstreamRecord = [open : BOOLEAN, sess : X!Sessions \cup {None}, late : BOOLEAN,
                          got : Gots, chunks : Nat]
  BY DEF X!UpstreamRecord
<1> HIDE DEF Gots
<1> QED BY <1>1

(* Steps that change neither a writer nor what an upstream received.       *)
LEMMA SessionMoves ==
  ASSUME SessionKept, SessionsMove \/ link' = link,
         \/ total' = total
         \/ \E w : total' = [total EXCEPT ![w].open = FALSE],
         cap' = cap \/ cap' \in [Upstreams -> {"none", "read", "put", "over", "done"}],
         phase' = phase \/ phase' \in [X!Sessions -> Seq({"data", "end"})],
         \/ owner' = owner
         \/ \E h \in Uploads, r \in [stage : {"idle", "body", "drain"},
                                     sess : X!Sessions, seq : X!Packets] :
              owner' = [owner EXCEPT ![h] = r],
         gate' = gate, stage' = stage \/ stage' = TRUE \/ stage' = FALSE, frame' = frame
  PROVE  SessionKept'
<1>1. /\ total \in [Upstreams -> X!UpstreamRecord]
      /\ owner \in [Uploads -> X!RequestRecord]
      /\ \A h \in Uploads : owner[h].stage = "dial" => owner[h].seq = 0
  BY SessionFacts
<1>2. /\ total' = total \/ total' \in [Upstreams -> X!UpstreamRecord]
      /\ \A u \in Upstreams :
           total'[u].sess = total[u].sess /\ total'[u].got = total[u].got
  <2>1. \A u \in Upstreams :
          /\ [total[u] EXCEPT !.open = FALSE] \in X!UpstreamRecord
          /\ [total[u] EXCEPT !.open = FALSE].sess = total[u].sess
          /\ [total[u] EXCEPT !.open = FALSE].got = total[u].got
    BY <1>1, Closed
  <2>2. ASSUME NEW w, total' = [total EXCEPT ![w].open = FALSE]
        PROVE  \A u \in Upstreams :
                 total'[u] = IF u = w THEN [total[u] EXCEPT !.open = FALSE] ELSE total[u]
    BY <1>1, <2>2
  <2>3. ASSUME NEW w, total' = [total EXCEPT ![w].open = FALSE]
        PROVE  DOMAIN total' = Upstreams /\ total' = [u \in Upstreams |-> total'[u]]
    BY <1>1, <2>3
  <2>4. CASE total' = total
    BY <2>4
  <2>5. ASSUME NEW w, total' = [total EXCEPT ![w].open = FALSE]
        PROVE  /\ total' \in [Upstreams -> X!UpstreamRecord]
               /\ \A u \in Upstreams :
                    total'[u].sess = total[u].sess /\ total'[u].got = total[u].got
    BY <1>1, <2>1, <2>2, <2>3, <2>5
  <2> QED BY <2>4, <2>5
<1>4. /\ owner' = owner \/ owner' \in [Uploads -> X!RequestRecord]
      /\ \A h \in Uploads : owner'[h].stage = "dial" => owner'[h].seq = 0
  <2>1. \A r \in [stage : {"idle", "body", "drain"}, sess : X!Sessions, seq : X!Packets] :
          r \in X!RequestRecord /\ r.stage # "dial"
    BY DEF X!RequestRecord
  <2> QED BY <1>1, <2>1
<1>5. link' = link \/ link' \in [X!Sessions -> X!SessionRecord]
  BY DEF SessionsMove
<1>6. X!TypeOK'
  BY Zenon, <1>2, <1>4, <1>5, SessionTypes
<1>7. SameOrder
  BY <1>2 DEF SessionsMove, SameOrder
<1> QED BY <1>4, <1>6, <1>7, OrderIsKept

LEMMA SessionUpload ==
  ASSUME SessionKept, NEW h \in Uploads, NEW q \in X!Packets, NEW s \in X!Sessions,
         X!Upload(h, q, s)
  PROVE  SessionKept'
<1>1. SessionsMove
  BY SessionGot DEF X!Upload
<1>2. [stage |-> "body", sess |-> s, seq |-> q]
        \in [stage : {"idle", "body", "drain"}, sess : X!Sessions, seq : X!Packets]
  OBVIOUS
<1> QED BY <1>1, <1>2, SessionMoves DEF X!Upload

(* A handler that is idle again, or goes on to drain.                      *)
LEMMA SessionIdles ==
  ASSUME SessionKept
  PROVE  /\ X!IdleRequest \in [stage : {"idle", "body", "drain"},
                               sess : X!Sessions, seq : X!Packets]
         /\ \A h \in Uploads :
              /\ owner[h].sess \in X!Sessions /\ owner[h].seq \in X!Packets
              /\ [owner[h] EXCEPT !.stage = "drain"]
                    \in [stage : {"idle", "body", "drain"}, sess : X!Sessions, seq : X!Packets]
<1>1. \A r \in X!RequestRecord :
        /\ r.sess \in X!Sessions /\ r.seq \in X!Packets
        /\ [r EXCEPT !.stage = "drain"]
              \in [stage : {"idle", "body", "drain"}, sess : X!Sessions, seq : X!Packets]
  BY DEF X!RequestRecord
<1>2. X!IdleRequest \in [stage : {"idle", "body", "drain"},
                         sess : X!Sessions, seq : X!Packets]
  BY SessionFacts DEF X!IdleRequest
<1>3. \A h \in Uploads : owner[h] \in X!RequestRecord
  BY SessionFacts
<1> QED BY <1>1, <1>2, <1>3

LEMMA SessionFails ==
  ASSUME SessionKept, NEW h \in Uploads, X!Fail(h)
  PROVE  SessionKept'
<1>1. h \in X!Tasks
  BY DEF X!Tasks
<1>2. SessionsMove /\ phase' \in [X!Sessions -> Seq({"data", "end"})]
  BY <1>1, SessionTornDown DEF X!Fail
<1> QED BY <1>2, SessionMoves, SessionIdles DEF X!Fail

LEMMA SessionIsIdle ==
  ASSUME SessionKept, NEW h \in Uploads, X!BodyLost(h) \/ X!Drained(h)
  PROVE  SessionKept'
BY SessionMoves, SessionIdles DEF X!BodyLost, X!Drained

LEMMA SessionDials ==
  ASSUME SessionKept, NEW h \in Uploads, X!Dial(h)
  PROVE  SessionKept'
<1>1. /\ owner \in [Uploads -> X!RequestRecord]
      /\ \A g \in Uploads : owner[g].stage = "dial" => owner[g].seq = 0
  BY SessionFacts
<1>2. owner[h].seq = 0 /\ owner' = [owner EXCEPT ![h].stage = "dial"]
      /\ UNCHANGED <<link, total, cap, phase, gate, stage, frame>>
  BY DEF X!Dial
<1>3. /\ owner' \in [Uploads -> X!RequestRecord]
      /\ \A g \in Uploads : owner'[g].stage = "dial" => owner'[g].seq = 0
  <2>1. /\ [owner[h] EXCEPT !.stage = "dial"] \in X!RequestRecord
        /\ [owner[h] EXCEPT !.stage = "dial"].seq = 0
    BY <1>1, <1>2 DEF X!RequestRecord
  <2> QED BY <1>1, <1>2, <2>1
<1>4. X!TypeOK'
  BY Zenon, <1>2, <1>3, SessionTypes
<1> QED BY <1>2, <1>3, <1>4, OrderIsKept DEF SameOrder

LEMMA SessionPumpOver ==
  ASSUME SessionKept, NEW u \in Upstreams, X!PumpOver(u)
  PROVE  SessionKept'
<1>1. u \in X!Tasks
  BY DEF X!Tasks
<1>2. SessionsMove /\ phase' \in [X!Sessions -> Seq({"data", "end"})]
  BY <1>1, SessionTornDown DEF X!PumpOver
<1>3. cap' \in [Upstreams -> {"none", "read", "put", "over", "done"}]
  BY SessionFacts DEF X!PumpOver
<1> QED BY <1>2, <1>3, SessionMoves DEF X!PumpOver

LEMMA SessionStages ==
  ASSUME SessionKept, NEW s \in X!Sessions,
         X!CloseWriter(s) \/ X!FinishTeardown(s) \/ X!Age(s) \/ X!FindStale(s)
  PROVE  SessionKept'
<1>1. link \in [X!Sessions -> X!SessionRecord]
      /\ cap \in [Upstreams -> {"none", "read", "put", "over", "done"}]
  BY SessionFacts
<1>2. CASE X!CloseWriter(s)
  <2>1. SessionsMove
    BY <1>1, <1>2 DEF X!CloseWriter, SessionsMove, X!SessionRecord
  <2> QED BY <1>2, <2>1, SessionMoves DEF X!CloseWriter
<1>3. CASE X!FinishTeardown(s)
  <2>0. [link[s] EXCEPT !.stage = "gone", !.by = None, !.task = None]
          \in X!SessionRecord
    BY <1>1 DEF X!SessionRecord
  <2>1. SessionsMove
    BY <1>1, <1>3, <2>0 DEF X!FinishTeardown, SessionsMove, X!SessionRecord
  <2>2. phase' \in [X!Sessions -> Seq({"data", "end"})]
    BY <1>3, EndIsTold DEF X!FinishTeardown
  <2>3. cap' \in [Upstreams -> {"none", "read", "put", "over", "done"}]
    BY <1>1, <1>3 DEF X!FinishTeardown
  <2> QED BY <1>3, <2>1, <2>2, <2>3, SessionMoves DEF X!FinishTeardown
<1>4. CASE X!Age(s)
  <2> DEFINE r == [link[s] EXCEPT !.fresh = FALSE]
  <2>2. link' = [link EXCEPT ![s] = r]
    BY <1>4 DEF X!Age
  <2>3. /\ r \in X!SessionRecord
        /\ r.writer = link[s].writer /\ r.buf = link[s].buf /\ r.next = link[s].next
    BY <1>1 DEF X!SessionRecord
  <2>1. SessionsMove
    <3> HIDE DEF r
    <3> QED BY <1>1, <2>2, <2>3 DEF SessionsMove
  <2> QED BY <1>4, <2>1, SessionMoves DEF X!Age
<1>5. CASE X!FindStale(s)
  BY <1>5, SessionMoves DEF X!FindStale
<1> QED BY <1>2, <1>3, <1>4, <1>5

LEMMA SessionReaps == ASSUME SessionKept, X!Reap PROVE SessionKept'
<1>1. Reaper \in X!Tasks
  BY DEF X!Tasks
<1>2. SessionsMove /\ phase' \in [X!Sessions -> Seq({"data", "end"})]
  BY <1>1, SessionTornDown DEF X!Reap
<1> QED BY <1>2, SessionMoves DEF X!Reap

LEMMA SessionEdited ==
  ASSUME NEW r \in X!SessionRecord, NEW B \in SUBSET X!Packets
  PROVE  /\ \A b \in 0..BufBytes : [r EXCEPT !.buf = B, !.bytes = b] \in X!SessionRecord
         /\ \A n \in Nat, w \in Upstreams :
              [r EXCEPT !.writer = w, !.next = n, !.buf = B] \in X!SessionRecord
BY DEF X!SessionRecord

LEMMA SessionReset ==
  ASSUME SessionKept, NEW u \in Upstreams, X!Reset(u) PROVE SessionKept'
BY SessionMoves DEF X!Reset

LEMMA SessionBuffers ==
  ASSUME SessionKept, NEW h \in Uploads, X!Buffer(h) PROVE SessionKept'
<1> DEFINE s == owner[h].sess
           q == owner[h].seq
<1>1. /\ link \in [X!Sessions -> X!SessionRecord]
      /\ owner \in [Uploads -> X!RequestRecord]
      /\ frame \in [X!Sessions -> SUBSET X!Packets]
      /\ \A g \in Uploads : owner[g].stage = "dial" => owner[g].seq = 0
  BY SessionFacts
<1>2. s \in X!Sessions /\ q \in X!Packets
  BY SessionIdles
<1>3. /\ link' = [link EXCEPT ![s].buf = @ \cup {q}, ![s].bytes = @ + 1]
      /\ frame' = [frame EXCEPT ![s] = @ \cup {q}]
      /\ UNCHANGED <<total, cap, phase, gate, stage>>
      /\ link[s].bytes + 1 <= BufBytes
      /\ link[s].writer # None => q # link[s].next
  BY DEF X!Buffer, X!OutOfTurn, X!Own, X!Room, X!Ack
<1>4. \/ owner' = [owner EXCEPT ![h] = X!IdleRequest]
      \/ owner' = [owner EXCEPT ![h].stage = "drain"]
  BY DEF X!Buffer, X!Answer
<1> HIDE DEF s, q
<1>5. /\ owner' \in [Uploads -> X!RequestRecord]
      /\ \A g \in Uploads : owner'[g].stage = "dial" => owner'[g].seq = 0
  <2>1. \A r \in [stage : {"idle", "body", "drain"}, sess : X!Sessions, seq : X!Packets] :
          r \in X!RequestRecord /\ r.stage # "dial"
    BY DEF X!RequestRecord
  <2>2. \E r \in [stage : {"idle", "body", "drain"}, sess : X!Sessions, seq : X!Packets] :
          owner' = [owner EXCEPT ![h] = r]
    BY <1>4, SessionIdles
  <2> QED BY <1>1, <2>1, <2>2
<1>6. [link[s] EXCEPT !.buf = @ \cup {q}, !.bytes = @ + 1] \in X!SessionRecord
  <2>1. BufBytes \in Nat
    BY CoreAssumption DEF X!XhttpSessionAssumption
  <2>2. link[s] \in X!SessionRecord
    BY <1>1, <1>2
  <2>3. /\ link[s].buf \cup {q} \in SUBSET X!Packets
        /\ link[s].bytes + 1 \in 0..BufBytes
    BY <1>2, <1>3, <2>1, <2>2 DEF X!SessionRecord
  <2> QED BY <2>2, <2>3, SessionEdited
<1>7. link' \in [X!Sessions -> X!SessionRecord]
  BY <1>1, <1>2, <1>3, <1>6
<1>8. \A r \in X!Sessions :
        /\ link'[r].writer = link[r].writer /\ link'[r].next = link[r].next
        /\ link[r].buf \subseteq link'[r].buf
        /\ r # s => link'[r].buf = link[r].buf
        /\ r = s => link'[r].buf = link[r].buf \cup {q}
  BY <1>1, <1>2, <1>3 DEF X!SessionRecord
<1>9. frame' \in [X!Sessions -> SUBSET X!Packets]
  BY <1>1, <1>2, <1>3
<1>10. X!TypeOK'
  BY Zenon, <1>3, <1>5, <1>7, <1>9, SessionTypes
<1>11. ASSUME NEW r \in X!Sessions PROVE WriterKept(r)'
  <2>1. WriterKept(r)
    BY DEF SessionKept
  <2>2. link[r].writer # None => link[r].next \notin link'[r].buf
    <3>1. CASE r = s
      <4>1. link[s].writer # None => link[s].next # q /\ link[s].next \notin link[s].buf
        BY <1>3, <2>1, <3>1 DEF WriterKept
      <4>2. link'[s].buf = link[s].buf \cup {q}
        BY <1>2, <1>8
      <4> QED BY <3>1, <4>1, <4>2
    <3>2. CASE r # s
      BY <1>8, <2>1, <3>2 DEF WriterKept
    <3> QED BY <3>1, <3>2
  <2>3. link'[r].writer = link[r].writer /\ link'[r].next = link[r].next /\ total' = total
    BY <1>3, <1>8
  <2> QED BY <2>1, <2>2, <2>3 DEF WriterKept
<1>12. ASSUME NEW r \in X!Sessions PROVE AckedKept(r)'
  <2>1. AckedKept(r)
    BY DEF SessionKept
  <2>2. \A p \in frame'[r] : p \in frame[r] \/ (r = s /\ p = q)
    BY <1>1, <1>2, <1>3
  <2>3. ASSUME NEW p \in frame'[r]
        PROVE  \/ p \in link'[r].buf
               \/ \E u \in Upstreams : total'[u].sess = r /\ p < Len(total'[u].got)
    <3>1. CASE p \in frame[r]
      BY <1>3, <1>8, <2>1, <3>1 DEF AckedKept
    <3>2. CASE r = s /\ p = q
      BY <1>8, <3>2
    <3> QED BY <2>2, <3>1, <3>2
  <2> QED BY <2>3 DEF AckedKept
<1> QED BY <1>3, <1>5, <1>10, <1>11, <1>12 DEF SessionKept

(* The first k packets, in their order.                                    *)
FirstPackets(g, k) ==
  g \in Seq(X!Packets) /\ Len(g) = k /\ \A i \in 1..k : g[i] = i - 1

LEMMA WrittenExtends ==
  ASSUME NEW s, NEW u, NEW q \in X!Packets, NEW n \in Nat \ {0},
         FirstPackets(total[u].got, q),
         X!Cardinality(X!Run(s, q)) = n, X!Run(s, q) = q..(q + n - 1),
         X!Run(s, q) \subseteq X!Packets
  PROVE  FirstPackets(X!Written(u, s, q), q + n)
<1> DEFINE g == total[u].got
           r == [i \in 1..n |-> q + i - 1]
<1>1. q \in Nat /\ n \in Nat
  BY CoreAssumption DEF X!XhttpSessionAssumption, X!Packets
<1>2. X!Written(u, s, q) = g \o r
  BY DEF X!Written
<1>3. r \in Seq(X!Packets) /\ Len(r) = n /\ \A i \in 1..n : r[i] = q + i - 1
  <2>1. \A i \in 1..n : q + i - 1 \in X!Packets
    BY <1>1
  <2>2. r \in [1..n -> X!Packets]
    BY <2>1
  <2>3. r \in Seq(X!Packets)
    BY <1>1, <2>2, SeqDef
  <2>4. DOMAIN r = 1..n
    OBVIOUS
  <2>5. Len(r) = n
    BY <1>1, <2>3, <2>4, LenProperties
  <2> QED BY <2>3, <2>5
<1> HIDE DEF r, g
<1>4. g \in Seq(X!Packets) /\ Len(g) = q /\ \A i \in 1..q : g[i] = i - 1
  BY DEF g, FirstPackets
<1>5. /\ g \o r \in Seq(X!Packets)
      /\ Len(g \o r) = Len(g) + Len(r)
      /\ \A i \in 1..(Len(g) + Len(r)) :
           (g \o r)[i] = IF i <= Len(g) THEN g[i] ELSE r[i - Len(g)]
  BY <1>3, <1>4, ConcatProperties
<1>6. ASSUME NEW i \in 1..(q + n) PROVE (g \o r)[i] = i - 1
  <2>1. CASE i <= q
    BY <1>1, <1>3, <1>4, <1>5, <2>1
  <2>2. CASE i > q
    <3>1. PICK j \in 1..n : i - q = j /\ q + j - 1 = i - 1 /\ ~(i <= q)
      BY <1>1, <2>2
    <3>2. (g \o r)[i] = r[j]
      BY <1>3, <1>4, <1>5, <3>1
    <3>3. r[j] = i - 1
      BY <1>3, <3>1
    <3> QED BY <3>2, <3>3
  <2>3. i <= q \/ i > q
    BY <1>1
  <2> QED BY <2>1, <2>2, <2>3
<1> QED BY <1>2, <1>3, <1>4, <1>5, <1>6 DEF FirstPackets

(* A run of packets is written to an upstream of the session that received *)
(* exactly the packets before it, which is the session's writer then.      *)
LEMMA RunIsWritten ==
  ASSUME SessionKept, NEW s \in X!Sessions, NEW u \in Upstreams, NEW q \in X!Packets,
         Len(total[u].got) = q,
         total[u].sess = s \/ (total[u].sess = None /\ q = 0),
         X!AfterRun(s, u, q),
         total' \in [Upstreams -> X!UpstreamRecord],
         total'[u].got = X!Written(u, s, q), total'[u].sess = s,
         \A v \in Upstreams \ {u} :
           total'[v].sess = total[v].sess /\ total'[v].got = total[v].got,
         frame' = [frame EXCEPT ![s] = @ \cup {q}],
         cap' \in [Upstreams -> {"none", "read", "put", "over", "done"}],
         owner' \in [Uploads -> X!RequestRecord],
         \A g \in Uploads : owner'[g].stage = "dial" => owner'[g].seq = 0,
         UNCHANGED <<phase, gate, stage>>
  PROVE  SessionKept'
<1>1. /\ link \in [X!Sessions -> X!SessionRecord]
      /\ frame \in [X!Sessions -> SUBSET X!Packets]
      /\ total[u].got \in Seq(X!Packets)
  <2>1. total[u] \in X!UpstreamRecord
    BY SessionFacts
  <2>2. total[u].got \in Seq(X!Packets)
    BY <2>1 DEF X!UpstreamRecord
  <2> QED BY <2>2, SessionFacts
<1>2. q \in Nat /\ None \notin X!Sessions
  BY CoreAssumption DEF X!XhttpSessionAssumption, X!Packets, X!Sessions
<1>3. link[s].buf \subseteq X!Packets /\ link[s] \in X!SessionRecord
  BY <1>1 DEF X!SessionRecord
<1>4. PICK n \in Nat \ {0} :
        /\ X!Cardinality(X!Run(s, q)) = n /\ X!Run(s, q) = q..(q + n - 1)
        /\ q + n \notin link[s].buf
  BY <1>3, RunIsInterval
<1>5. X!Run(s, q) \subseteq X!Packets
  BY <1>3 DEF X!Run
<1>6. \A i \in 1..q : total[u].got[i] = i - 1
  BY DEF SessionKept
<1>7. /\ Len(total'[u].got) = q + n
      /\ \A i \in 1..(q + n) : total'[u].got[i] = i - 1
  <2>1. /\ Len(X!Written(u, s, q)) = q + n
        /\ \A i \in 1..(q + n) : X!Written(u, s, q)[i] = i - 1
    <3>1. /\ n \in Nat \ {0} /\ X!Cardinality(X!Run(s, q)) = n
          /\ X!Run(s, q) = q..(q + n - 1)
      BY <1>4
    <3>2. Len(total[u].got) = q
      OBVIOUS
    <3>3. total[u].got \in Seq(X!Packets)
      BY <1>1
    <3>4. FirstPackets(total[u].got, q)
      BY <1>6, <3>2, <3>3 DEF FirstPackets
    <3>5. FirstPackets(X!Written(u, s, q), q + n)
      BY <1>5, <3>1, <3>4, WrittenExtends
    <3> QED BY <3>5 DEF FirstPackets
  <2> QED BY <2>1
<1>8. link' = [link EXCEPT ![s].writer = u, ![s].next = q + n,
                           ![s].buf = @ \ (X!Run(s, q) \ {q})]
  BY <1>4 DEF X!AfterRun
<1>9. [link[s] EXCEPT !.writer = u, !.next = q + n, !.buf = @ \ (X!Run(s, q) \ {q})]
         \in X!SessionRecord
  <2>1. q + n \in Nat /\ link[s].buf \ (X!Run(s, q) \ {q}) \in SUBSET X!Packets
    BY <1>2, <1>3, <1>4
  <2> QED BY <1>3, <2>1, SessionEdited
<1>10. link' \in [X!Sessions -> X!SessionRecord]
  BY <1>1, <1>8, <1>9
<1>11. /\ link'[s].writer = u /\ link'[s].next = q + n
       /\ link'[s].buf = link[s].buf \ (X!Run(s, q) \ {q})
       /\ \A r \in X!Sessions \ {s} : link'[r] = link[r]
  BY <1>1, <1>8 DEF X!SessionRecord
<1>12. frame' \in [X!Sessions -> SUBSET X!Packets]
  BY <1>1
<1>13. X!TypeOK'
  BY Zenon, <1>10, <1>12, SessionTypes
<1>14. \A v \in Upstreams : total'[v].sess = None => total'[v].got = <<>>
  BY <1>2 DEF SessionKept
<1>15. \A v \in Upstreams : \A i \in 1..Len(total'[v].got) : total'[v].got[i] = i - 1
  BY <1>7 DEF SessionKept
<1>16. ASSUME NEW r \in X!Sessions PROVE WriterKept(r)'
  <2>1. CASE r = s
    BY <1>4, <1>7, <1>11, <2>1 DEF WriterKept
  <2>2. CASE r # s
    <3>1. WriterKept(r)
      BY DEF SessionKept
    <3>2. link[r].writer # u
      <4>1. u # None
        BY CoreAssumption DEF X!XhttpSessionAssumption
      <4> QED BY <1>2, <2>2, <3>1, <4>1 DEF WriterKept
    <3>3. link[r].writer # None => link[r].writer \in Upstreams \ {u}
      BY <1>1, <3>2 DEF X!SessionRecord
    <3> QED BY <1>11, <2>2, <3>1, <3>3 DEF WriterKept
  <2> QED BY <2>1, <2>2
<1>17. ASSUME NEW r \in X!Sessions PROVE AckedKept(r)'
  <2>1. CASE r = s
    <3>1. ASSUME NEW p \in frame'[s]
          PROVE  \/ p \in link'[s].buf
                 \/ \E v \in Upstreams : total'[v].sess = s /\ p < Len(total'[v].got)
      <4>1. CASE p = q
        BY <1>2, <1>4, <1>7, <4>1
      <4>2. CASE p \in frame[s] /\ p \in link[s].buf
        <5>1. p \in q..(q + n - 1) \/ p \in link'[s].buf
          BY <1>4, <1>11, <4>2
        <5> QED BY <1>2, <1>4, <1>7, <5>1
      <4>3. CASE p \in frame[s] /\ p \notin link[s].buf
        <5>1. PICK v \in Upstreams : total[v].sess = s /\ p < Len(total[v].got)
          BY <4>3 DEF SessionKept, AckedKept
        <5>2. p \in Nat
          BY <1>1, <1>2, <4>3, CoreAssumption DEF X!Packets, X!XhttpSessionAssumption
        <5>3. CASE v = u
          <6>1. p < q + n
            BY <1>2, <1>4, <5>1, <5>2, <5>3
          <6> QED BY <1>7, <6>1
        <5>4. CASE v # u
          BY <5>1, <5>4
        <5> QED BY <5>3, <5>4
      <4> QED BY <1>1, <4>1, <4>2, <4>3
    <3> QED BY <2>1, <3>1 DEF AckedKept
  <2>2. CASE r # s
    <3>1. frame'[r] = frame[r] /\ link'[r].buf = link[r].buf
      BY <1>1, <1>11, <2>2
    <3>2. \A v \in Upstreams : total[v].sess = r => v # u
      BY <1>2, <2>2
    <3>3. AckedKept(r)
      BY DEF SessionKept
    <3> QED BY <3>1, <3>2, <3>3 DEF AckedKept
  <2> QED BY <2>1, <2>2
<1> QED BY <1>13, <1>14, <1>15, <1>16, <1>17 DEF SessionKept

LEMMA SessionIsDialled ==
  ASSUME SessionKept, NEW h \in Uploads, NEW u \in Upstreams, X!Dialled(h, u)
  PROVE  SessionKept'
<1> DEFINE s == owner[h].sess
           r == [open |-> TRUE, sess |-> s, late |-> ~X!Live(s),
                 got |-> X!Written(u, s, 0), chunks |-> 0]
<1>1. /\ owner[h].stage = "dial" /\ total[u].sess = None
      /\ total' = [total EXCEPT ![u] = r]
      /\ X!AfterRun(s, u, 0)
      /\ cap' = [cap EXCEPT ![u] = "read"]
      /\ owner' = [owner EXCEPT ![h] = X!IdleRequest]
      /\ X!Ack(h)
      /\ UNCHANGED <<phase, gate, stage>>
  BY DEF X!Dialled
<1>2. /\ total \in [Upstreams -> X!UpstreamRecord]
      /\ cap \in [Upstreams -> {"none", "read", "put", "over", "done"}]
      /\ owner \in [Uploads -> X!RequestRecord]
      /\ \A g \in Uploads : owner[g].stage = "dial" => owner[g].seq = 0
      /\ 0 \in X!Packets
  BY SessionFacts
<1>3. s \in X!Sessions /\ owner[h].seq = 0
  BY <1>1, <1>2, SessionIdles
<1>4. frame' = [frame EXCEPT ![s] = @ \cup {0}]
  BY <1>1, <1>3 DEF X!Ack
<1>5. owner' \in [Uploads -> X!RequestRecord]
      /\ \A g \in Uploads : owner'[g].stage = "dial" => owner'[g].seq = 0
  <2>1. X!IdleRequest \in X!RequestRecord /\ X!IdleRequest.stage # "dial"
    BY SessionFacts DEF X!IdleRequest, X!RequestRecord
  <2> QED BY <1>1, <1>2, <2>1
<1>6. cap' \in [Upstreams -> {"none", "read", "put", "over", "done"}]
  BY <1>1, <1>2
<1>7. total[u].got = <<>> /\ Len(total[u].got) = 0
  <2>1. total[u].got = <<>>
    BY <1>1 DEF SessionKept
  <2> QED BY <2>1, EmptySeq
<1>8. X!Written(u, s, 0) \in Seq(X!Packets)
  <2>1. link[s].buf \subseteq X!Packets
    BY <1>3, SessionFacts DEF X!SessionRecord
  <2>2. PICK n \in Nat \ {0} :
          X!Cardinality(X!Run(s, 0)) = n /\ X!Run(s, 0) = 0..(0 + n - 1)
    BY <1>2, <1>3, <2>1, RunIsInterval
  <2>3. X!Run(s, 0) \subseteq X!Packets
    BY <1>2, <2>1 DEF X!Run
  <2>4. FirstPackets(total[u].got, 0)
    <3>1. <<>> \in Seq(X!Packets)
      BY EmptySeq
    <3> QED BY <1>7, <3>1 DEF FirstPackets
  <2>5. FirstPackets(X!Written(u, s, 0), 0 + n)
    BY <1>2, <2>2, <2>3, <2>4, WrittenExtends
  <2> QED BY <2>5 DEF FirstPackets
<1> HIDE DEF s
<1>9. r \in X!UpstreamRecord /\ r.sess = s /\ r.got = X!Written(u, s, 0)
  <2>1. X!Live(s) \in BOOLEAN
    BY DEF X!Live
  <2> QED BY <1>3, <1>8, <2>1 DEF X!UpstreamRecord
<1> HIDE DEF r
<1>10. /\ total' \in [Upstreams -> X!UpstreamRecord]
       /\ total'[u].got = X!Written(u, s, 0) /\ total'[u].sess = s
       /\ \A v \in Upstreams \ {u} :
            total'[v].sess = total[v].sess /\ total'[v].got = total[v].got
  BY <1>1, <1>2, <1>9
<1> QED BY <1>1, <1>2, <1>3, <1>4, <1>5, <1>6, <1>7, <1>10, RunIsWritten

LEMMA SessionDelivers ==
  ASSUME SessionKept, NEW h \in Uploads, X!Deliver(h)
  PROVE  SessionKept'
<1> DEFINE s == owner[h].sess
           q == owner[h].seq
           u == link[s].writer
<1>1. /\ X!IsOpen(u) /\ q = link[s].next
      /\ total' = [total EXCEPT ![u].got = X!Written(u, s, q)]
      /\ X!AfterRun(s, u, q)
      /\ X!Ack(h)
      /\ UNCHANGED <<cap, phase, gate, stage>>
      /\ \/ owner' = [owner EXCEPT ![h] = X!IdleRequest]
         \/ owner' = [owner EXCEPT ![h].stage = "drain"]
  BY DEF X!Deliver, X!Answer
<1>2. /\ total \in [Upstreams -> X!UpstreamRecord]
      /\ link \in [X!Sessions -> X!SessionRecord]
      /\ cap \in [Upstreams -> {"none", "read", "put", "over", "done"}]
      /\ owner \in [Uploads -> X!RequestRecord]
      /\ \A g \in Uploads : owner[g].stage = "dial" => owner[g].seq = 0
  BY SessionFacts
<1>3. s \in X!Sessions /\ q \in X!Packets
  BY SessionIdles
<1>4. frame' = [frame EXCEPT ![s] = @ \cup {q}]
  BY <1>1 DEF X!Ack
<1>5. owner' \in [Uploads -> X!RequestRecord]
      /\ \A g \in Uploads : owner'[g].stage = "dial" => owner'[g].seq = 0
  <2>1. \A x \in [stage : {"idle", "body", "drain"}, sess : X!Sessions, seq : X!Packets] :
          x \in X!RequestRecord /\ x.stage # "dial"
    BY DEF X!RequestRecord
  <2>2. \E x \in [stage : {"idle", "body", "drain"}, sess : X!Sessions, seq : X!Packets] :
          owner' = [owner EXCEPT ![h] = x]
    BY <1>1, SessionIdles
  <2> QED BY <1>2, <2>1, <2>2
<1>6. u # None /\ u \in Upstreams
  BY SMTT(30), <1>1, <1>2, <1>3 DEF X!IsOpen, X!SessionRecord
<1>7. Len(total[u].got) = q /\ total[u].sess = s
  <2>1. WriterKept(s)
    BY <1>3 DEF SessionKept
  <2> QED BY <1>1, <1>6, <2>1 DEF WriterKept
<1> HIDE DEF s, q, u
<1>8. X!Written(u, s, q) \in Seq(X!Packets)
  <2>1. link[s].buf \subseteq X!Packets
    BY <1>2, <1>3 DEF X!SessionRecord
  <2>2. PICK n \in Nat \ {0} :
          X!Cardinality(X!Run(s, q)) = n /\ X!Run(s, q) = q..(q + n - 1)
    BY <1>3, <2>1, RunIsInterval
  <2>3. X!Run(s, q) \subseteq X!Packets
    BY <1>3, <2>1 DEF X!Run
  <2>4. FirstPackets(total[u].got, q)
    <3>1. total[u].got \in Seq(X!Packets)
      <4>1. total[u] \in X!UpstreamRecord
        BY <1>2, <1>6
      <4> QED BY <4>1 DEF X!UpstreamRecord
    <3>2. \A i \in 1..q : total[u].got[i] = i - 1
      BY <1>6, <1>7 DEF SessionKept
    <3> QED BY <1>7, <3>1, <3>2 DEF FirstPackets
  <2>5. FirstPackets(X!Written(u, s, q), q + n)
    BY <1>3, <2>2, <2>3, <2>4, WrittenExtends
  <2> QED BY <2>5 DEF FirstPackets
<1>9. /\ [total[u] EXCEPT !.got = X!Written(u, s, q)] \in X!UpstreamRecord
      /\ [total[u] EXCEPT !.got = X!Written(u, s, q)].sess = s
      /\ [total[u] EXCEPT !.got = X!Written(u, s, q)].got = X!Written(u, s, q)
  <2> DEFINE Gots == Seq(X!Packets)
  <2>1. X!UpstreamRecord = [open : BOOLEAN, sess : X!Sessions \cup {None}, late : BOOLEAN,
                            got : Gots, chunks : Nat]
    BY DEF X!UpstreamRecord
  <2>2. X!Written(u, s, q) \in Gots
    BY <1>8
  <2>3. total[u] \in X!UpstreamRecord
    BY <1>2, <1>6
  <2> HIDE DEF Gots
  <2> QED BY <1>7, <2>1, <2>2, <2>3
<1>10. /\ total' \in [Upstreams -> X!UpstreamRecord]
       /\ total'[u].got = X!Written(u, s, q) /\ total'[u].sess = s
       /\ \A v \in Upstreams \ {u} :
            total'[v].sess = total[v].sess /\ total'[v].got = total[v].got
  BY <1>1, <1>2, <1>6, <1>9
<1>11. cap' \in [Upstreams -> {"none", "read", "put", "over", "done"}]
  BY <1>1, <1>2
<1> QED BY <1>1, <1>3, <1>4, <1>5, <1>6, <1>7, <1>10, <1>11, RunIsWritten

LEMMA SessionIsCollected ==
  ASSUME SessionKept, NEW s \in X!Sessions, X!Collect(s)
  PROVE  SessionKept'
<1> DEFINE mine == {u \in Upstreams : total[u].sess = s}
<1>1. /\ link' = [link EXCEPT ![s] = X!NewSession]
      /\ total' = [u \in Upstreams |-> IF u \in mine THEN X!NewUpstream ELSE total[u]]
      /\ cap' = [u \in Upstreams |-> IF u \in mine THEN "none" ELSE cap[u]]
      /\ phase' = [phase EXCEPT ![s] = <<>>]
      /\ frame' = [frame EXCEPT ![s] = {}]
      /\ UNCHANGED <<owner, gate, stage>>
  BY DEF X!Collect
<1>2. /\ link \in [X!Sessions -> X!SessionRecord]
      /\ total \in [Upstreams -> X!UpstreamRecord]
      /\ cap \in [Upstreams -> {"none", "read", "put", "over", "done"}]
      /\ phase \in [X!Sessions -> Seq({"data", "end"})]
      /\ frame \in [X!Sessions -> SUBSET X!Packets]
      /\ \A g \in Uploads : owner[g].stage = "dial" => owner[g].seq = 0
  BY SessionFacts
<1>3. X!NewSession \in X!SessionRecord
  BY CoreAssumption DEF X!XhttpSessionAssumption, X!NewSession, X!SessionRecord
<1>4. X!NewUpstream \in X!UpstreamRecord
      /\ X!NewUpstream.got = <<>> /\ X!NewUpstream.sess = None
  <2>1. <<>> \in Seq(X!Packets)
    BY EmptySeq
  <2> QED BY <2>1 DEF X!NewUpstream, X!UpstreamRecord
<1>5. None \notin X!Sessions
  BY CoreAssumption DEF X!XhttpSessionAssumption, X!Sessions
<1>6. link' \in [X!Sessions -> X!SessionRecord]
  BY <1>1, <1>2, <1>3
<1>7. total' \in [Upstreams -> X!UpstreamRecord]
  BY <1>1, <1>2, <1>4
<1>8. cap' \in [Upstreams -> {"none", "read", "put", "over", "done"}]
      /\ frame' \in [X!Sessions -> SUBSET X!Packets]
  BY <1>1, <1>2
<1>9. phase' \in [X!Sessions -> Seq({"data", "end"})]
  <2>1. <<>> \in Seq({"data", "end"})
    BY EmptySeq
  <2> QED BY <1>1, <1>2, <2>1
<1>10. X!TypeOK'
  BY Zenon, <1>1, <1>6, <1>7, <1>8, <1>9, SessionTypes
<1>11. /\ \A u \in Upstreams : u \in mine => total'[u] = X!NewUpstream
       /\ \A u \in Upstreams : u \notin mine => total'[u] = total[u]
  BY <1>1
<1>12. \A u \in Upstreams : total'[u].sess = None => total'[u].got = <<>>
  BY <1>4, <1>11 DEF SessionKept
<1>13. ASSUME NEW u \in Upstreams
       PROVE  \A i \in 1..Len(total'[u].got) : total'[u].got[i] = i - 1
  <2>1. CASE u \in mine
    <3>1. Len(total'[u].got) = 0
      BY <1>4, <1>11, <2>1, EmptySeq
    <3> QED BY <3>1
  <2>2. CASE u \notin mine
    BY <1>11, <2>2 DEF SessionKept
  <2> QED BY <2>1, <2>2
<1>14. ASSUME NEW r \in X!Sessions PROVE WriterKept(r)' /\ AckedKept(r)'
  <2>1. CASE r = s
    <3>1. link'[r] = X!NewSession /\ frame'[r] = {}
      BY <1>1, <1>2, <2>1
    <3> QED BY <3>1 DEF X!NewSession, WriterKept, AckedKept
  <2>2. CASE r # s
    <3>1. link'[r] = link[r] /\ frame'[r] = frame[r]
      BY <1>1, <1>2, <2>2
    <3>2. WriterKept(r) /\ AckedKept(r)
      BY DEF SessionKept
    <3>3. link[r].writer # None => link[r].writer \in Upstreams
      BY <1>2 DEF X!SessionRecord
    <3>4. \A u \in Upstreams : total[u].sess = r => total'[u] = total[u]
      BY <1>11, <2>2
    <3>5. WriterKept(r)'
      BY <3>1, <3>2, <3>3, <3>4 DEF WriterKept
    <3>6. AckedKept(r)'
      BY <3>1, <3>2, <3>4 DEF AckedKept
    <3> QED BY <3>5, <3>6
  <2> QED BY <2>1, <2>2
<1> QED BY <1>1, <1>2, <1>10, <1>12, <1>13, <1>14 DEF SessionKept

LEMMA SessionStep == SessionInv /\ [CoreNext]_coreVars => SessionInv'
<1> SUFFICES ASSUME SessionInv, [CoreNext]_coreVars, focus' = "session"
             PROVE  SessionKept'
  BY DEF SessionInv
<1>1. focus = "session"
  BY DEF CoreNext, In, coreVars
<1>2. SessionKept
  BY <1>1 DEF SessionInv
<1>3. CASE UNCHANGED coreVars
  <2>1. UNCHANGED <<link, total, cap, phase, owner, gate, stage, frame>>
    BY <1>3 DEF coreVars, vars, gateVars, histVars
  <2> QED BY <1>2, <2>1, SessionMoves
<1>4. CASE CoreNext
  <2>1. \/ \E h \in Uploads, q \in X!Packets, s \in X!Sessions : X!Upload(h, q, s)
        \/ \E h \in Uploads : X!BodyLost(h) \/ X!Drained(h)
        \/ \E h \in Uploads : X!Refuse(h) \/ X!Overflow(h) \/ X!DialFails(h) \/ X!WriteFails(h)
        \/ \E h \in Uploads : X!Buffer(h)
        \/ \E h \in Uploads : X!Dial(h)
        \/ \E h \in Uploads, u \in Upstreams : X!Dialled(h, u)
        \/ \E h \in Uploads : X!Deliver(h)
        \/ \E u \in Upstreams : X!PumpEnds(u) \/ X!PumpCancelled(u)
        \/ \E u \in Upstreams : X!Reset(u)
        \/ \E s \in X!Sessions :
             X!CloseWriter(s) \/ X!FinishTeardown(s) \/ X!Age(s) \/ X!FindStale(s)
        \/ \E s \in X!Sessions : X!Collect(s)
        \/ X!Reap
    BY <1>1, <1>4 DEF CoreNext, In
  <2>2. \A h \in Uploads :
          X!Refuse(h) \/ X!Overflow(h) \/ X!DialFails(h) \/ X!WriteFails(h) => X!Fail(h)
    BY DEF X!Refuse, X!Overflow, X!DialFails, X!WriteFails
  <2>3. \A u \in Upstreams : X!PumpEnds(u) \/ X!PumpCancelled(u) => X!PumpOver(u)
    BY DEF X!PumpEnds, X!PumpCancelled
  <2> QED BY <1>2, <2>1, <2>2, <2>3, SessionUpload, SessionIsIdle, SessionFails,
             SessionBuffers, SessionDials, SessionIsDialled, SessionDelivers,
             SessionPumpOver, SessionReset, SessionStages, SessionIsCollected, SessionReaps
<1> QED BY <1>3, <1>4

-----------------------------------------------------------------------------
(* The upstreams of a session and its teardown.                            *)
Torn(r) == r.stage \in {"close", "gone"}

DieKept ==
  \A u \in Upstreams : total[u].open =>
    /\ total[u].sess \in X!Sessions
    /\ Torn(link[total[u].sess]) => total[u].late \/ link[total[u].sess].writer # u

(* A session changes its writer only before its teardown, and is torn down *)
(* only without a writer or with a closed one.                             *)
TornApart ==
  /\ \A s \in X!Sessions : Torn(link'[s]) => link'[s].writer = link[s].writer
  /\ \A s \in X!Sessions :
       Torn(link'[s]) =>
         \/ Torn(link[s]) \/ link[s].writer = None
         \/ link[s].writer \in Upstreams /\ ~total'[link[s].writer].open

LEMMA DieMoves ==
  ASSUME SessionKept, DieKept, TornApart,
         \A u \in Upstreams : total'[u].open =>
           total[u].open /\ total'[u].sess = total[u].sess /\ total'[u].late = total[u].late
  PROVE  DieKept'
<1> SUFFICES ASSUME NEW u \in Upstreams, total'[u].open
             PROVE  /\ total'[u].sess \in X!Sessions
                    /\ Torn(link'[total'[u].sess]) => total'[u].late \/ link'[total'[u].sess].writer # u
  BY DEF DieKept
<1>1. PICK s \in X!Sessions : s = total[u].sess
  BY DEF DieKept
<1>2. total[u].open /\ total'[u].sess = s /\ total'[u].late = total[u].late
  BY <1>1
<1>3. Torn(link[s]) => total[u].late \/ link[s].writer # u
  BY <1>1, <1>2 DEF DieKept
<1>4. u # None
  BY CoreAssumption DEF X!XhttpSessionAssumption
<1> QED
  BY <1>2, <1>3, <1>4 DEF TornApart

LEMMA SessionsApart ==
  ASSUME SessionKept
  PROVE  /\ \A s \in X!Sessions : X!GetOrCreate(s) => TornApart
         /\ \A s \in X!Sessions : X!CloseWriter(s) \/ X!FinishTeardown(s) \/ X!Age(s) => TornApart
         /\ link' = link => TornApart
<1>1. link \in [X!Sessions -> X!SessionRecord]
  BY SessionFacts
<1>2. \A s \in X!Sessions : X!GetOrCreate(s) => TornApart
  BY <1>1 DEF X!GetOrCreate, X!SessionRecord, TornApart, Torn
<1>4. ASSUME NEW s \in X!Sessions, X!CloseWriter(s)
      PROVE  TornApart
  <2>1. total \in [Upstreams -> X!UpstreamRecord]
    BY SessionFacts
  <2>2. \/ link[s].writer = None
        \/ link[s].writer \in Upstreams /\ ~total'[link[s].writer].open
    <3>1. link[s].writer \in Upstreams \cup {None}
      BY <1>1 DEF X!SessionRecord
    <3>2. ASSUME NEW u \in Upstreams, u = link[s].writer PROVE ~total'[u].open
      <4>1. total' = [total EXCEPT ![u].open = FALSE]
        BY <1>4, <3>2 DEF X!CloseWriter
      <4> QED
        BY <2>1, <4>1 DEF X!UpstreamRecord
    <3> QED
      BY <3>1, <3>2
  <2>3. link' = [link EXCEPT ![s].stage = "close"]
    BY <1>4 DEF X!CloseWriter
  <2> QED
    BY <1>1, <2>2, <2>3 DEF X!SessionRecord, TornApart, Torn
<1>5. \A s \in X!Sessions : X!FinishTeardown(s) => TornApart
  BY <1>1 DEF X!FinishTeardown, X!SessionRecord, TornApart, Torn
<1>6. \A s \in X!Sessions : X!Age(s) => TornApart
  BY <1>1 DEF X!Age, X!SessionRecord, TornApart, Torn
<1>7. link' = link => TornApart
  BY SMTT(30) DEF TornApart, Torn
<1> QED
  BY <1>2, <1>4, <1>5, <1>6, <1>7

LEMMA SessionTornApart ==
  ASSUME SessionKept, NEW t, X!TearDown(t)
  PROVE  TornApart
<1>0. link \in [X!Sessions -> X!SessionRecord]
  BY SessionFacts
<1>1. CASE link' = link
  BY <1>1 DEF TornApart
<1>2. ASSUME NEW s \in X!Sessions, link[s].writer = None,
             link' = [link EXCEPT ![s].stage = "gone", ![s].fresh = FALSE]
      PROVE  TornApart
  <2>1. \A x \in X!Sessions : link'[x].writer = link[x].writer
    BY <1>0, <1>2 DEF X!SessionRecord
  <2>2. \A x \in X!Sessions \ {s} : link'[x] = link[x]
    BY <1>0, <1>2
  <2> QED
    BY <1>2, <2>1, <2>2 DEF TornApart
<1>3. ASSUME NEW s \in X!Sessions,
             link' = [link EXCEPT ![s].stage = "cancel", ![s].fresh = FALSE,
                                  ![s].by = t, ![s].task = link[s].writer]
      PROVE  TornApart
  <2>1. link'[s].stage = "cancel"
    BY <1>0, <1>3 DEF X!SessionRecord
  <2>2. \A x \in X!Sessions \ {s} : link'[x] = link[x]
    BY SMTT(30), <1>0, <1>3
  <2> QED
    BY <2>1, <2>2 DEF TornApart, Torn
<1> QED
  BY Zenon, <1>1, <1>2, <1>3 DEF X!TearDown

LEMMA SessionBuffered ==
  ASSUME SessionKept, NEW h \in Uploads, X!Buffer(h)
  PROVE  TornApart /\ total' = total
<1>1. link \in [X!Sessions -> X!SessionRecord]
  BY SessionFacts
<1> DEFINE s == owner[h].sess
<1>2. /\ s \in X!Sessions
      /\ link' = [link EXCEPT ![s].buf = @ \cup {owner[h].seq}, ![s].bytes = @ + 1]
  BY SessionIdles DEF X!Buffer
<1> HIDE DEF s
<1>3. /\ \A x \in X!Sessions \ {s} : link'[x] = link[x]
      /\ link'[s].stage = link[s].stage /\ link'[s].writer = link[s].writer
  BY <1>1, <1>2 DEF X!SessionRecord
<1> QED
  BY Zenon, <1>3 DEF X!Buffer, TornApart, Torn

LEMMA DieDialled ==
  ASSUME SessionKept, DieKept, NEW h \in Uploads, NEW u \in Upstreams, X!Dialled(h, u)
  PROVE  DieKept'
<1> DEFINE s == owner[h].sess
           r == [open |-> TRUE, sess |-> s, late |-> ~X!Live(s),
                 got |-> X!Written(u, s, 0), chunks |-> 0]
<1>1. /\ total[u].sess = None /\ s \in X!Sessions
      /\ total' = [total EXCEPT ![u] = r]
      /\ X!AfterRun(s, u, 0)
  BY SessionIdles DEF X!Dialled
<1>2. link \in [X!Sessions -> X!SessionRecord] /\ total \in [Upstreams -> X!UpstreamRecord]
  BY SessionFacts
<1> HIDE DEF s
<1>3. r.open /\ r.sess = s /\ r.late = ~(link[s].stage = "live")
  BY DEF X!Live
<1> HIDE DEF r
<1>4. /\ total'[u] = r
      /\ \A v \in Upstreams \ {u} : total'[v] = total[v]
  BY <1>1, <1>2
<1>5. /\ link'[s].stage = link[s].stage /\ link'[s].writer = u
      /\ \A x \in X!Sessions \ {s} : link'[x] = link[x]
  BY <1>1, <1>2 DEF X!AfterRun, X!SessionRecord
<1> SUFFICES ASSUME NEW v \in Upstreams, total'[v].open
             PROVE  /\ total'[v].sess \in X!Sessions
                    /\ Torn(link'[total'[v].sess]) =>
                         total'[v].late \/ link'[total'[v].sess].writer # v
  BY DEF DieKept
<1>6. CASE v = u
  BY <1>1, <1>3, <1>4, <1>5, <1>6 DEF Torn
<1>7. CASE v # u
  <2>1. /\ total[v].open /\ total[v].sess \in X!Sessions
        /\ Torn(link[total[v].sess]) => total[v].late \/ link[total[v].sess].writer # v
    BY <1>4, <1>7 DEF DieKept
  <2>2. CASE total[v].sess = s
    BY <1>4, <1>5, <1>7, <2>1, <2>2
  <2>3. CASE total[v].sess # s
    BY <1>4, <1>5, <1>7, <2>1, <2>3
  <2> QED
    BY <2>2, <2>3
<1> QED
  BY <1>6, <1>7

LEMMA DieDelivers ==
  ASSUME SessionKept, DieKept, NEW h \in Uploads, X!Deliver(h)
  PROVE  DieKept'
<1> DEFINE s == owner[h].sess
           q == owner[h].seq
           u == link[s].writer
<1>1. /\ s \in X!Sessions
      /\ total' = [total EXCEPT ![u].got = X!Written(u, s, q)]
      /\ X!AfterRun(s, u, q)
  BY Zenon, SessionIdles DEF X!Deliver
<1>2. link \in [X!Sessions -> X!SessionRecord] /\ total \in [Upstreams -> X!UpstreamRecord]
  BY SessionFacts
<1>3. /\ link'[s].stage = link[s].stage /\ link'[s].writer = link[s].writer
      /\ \A x \in X!Sessions \ {s} : link'[x] = link[x]
  BY ZenonT(60), <1>1, <1>2 DEF X!AfterRun, X!SessionRecord
<1> HIDE DEF s, q, u
<1>4. \A v \in Upstreams : total'[v].open = total[v].open /\ total'[v].sess = total[v].sess
                            /\ total'[v].late = total[v].late
  BY <1>1, <1>2 DEF X!UpstreamRecord
<1>5. TornApart
  BY <1>3 DEF TornApart, Torn
<1> QED
  BY <1>4, <1>5, DieMoves

LEMMA DieCollects ==
  ASSUME SessionKept, DieKept, NEW s \in X!Sessions, X!Collect(s)
  PROVE  DieKept'
<1> DEFINE mine == {u \in Upstreams : total[u].sess = s}
<1>1. /\ link' = [link EXCEPT ![s] = X!NewSession]
      /\ total' = [u \in Upstreams |-> IF u \in mine THEN X!NewUpstream ELSE total[u]]
  BY DEF X!Collect
<1>2. link \in [X!Sessions -> X!SessionRecord]
  BY SessionFacts
<1>3. X!NewUpstream.open = FALSE
  BY DEF X!NewUpstream
<1>4. \A u \in Upstreams : total'[u].open => total'[u] = total[u]
  BY <1>1, <1>3
<1>5. TornApart
  <2>1. link'[s].stage = "unborn"
    BY <1>1, <1>2 DEF X!NewSession
  <2>2. \A x \in X!Sessions \ {s} : link'[x] = link[x]
    BY <1>1, <1>2
  <2> QED
    BY <2>1, <2>2 DEF TornApart, Torn
<1> QED
  BY <1>4, <1>5, DieMoves

DieInv == focus = "session" => DieKept

LEMMA DieStep == SessionInv /\ DieInv /\ [CoreNext]_coreVars => DieInv'
<1> SUFFICES ASSUME SessionInv, DieInv, [CoreNext]_coreVars, focus' = "session"
             PROVE  DieKept'
  BY DEF DieInv
<1>1. focus = "session"
  BY DEF CoreNext, In, coreVars
<1>2. SessionKept /\ DieKept
  BY <1>1 DEF SessionInv, DieInv
<1>3. ASSUME TornApart, total' = total PROVE DieKept'
  BY <1>2, <1>3, DieMoves
<1>4. total \in [Upstreams -> X!UpstreamRecord]
  BY <1>2, SessionFacts
<1>5. ASSUME NEW w, total' = [total EXCEPT ![w].open = FALSE], TornApart PROVE DieKept'
  <2>1. \A u \in Upstreams : total'[u].open =>
          total[u].open /\ total'[u].sess = total[u].sess /\ total'[u].late = total[u].late
    BY <1>4, <1>5 DEF X!UpstreamRecord
  <2> QED
    BY <1>2, <1>5, <2>1, DieMoves
<1>6. CASE UNCHANGED coreVars
  <2>1. UNCHANGED <<link, total>>
    BY <1>6 DEF coreVars, vars, gateVars, histVars
  <2> QED
    BY <1>2, <1>3, <2>1, SessionsApart
<1>7. CASE CoreNext
  <2>1. \/ \E h \in Uploads, q \in X!Packets, s \in X!Sessions : X!Upload(h, q, s)
        \/ \E h \in Uploads : X!BodyLost(h) \/ X!Drained(h) \/ X!Dial(h)
        \/ \E h \in Uploads : X!Refuse(h) \/ X!Overflow(h) \/ X!DialFails(h) \/ X!WriteFails(h)
        \/ \E h \in Uploads : X!Buffer(h)
        \/ \E h \in Uploads, u \in Upstreams : X!Dialled(h, u)
        \/ \E h \in Uploads : X!Deliver(h)
        \/ \E u \in Upstreams : X!PumpEnds(u) \/ X!PumpCancelled(u)
        \/ \E u \in Upstreams : X!Reset(u)
        \/ \E s \in X!Sessions : X!CloseWriter(s)
        \/ \E s \in X!Sessions : X!FinishTeardown(s) \/ X!Age(s)
        \/ \E s \in X!Sessions : X!FindStale(s)
        \/ \E s \in X!Sessions : X!Collect(s)
        \/ X!Reap
    BY <1>1, <1>7 DEF CoreNext, In
  <2>2. CASE \E h \in Uploads, q \in X!Packets, s \in X!Sessions : X!Upload(h, q, s)
    BY <1>2, <1>3, <2>2, SessionsApart DEF X!Upload
  <2>3. CASE \E h \in Uploads : X!BodyLost(h) \/ X!Drained(h) \/ X!Dial(h)
    BY <1>2, <1>3, <2>3, SessionsApart DEF X!BodyLost, X!Drained, X!Dial
  <2>4. CASE \E h \in Uploads :
               X!Refuse(h) \/ X!Overflow(h) \/ X!DialFails(h) \/ X!WriteFails(h)
    <3>1. PICK h \in Uploads : X!Fail(h)
      BY <2>4 DEF X!Refuse, X!Overflow, X!DialFails, X!WriteFails
    <3>2. X!TearDown(h) /\ total' = total
      BY <3>1 DEF X!Fail
    <3> QED
      BY <1>2, <1>3, <3>2, SessionTornApart
  <2>5. CASE \E h \in Uploads : X!Buffer(h)
    BY <1>2, <1>3, <2>5, SessionBuffered
  <2>6. CASE \E h \in Uploads, u \in Upstreams : X!Dialled(h, u)
    BY <1>2, <2>6, DieDialled
  <2>7. CASE \E h \in Uploads : X!Deliver(h)
    BY <1>2, <2>7, DieDelivers
  <2>8. CASE \E u \in Upstreams : X!PumpEnds(u) \/ X!PumpCancelled(u)
    <3>1. PICK u \in Upstreams : X!PumpOver(u)
      BY <2>8 DEF X!PumpEnds, X!PumpCancelled
    <3>2. X!TearDown(u) /\ total' = total
      BY <3>1 DEF X!PumpOver
    <3> QED
      BY <1>2, <1>3, <3>2, SessionTornApart
  <2>9. CASE \E u \in Upstreams : X!Reset(u)
    BY <1>2, <1>5, <2>9, SessionsApart DEF X!Reset
  <2>10. CASE \E s \in X!Sessions : X!CloseWriter(s)
    BY <1>2, <1>5, <2>10, SessionsApart DEF X!CloseWriter
  <2>11. CASE \E s \in X!Sessions : X!FinishTeardown(s) \/ X!Age(s)
    BY <1>2, <1>3, <2>11, SessionsApart DEF X!FinishTeardown, X!Age
  <2>12. CASE \E s \in X!Sessions : X!FindStale(s)
    BY <1>2, <1>3, <2>12, SessionsApart DEF X!FindStale
  <2>13. CASE \E s \in X!Sessions : X!Collect(s)
    BY <1>2, <2>13, DieCollects
  <2>14. CASE X!Reap
    BY <1>2, <1>3, <2>14, SessionTornApart DEF X!Reap
  <2> QED
    BY <2>1, <2>2, <2>3, <2>4, <2>5, <2>6, <2>7, <2>8, <2>9, <2>10, <2>11, <2>12, <2>13, <2>14
<1> QED
  BY <1>6, <1>7

(* However a teardown races the dial of packet 0, a second dial, a reset   *)
(* and the reaper, the upstream of a session is closed before the session  *)
(* is gone, unless it was dialled for one that was over already or another *)
(* has taken its place.                                                    *)
THEOREM UpstreamsDie == CoreSpec => [](focus = "session" => X!UpstreamsDieWithSession)
<1>1. CoreInit => DieInv
  <2> SUFFICES ASSUME CoreInit, focus = "session" PROVE DieKept
    BY DEF DieInv
  <2>1. X!Init
    BY DEF CoreInit
  <2>2. \A u \in Upstreams : ~total[u].open
    BY <2>1 DEF X!Init, X!NewUpstream
  <2> QED
    BY <2>2 DEF DieKept
<1>2. DieInv => (focus = "session" => X!UpstreamsDieWithSession)
  BY DEF DieInv, DieKept, Torn, X!UpstreamsDieWithSession
<1> QED
  BY <1>1, <1>2, SessionStart, SessionStep, DieStep, PTL DEF CoreSpec

(* However the client repeats and reorders its packets, whichever of them  *)
(* dials, and whatever tears a session down meanwhile, an upstream receives*)
(* the packets in order, none of them is left in the buffer when its turn  *)
(* has come, none that was answered with 200 is lost while the session     *)
(* lives, and the upstream ends with the session but for the named races.  *)
THEOREM UploadsReachUpstreamInOrder == CoreSpec => []UpstreamOrdered
<1>1. ASSUME SessionInv, focus = "session" => X!UpstreamsDieWithSession
      PROVE  UpstreamOrdered
  <2> SUFFICES ASSUME focus = "session" PROVE UpstreamOrdered
    BY DEF UpstreamOrdered
  <2>1. SessionKept
    BY <1>1 DEF SessionInv
  <2>2. X!TypeOK /\ total \in [Upstreams -> X!UpstreamRecord]
    BY <2>1, SessionFacts DEF SessionKept
  <2>3. \A u \in Upstreams : DOMAIN total[u].got = 1..Len(total[u].got)
    <3>1. \A u \in Upstreams : total[u].got \in Seq(X!Packets)
      BY <2>2 DEF X!UpstreamRecord
    <3> QED BY <3>1, LenProperties
  <2>4. X!UpstreamGetsPrefix
    BY <2>1, <2>3 DEF SessionKept, X!UpstreamGetsPrefix
  <2>5. X!NothingReadyIsHeld
    BY <2>1 DEF SessionKept, WriterKept, X!NothingReadyIsHeld
  <2>6. ASSUME NEW s \in X!Sessions, NEW q \in frame[s]
        PROVE  \/ q \in link[s].buf
               \/ \E u \in Upstreams : total[u].sess = s /\ q \in X!Range(total[u].got)
    <3>1. CASE q \in link[s].buf
      BY <3>1
    <3>2. CASE q \notin link[s].buf
      <4>1. AckedKept(s)
        BY <2>1 DEF SessionKept
      <4>2. PICK u \in Upstreams : total[u].sess = s /\ q < Len(total[u].got)
        BY <3>2, <4>1 DEF AckedKept
      <4>3. q \in Nat
        <5>1. q \in X!Packets
          BY <2>1, SessionFacts
        <5> QED BY <5>1, CoreAssumption DEF X!Packets, X!XhttpSessionAssumption
      <4>4. Len(total[u].got) \in Nat
        <5>1. total[u].got \in Seq(X!Packets)
          BY <2>2 DEF X!UpstreamRecord
        <5> QED BY <5>1, LenProperties
      <4>5. PICK k \in 1..Len(total[u].got) : k - 1 = q
        BY <4>2, <4>3, <4>4
      <4>6. total[u].got[k] = q
        <5>1. \A i \in 1..Len(total[u].got) : total[u].got[i] = i - 1
          BY <2>1 DEF SessionKept
        <5> QED BY <4>5, <5>1
      <4>7. k \in DOMAIN total[u].got /\ total[u].got[k] = q
        BY <2>3, <4>5, <4>6
      <4> QED BY <4>2, <4>7 DEF X!Range
    <3> QED BY <3>1, <3>2
  <2>7. X!NoAckedPacketLost
    BY <2>6 DEF X!NoAckedPacketLost
  <2> QED BY <1>1, <2>2, <2>4, <2>5, <2>7 DEF UpstreamOrdered
<1> QED BY <1>1, SessionStart, SessionStep, UpstreamsDie, PTL DEF CoreSpec
=============================================================================
