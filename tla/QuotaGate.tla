------------------------------ MODULE QuotaGate ------------------------------
(***************************************************************************)
(* Quota accounting of one EMUNEL Core: the links of the LinkStore         *)
(* (core/emunel_core/state.py), the lifetime counter and instance cap of   *)
(* RuntimeStats, and one QuotaGate (core/emunel_core/relay/base.py) per    *)
(* WebSocket tunnel, shared by the two pumps of the tunnel.                *)
(*                                                                         *)
(* The event loop runs one handler at a time and switches only at an await *)
(* that suspends.  No critical section of the LinkStore lock contains an   *)
(* await, so the lock is never contended and QuotaGate.add up to its       *)
(* throttle is one step; the throttle and the socket write that follows    *)
(* it are a second step, and a pump can be cancelled between the two.      *)
(*                                                                         *)
(* VMess tunnels (relay/vmess.py) do not use a QuotaGate: they account     *)
(* each frame on its own, and are here because they move the same counters.*)
(*                                                                         *)
(* Left out: payloads, addresses, the bandwidth rate of the throttle, and  *)
(* counters that are only displayed (requests, errors, hourly, cap hits).  *)
(***************************************************************************)
EXTENDS Integers, FiniteSets

CONSTANTS
  Links,        \* link UUIDs
  VMessLinks,   \* the links whose protocol is vmess-ws
  Conns,        \* tunnel handlers of the gated transports
  VMessConns,   \* tunnel handlers of the VMess transport
  FrameSizes,   \* sizes of the frames a client or an upstream sends
  MaxFrame,     \* the largest of them
  MinBatch,     \* QUOTA_MIN_BATCH
  StartBatch,   \* QUOTA_START_BATCH
  MaxBatch,     \* QUOTA_MAX_BATCH
  Limits,       \* link limits the Console sets, 0 = unlimited
  Caps,         \* instance caps the Console pushes, 0 = unlimited
  RestoredUse,  \* used_bytes the Console sends when it restores a link
  NoLink,
  MaxBytes      \* bound of the model: no frame arrives past this total

ASSUME QuotaGateAssumption ==
  /\ VMessLinks \subseteq Links
  /\ Conns \cap VMessConns = {} /\ IsFiniteSet(Conns)
  /\ NoLink \notin Links
  /\ MaxFrame \in Nat \ {0}
  /\ FrameSizes \subseteq 1..MaxFrame
  /\ MinBatch \in Nat \ {0}
  /\ StartBatch \in Nat
  /\ MaxBatch \in Nat
  /\ MinBatch <= StartBatch
  /\ StartBatch <= MaxBatch
  /\ Limits \subseteq Nat
  /\ Caps \subseteq Nat
  /\ RestoredUse \subseteq Nat
  /\ MaxBytes \in Nat

VARIABLES
  link,      \* the LinkStore: policy and usage of every link
  total,     \* RuntimeStats.total_bytes
  cap,       \* RuntimeStats.instance_cap_bytes
  phase,     \* where each tunnel handler is
  owner,     \* the link a tunnel handler serves
  gate,      \* the QuotaGate of each gated tunnel
  stage,     \* where each pump of a tunnel is
  frame,     \* bytes a pump has had admitted and not yet written
  debt,      \* history: bytes a tunnel has relayed minus bytes it has counted
  ceiling,   \* history: max of cap and total when the cap was last set
  period     \* history of a link since its last edit: what it may use, what
             \* its counter may reach, and the bytes relayed on it

gateVars  == <<phase, owner, gate, stage, frame>>
histVars  == <<debt, ceiling, period>>
vars      == <<link, total, cap, gateVars, histVars>>

AllConns == Conns \cup VMessConns
Pumps    == {"up", "down"}
Max2(a, b) == IF a >= b THEN a ELSE b

(* Mutant of NewGate: the batch size is left at zero.                      *)
NewGateUnsized == [ok |-> TRUE, pending |-> 0, batch |-> 0]

NewGate  == [ok |-> TRUE, pending |-> 0, batch |-> StartBatch]

-----------------------------------------------------------------------------
(* Link.is_allowed, looked up by UUID as every caller of the store does.   *)
Passes(k) ==
  /\ k.stored
  /\ k.active
  /\ ~k.expired
  /\ k.limit > 0 => k.used < k.limit

Allowed(l) == Passes(link[l])

(* QuotaGate._cap_reached: the instance-wide cap, 0 = unlimited.           *)
CapReached == cap > 0 /\ total >= cap

(* Mutants of Count: the link is never charged, and the link is charged    *)
(* without asking whether it is allowed.                                   *)
CountInstanceOnly(c, n) ==
  /\ total' = total + n
  /\ debt' = [debt EXCEPT ![c] = @ - n]
  /\ UNCHANGED link

CountUnasked(c, n) ==
  /\ total' = total + n
  /\ debt' = [debt EXCEPT ![c] = @ - n]
  /\ link' = [link EXCEPT ![owner[c]].used = @ + n]

(* RuntimeStats.add_traffic followed by LinkStore.use: the instance counts *)
(* the bytes in any case, the link only while it is allowed.               *)
Count(c, n) ==
  LET l == owner[c] IN
  /\ total' = total + n
  /\ debt' = [debt EXCEPT ![c] = @ - n]
  /\ link' = IF Allowed(l) THEN [link EXCEPT ![l].used = @ + n] ELSE link

(* Mutants of GateAdd: a refusal is forgotten; a full batch waits for one  *)
(* frame more.                                                             *)
GateAddForgets(c, n, admitted) ==
  \/ /\ CapReached /\ ~admitted
     /\ gate' = [gate EXCEPT ![c].ok = FALSE]
     /\ UNCHANGED <<total, link, debt>>
  \/ /\ ~CapReached /\ admitted
     /\ gate[c].pending + n < gate[c].batch
     /\ gate' = [gate EXCEPT ![c].pending = @ + n]
     /\ UNCHANGED <<total, link, debt>>
  \/ /\ ~CapReached
     /\ admitted = Allowed(owner[c])
     /\ gate' = [gate EXCEPT ![c].ok = admitted, ![c].pending = 0]
     /\ Count(c, gate[c].pending + n)

GateAddLate(c, n, admitted) ==
  \/ ~gate[c].ok /\ ~admitted /\ UNCHANGED <<gate, total, link, debt>>
  \/ /\ gate[c].ok /\ CapReached /\ ~admitted
     /\ gate' = [gate EXCEPT ![c].ok = FALSE]
     /\ UNCHANGED <<total, link, debt>>
  \/ /\ gate[c].ok /\ ~CapReached /\ admitted
     /\ gate[c].pending + n <= gate[c].batch
     /\ gate' = [gate EXCEPT ![c].pending = @ + n]
     /\ UNCHANGED <<total, link, debt>>
  \/ /\ gate[c].ok /\ ~CapReached
     /\ admitted = Allowed(owner[c])
     /\ \E b \in MinBatch..MaxBatch :
          gate' = [gate EXCEPT ![c] = [ok |-> admitted, pending |-> 0, batch |-> b]]
     /\ Count(c, gate[c].pending + n)

(* QuotaGate.add, one alternative per way out; admitted is its result. The *)
(* batch is flushed when it is full or when QUOTA_CHECK_INTERVAL is over,  *)
(* which may be at any frame; the rate then sets the next batch size.      *)
GateAdd(c, n, admitted) ==
  \/ /\ ~gate[c].ok
     /\ ~admitted
     /\ UNCHANGED <<gate, total, link, debt>>
  \/ /\ gate[c].ok
     /\ CapReached
     /\ ~admitted
     /\ gate' = [gate EXCEPT ![c].ok = FALSE]
     /\ UNCHANGED <<total, link, debt>>
  \/ /\ gate[c].ok
     /\ ~CapReached
     /\ gate[c].pending + n < gate[c].batch
     /\ admitted
     /\ gate' = [gate EXCEPT ![c].pending = @ + n]
     /\ UNCHANGED <<total, link, debt>>
  \/ /\ gate[c].ok
     /\ ~CapReached
     /\ admitted = Allowed(owner[c])
     /\ \E b \in MinBatch..MaxBatch :
          gate' = [gate EXCEPT ![c] = [ok |-> admitted, pending |-> 0, batch |-> b]]
     /\ Count(c, gate[c].pending + n)

(* Mutant of GateFlush: the rest is counted past the cap.                  *)
GateFlushPastCap(c) ==
  IF gate[c].pending > 0 /\ gate[c].ok
  THEN /\ Count(c, gate[c].pending)
       /\ gate' = [gate EXCEPT ![c].pending = 0, ![c].ok = Allowed(owner[c])]
  ELSE /\ gate' = [gate EXCEPT ![c].pending = 0]
       /\ UNCHANGED <<total, link, debt>>

(* QuotaGate.flush: what is pending is counted while the gate is open and  *)
(* the cap not reached; otherwise it is dropped.                           *)
GateFlush(c) ==
  IF gate[c].pending > 0 /\ gate[c].ok /\ ~CapReached
  THEN /\ Count(c, gate[c].pending)
       /\ gate' = [gate EXCEPT ![c].pending = 0, ![c].ok = Allowed(owner[c])]
  ELSE /\ gate' = [gate EXCEPT ![c].pending = 0,
                               ![c].ok = @ /\ (gate[c].pending = 0)]
       /\ UNCHANGED <<total, link, debt>>

(* Bound of the model.                                                     *)
InBound(c, n) ==
  /\ total + gate[c].pending + n <= MaxBytes
  /\ period[owner[c]].spent + n <= MaxBytes

-----------------------------------------------------------------------------
(* History: from here on a link may use what its limit leaves, or nothing  *)
(* when it is not allowed, whatever was relayed before.                    *)
PeriodOf(k) ==
  [ceiling |-> Max2(k.limit, k.used),
   room    |-> IF Passes(k) /\ k.limit > 0 THEN k.limit - k.used ELSE 0,
   spent   |-> 0]

(* Management API: every edit of a link starts a new period of its quota.  *)
NewPeriod(l) ==
  /\ period' = [period EXCEPT ![l] = PeriodOf(link'[l])]
  /\ UNCHANGED <<total, cap, gateVars, debt, ceiling>>

(* POST /core/api/links: LinkStore.add replaces what the UUID held.        *)
CreateLink(l) ==
  /\ \E lim \in Limits, u \in RestoredUse, x \in BOOLEAN, a \in BOOLEAN :
       link' = [link EXCEPT ![l] = [stored |-> TRUE, active |-> a, expired |-> x,
                                    limit |-> lim, used |-> u]]
  /\ NewPeriod(l)

(* PATCH /core/api/links/{uuid}: any of the fields, the others kept.       *)
PatchLink(l) ==
  /\ link[l].stored
  /\ \E lim \in Limits \cup {link[l].limit}, u \in {0, link[l].used},
        x \in BOOLEAN, a \in BOOLEAN :
       link' = [link EXCEPT ![l] = [@ EXCEPT !.active = a, !.expired = x,
                                             !.limit = lim, !.used = u]]
  /\ NewPeriod(l)

(* DELETE /core/api/links/{uuid}.                                          *)
DeleteLink(l) ==
  /\ link[l].stored
  /\ link' = [link EXCEPT ![l].stored = FALSE]
  /\ NewPeriod(l)

(* PUT /core/api/quota.                                                    *)
SetCap(v) ==
  /\ cap' = v
  /\ ceiling' = Max2(v, total)
  /\ period' = [l \in Links |-> PeriodOf(link[l])]
  /\ UNCHANGED <<link, total, gateVars, debt>>

(* The clock passes expires_at; a link without one never takes this step. *)
Expire(l) ==
  /\ link[l].stored /\ ~link[l].expired
  /\ link' = [link EXCEPT ![l].expired = TRUE]
  /\ NewPeriod(l)

-----------------------------------------------------------------------------
(* A tunnel of a gated transport: accept, first frame, connect, two pumps. *)

(* get_allowed, or the match against the allowed links, lets a client in.  *)
(* VLESS does not look at the link's protocol; VMess takes its own only.   *)
Open(c, l) ==
  /\ phase[c] = "closed"
  /\ c \in VMessConns => l \in VMessLinks
  /\ Allowed(l)
  /\ phase' = [phase EXCEPT ![c] = IF c \in Conns THEN "accepted" ELSE "connecting"]
  /\ owner' = [owner EXCEPT ![c] = l]
  /\ gate' = [d \in Conns |-> IF d = c THEN NewGate ELSE gate[d]]
  /\ debt' = [debt EXCEPT ![c] = 0]
  /\ UNCHANGED <<link, total, cap, stage, frame, ceiling, period>>

Close(c) ==
  /\ phase' = [phase EXCEPT ![c] = "closed"]
  /\ owner' = [owner EXCEPT ![c] = NoLink]

(* History: n bytes reach the other end of tunnel c.                       *)
Relay(c, n) ==
  /\ debt' = [debt EXCEPT ![c] = @ + n]
  /\ period' = [period EXCEPT ![owner[c]].spent = @ + n]

(* The first frame passes the gate before the upstream is dialled.         *)
FirstFrame(c, n) ==
  /\ phase[c] = "accepted"
  /\ InBound(c, n)
  /\ \/ /\ GateAdd(c, n, TRUE)
        /\ phase' = [phase EXCEPT ![c] = "connecting"]
        /\ frame' = [frame EXCEPT ![c].up = n]
        /\ UNCHANGED owner
     \/ /\ GateAdd(c, n, FALSE)
        /\ Close(c)
        /\ UNCHANGED frame
  /\ UNCHANGED <<cap, stage, ceiling, period>>

(* Handshake timeout, disconnect or bad request before the first frame.    *)
HandshakeFails(c) ==
  /\ phase[c] = "accepted"
  /\ Close(c)
  /\ UNCHANGED <<link, total, cap, gate, stage, frame, histVars>>

(* open_connection succeeds: the first payload is written, pumps start.    *)
Connected(c) ==
  /\ phase[c] = "connecting"
  /\ phase' = [phase EXCEPT ![c] = "relaying"]
  /\ stage' = [stage EXCEPT ![c] = [p \in Pumps |-> "read"]]
  /\ frame' = [frame EXCEPT ![c].up = 0]
  /\ Relay(c, frame[c].up)
  /\ UNCHANGED <<link, total, cap, owner, gate, ceiling>>

(* Timeout or refusal: the handler returns without flushing the gate.      *)
ConnectFails(c) ==
  /\ phase[c] = "connecting"
  /\ Close(c)
  /\ frame' = [frame EXCEPT ![c].up = 0]
  /\ UNCHANGED <<link, total, cap, gate, stage, histVars>>

(* A pump reads a frame and asks the gate; denied, it closes the socket.   *)
(* A frame that made the gate count is checked again after the throttle.   *)
Frame(c, p, n) ==
  /\ phase[c] = "relaying"
  /\ stage[c][p] = "read"
  /\ InBound(c, n)
  /\ \/ /\ GateAdd(c, n, TRUE)
        /\ stage' = [stage EXCEPT ![c][p] = IF gate'[c].pending = 0
                                            THEN "recheck" ELSE "send"]
        /\ frame' = [frame EXCEPT ![c][p] = n]
     \/ /\ GateAdd(c, n, FALSE)
        /\ stage' = [stage EXCEPT ![c][p] = "stop"]
        /\ UNCHANGED frame
  /\ UNCHANGED <<cap, phase, owner, ceiling, period>>

(* The throttle lets the frame pass and the pump writes it.                *)
Write(c, p) ==
  /\ phase[c] = "relaying"
  /\ stage[c][p] = "send" \/ (stage[c][p] = "recheck" /\ gate[c].ok)
  /\ stage' = [stage EXCEPT ![c][p] = "read"]
  /\ frame' = [frame EXCEPT ![c][p] = 0]
  /\ Relay(c, frame[c][p])
  /\ UNCHANGED <<link, total, cap, phase, owner, gate, ceiling>>

(* The other pump closed the gate during the throttle: add returns False.  *)
DeniedAfterThrottle(c, p) ==
  /\ phase[c] = "relaying"
  /\ stage[c][p] = "recheck"
  /\ ~gate[c].ok
  /\ stage' = [stage EXCEPT ![c][p] = "stop"]
  /\ frame' = [frame EXCEPT ![c][p] = 0]
  /\ UNCHANGED <<link, total, cap, phase, owner, gate, histVars>>

(* A pump ends (EOF, disconnect, failed write, denied frame): its finally  *)
(* clause flushes the shared gate.                                         *)
PumpEnds(c, p) ==
  /\ phase[c] = "relaying"
  /\ stage[c][p] # "done"
  /\ GateFlush(c)
  /\ stage' = [stage EXCEPT ![c][p] = "done"]
  /\ frame' = [frame EXCEPT ![c][p] = 0]
  /\ UNCHANGED <<cap, phase, owner, ceiling, period>>

(* Mutant of Finish: the tunnel waits for both pumps, not for the first.   *)
FinishBoth(c) ==
  /\ phase[c] = "relaying"
  /\ \A p \in Pumps : stage[c][p] = "done"
  /\ GateFlush(c)
  /\ Close(c)
  /\ UNCHANGED <<stage, frame, cap, ceiling, period>>

(* asyncio.wait returns: the pump still running is cancelled, which runs   *)
(* its finally clause, and the tunnel closes.                              *)
Finish(c) ==
  /\ phase[c] = "relaying"
  /\ \E p \in Pumps : stage[c][p] = "done"
  /\ GateFlush(c)
  /\ Close(c)
  /\ stage' = [stage EXCEPT ![c] = [p \in Pumps |-> "done"]]
  /\ frame' = [frame EXCEPT ![c] = [p \in Pumps |-> 0]]
  /\ UNCHANGED <<cap, ceiling, period>>

-----------------------------------------------------------------------------
(* A VMess tunnel: every frame is accounted at once, without a gate.       *)
VMessConnected(c) ==
  /\ phase[c] = "connecting"
  /\ phase' = [phase EXCEPT ![c] = "relaying"]
  /\ UNCHANGED <<link, total, cap, owner, gate, stage, frame, histVars>>

(* account() then send: counted and relayed, so the debt stays as it is.   *)
VMessFrame(c, n) ==
  LET l == owner[c] IN
  /\ phase[c] = "relaying"
  /\ total + n <= MaxBytes
  /\ period[l].spent + n <= MaxBytes
  /\ Allowed(l)
  /\ total' = total + n
  /\ link' = [link EXCEPT ![l].used = @ + n]
  /\ period' = [period EXCEPT ![l].spent = @ + n]
  /\ UNCHANGED <<cap, gateVars, debt, ceiling>>

(* The client or the upstream goes away, or the runtime is unavailable.    *)
VMessEnds(c) ==
  /\ phase[c] \in {"connecting", "relaying"}
  /\ Close(c)
  /\ UNCHANGED <<link, total, cap, gate, stage, frame, histVars>>

(* Mutant of PolicyCut: only a deleted link is noticed.                    *)
PolicyCutDeleted(c) ==
  /\ phase[c] = "relaying"
  /\ ~link[owner[c]].stored
  /\ Close(c)
  /\ UNCHANGED <<link, total, cap, gate, stage, frame, histVars>>

(* policy_watch (every 0.25 s), or account() on the next frame, finds the  *)
(* link disabled, expired, deleted or out of quota.                        *)
PolicyCut(c) ==
  /\ phase[c] = "relaying"
  /\ ~Allowed(owner[c])
  /\ Close(c)
  /\ UNCHANGED <<link, total, cap, gate, stage, frame, histVars>>

-----------------------------------------------------------------------------
Init ==
  /\ link = [l \in Links |-> [stored |-> FALSE, active |-> TRUE,
                              expired |-> FALSE, limit |-> 0, used |-> 0]]
  /\ total = 0
  /\ cap = 0
  /\ phase = [c \in AllConns |-> "closed"]
  /\ owner = [c \in AllConns |-> NoLink]
  /\ gate = [c \in Conns |-> NewGate]
  /\ stage = [c \in Conns |-> [p \in Pumps |-> "done"]]
  /\ frame = [c \in Conns |-> [p \in Pumps |-> 0]]
  /\ debt = [c \in AllConns |-> 0]
  /\ ceiling = 0
  /\ period = [l \in Links |-> PeriodOf(link[l])]

Manage ==
  \/ \E l \in Links : CreateLink(l) \/ PatchLink(l) \/ DeleteLink(l) \/ Expire(l)
  \/ \E v \in Caps : SetCap(v)

Tunnel(c) ==
  \/ \E n \in FrameSizes : FirstFrame(c, n)
  \/ HandshakeFails(c)
  \/ Connected(c)
  \/ ConnectFails(c)
  \/ \E p \in Pumps : Write(c, p) \/ DeniedAfterThrottle(c, p) \/ PumpEnds(c, p)
  \/ \E p \in Pumps, n \in FrameSizes : Frame(c, p, n)
  \/ Finish(c)

VMessTunnel(c) ==
  \/ VMessConnected(c)
  \/ \E n \in FrameSizes : VMessFrame(c, n)
  \/ VMessEnds(c)
  \/ PolicyCut(c)

Next ==
  \/ Manage
  \/ \E c \in AllConns, l \in Links : Open(c, l)
  \/ \E c \in Conns : Tunnel(c)
  \/ \E c \in VMessConns : VMessTunnel(c)

Spec == Init /\ [][Next]_vars

(* The event loop resumes every task that is ready: a pump that was denied *)
(* returns, a tunnel whose pump returned is torn down, policy_watch wakes. *)
FairSpec ==
  /\ Spec
  /\ \A c \in VMessConns : WF_vars(PolicyCut(c))
  /\ \A c \in Conns : WF_vars(Finish(c))
  /\ \A c \in Conns, p \in Pumps : WF_vars(stage[c][p] = "stop" /\ PumpEnds(c, p))

-----------------------------------------------------------------------------
(* Every variable keeps its type.                                          *)
LinkRecord == [stored : BOOLEAN, active : BOOLEAN, expired : BOOLEAN,
               limit : Nat, used : Nat]
PeriodRecord == [ceiling : Nat, room : Nat, spent : Nat]
GateRecord == [ok : BOOLEAN, pending : Nat, batch : MinBatch..MaxBatch]

TypeOK ==
  /\ link \in [Links -> LinkRecord]
  /\ total \in Nat
  /\ cap \in Nat
  /\ phase \in [AllConns -> {"closed", "accepted", "connecting", "relaying"}]
  /\ owner \in [AllConns -> Links \cup {NoLink}]
  /\ gate \in [Conns -> GateRecord]
  /\ stage \in [Conns -> [Pumps -> {"read", "send", "recheck", "stop", "done"}]]
  /\ frame \in [Conns -> [Pumps -> 0..MaxFrame]]
  /\ debt \in [AllConns -> Int]
  /\ ceiling \in Nat
  /\ period \in [Links -> PeriodRecord]

(* How far one flush may go past a limit that had at least a byte left: all*)
(* a batch may hold without being flushed, and the frame that fills it.    *)
Overshoot == MaxBatch - 1 + MaxFrame - 1

(* A tunnel never has a batch or more of relayed bytes that the counters   *)
(* do not show, however its pumps interleave and however it ends: the cost *)
(* of the adaptive batching in QuotaGate.add and flush.                    *)
UncountedBounded == \A c \in AllConns : debt[c] <= MaxBatch - 1

(* base.py: "the lifetime total never runs past cap + one in-flight batch",*)
(* for any number of tunnels, with cap edits down and up in between.       *)
CapOvershootBounded == cap > 0 => total <= ceiling + Overshoot

(* The counter of a limited link passes its limit by one flush at most,    *)
(* although each tunnel of the link has a batch of its own pending.        *)
LinkOvershootBounded ==
  \A l \in Links : link[l].limit > 0 => link[l].used <= period[l].ceiling + Overshoot

(* The three bounds; a VMess tunnel does not ask for the cap.              *)
OvershootBounded ==
  /\ TypeOK /\ UncountedBounded /\ LinkOvershootBounded
  /\ VMessConns = {} => CapOvershootBounded

(* After an edit of a link, its tunnels together relay what its quota had  *)
(* left, plus one batch and two frames in flight for each tunnel.  For a   *)
(* link that the edit disabled or deleted (or that expired) that is all.   *)
SpendBounded ==
  \A l \in Links :
    (link[l].limit > 0 \/ ~Allowed(l)) =>
      period[l].spent <= (IF period[l].room > 0 THEN period[l].room + Overshoot ELSE 0)
                         + Cardinality(Conns) * (MaxBatch - 1 + 2 * MaxFrame)

(* A gate that has refused a frame never lets another one pass: the tunnel *)
(* cannot come back when the quota is raised or the link enabled again.    *)
RefusalIsFinal ==
  [][\A c \in Conns : ~gate[c].ok /\ phase'[c] = phase[c] => ~gate'[c].ok]_vars

(* A tunnel whose frame was refused is torn down, and a VMess tunnel is cut*)
(* when its link stays disallowed even if no frame arrives any more.       *)
RefusedTunnelCloses ==
  \A c \in Conns, p \in Pumps : stage[c][p] = "stop" ~> phase[c] = "closed"

IdleVMessIsCut ==
  \A c \in VMessConns :
    [](phase[c] = "relaying" /\ ~Allowed(owner[c])
       => <>(phase[c] = "closed" \/ Allowed(owner[c])))

(* A tunnel that is refused stays refused, and ends.                       *)
TunnelsEnd == RefusalIsFinal /\ RefusedTunnelCloses /\ IdleVMessIsCut
=============================================================================
