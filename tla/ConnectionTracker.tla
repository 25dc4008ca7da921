-------------------------- MODULE ConnectionTracker --------------------------
(***************************************************************************)
(* The live connections of one EMUNEL Core and the concurrent-IP limit of  *)
(* a link (core/emunel_core/state.py, ConnectionTracker), as the four      *)
(* WebSocket tunnels and the XHTTP sessions use them (relay/*.py).         *)
(*                                                                         *)
(* ip_allowed and register are plain calls: a handler that makes both      *)
(* without an await in between makes one step.  VMess awaits its runtime   *)
(* and its upstream in between.  A connection id is a fresh random token:  *)
(* an id is free for the next handler when no handler uses it and no entry *)
(* is left of it.                                                          *)
(*                                                                         *)
(* Left out: byte counts and the timestamps of an entry, the credentials,  *)
(* and whether a link is allowed (see QuotaGate).                          *)
(***************************************************************************)
EXTENDS Naturals, FiniteSets

CONSTANTS
  Links,       \* link UUIDs
  Ips,         \* client addresses
  Tunnels,     \* connection ids of VLESS and Shadowsocks tunnels
  TrojanIds,   \* connection ids of Trojan tunnels
  VMessIds,    \* connection ids of VMess tunnels
  SessionIds,  \* connection ids of XHTTP sessions
  VMessLinks,  \* the links whose protocol is vmess-ws
  IpLimits,    \* values of ip_limit, 0 = off
  None

ConnectionTrackerAssumption ==
  /\ IpLimits \subseteq Nat /\ IsFiniteSet(Ips)
  /\ VMessLinks \subseteq Links
  /\ None \notin Links \X Ips
  /\ Tunnels \cap TrojanIds = {} /\ Tunnels \cap VMessIds = {}
  /\ Tunnels \cap SessionIds = {} /\ TrojanIds \cap VMessIds = {}
  /\ TrojanIds \cap SessionIds = {} /\ VMessIds \cap SessionIds = {}

VARIABLES
  ipLimit,   \* Link.ip_limit
  entry,     \* ConnectionTracker._conns: link and address, or None
  stage,     \* the handler of each connection id
  peer,      \* link and address the handler serves
  peak       \* history: what the limit allows at most since its last edit

vars == <<ipLimit, entry, stage, peer, peak>>

Ids == Tunnels \cup TrojanIds \cup VMessIds \cup SessionIds
Max2(a, b) == IF a >= b THEN a ELSE b

-----------------------------------------------------------------------------
(* ConnectionTracker.unique_ips_for.                                       *)
UniqueIps(l) == {ip \in Ips : \E c \in Ids : entry[c] = <<l, ip>>}

(* Mutant of IpAllowed: one address too many.                              *)
IpAllowedOneMore(l, ip) ==
  \/ ipLimit[l] = 0
  \/ ip \in UniqueIps(l)
  \/ Cardinality(UniqueIps(l)) <= ipLimit[l]

(* ConnectionTracker.ip_allowed: an address that is connected already      *)
(* never takes another slot.                                               *)
IpAllowed(l, ip) ==
  \/ ipLimit[l] = 0
  \/ ip \in UniqueIps(l)
  \/ Cardinality(UniqueIps(l)) < ipLimit[l]

Register(c, l, ip) == entry' = [entry EXCEPT ![c] = <<l, ip>>]
Remove(c) == entry' = [entry EXCEPT ![c] = None]
Free(c) == stage[c] = "closed" /\ entry[c] = None

-----------------------------------------------------------------------------
(* PATCH /core/api/links/{uuid} with ip_limit: nobody is disconnected.     *)
SetIpLimit(l, n) ==
  /\ ipLimit' = [ipLimit EXCEPT ![l] = n]
  /\ peak' = [peak EXCEPT ![l] = Max2(n, Cardinality(UniqueIps(l)))]
  /\ UNCHANGED <<entry, stage, peer>>

(* VLESS registers on accept, Trojan and Shadowsocks after the frame that  *)
(* names the link, an XHTTP session inside the engine's lock.              *)
Accept(c, l, ip) ==
  /\ c \notin VMessIds
  /\ Free(c)
  /\ IpAllowed(l, ip)
  /\ Register(c, l, ip)
  /\ stage' = [stage EXCEPT ![c] = "handshake"]
  /\ peer' = [peer EXCEPT ![c] = <<l, ip>>]
  /\ UNCHANGED <<ipLimit, peak>>

(* The VMess tunnel looks at the limit, then awaits Xray and its socket... *)
VMessCheck(c, l, ip) ==
  /\ c \in VMessIds
  /\ Free(c)
  /\ l \in VMessLinks
  /\ IpAllowed(l, ip)
  /\ stage' = [stage EXCEPT ![c] = "connecting"]
  /\ peer' = [peer EXCEPT ![c] = <<l, ip>>]
  /\ UNCHANGED <<ipLimit, entry, peak>>

(* Mutants of VMessRegister: link and address swapped; no entry at all.    *)
VMessRegisterSwapped(c) ==
  /\ stage[c] = "connecting"
  /\ Register(c, peer[c][2], peer[c][1])
  /\ stage' = [stage EXCEPT ![c] = "relaying"]
  /\ UNCHANGED <<ipLimit, peer, peak>>

VMessRegisterForgotten(c) ==
  /\ stage[c] = "connecting"
  /\ stage' = [stage EXCEPT ![c] = "relaying"]
  /\ UNCHANGED <<ipLimit, entry, peer, peak>>

(* ... and registers without looking again.                                *)
VMessRegister(c) ==
  /\ stage[c] = "connecting"
  /\ Register(c, peer[c][1], peer[c][2])
  /\ stage' = [stage EXCEPT ![c] = "relaying"]
  /\ UNCHANGED <<ipLimit, peer, peak>>

(* The gate admits the first frame and the upstream is connected.          *)
Relay(c) ==
  /\ stage[c] = "handshake"
  /\ stage' = [stage EXCEPT ![c] = "relaying"]
  /\ UNCHANGED <<ipLimit, entry, peer, peak>>

(* The Trojan tunnel returns before its try block when the gate refuses    *)
(* the first frame: no finally clause runs.                                *)
TrojanDenied(c) ==
  /\ c \in TrojanIds
  /\ stage[c] = "handshake"
  /\ stage' = [stage EXCEPT ![c] = "closed"]
  /\ peer' = [peer EXCEPT ![c] = None]
  /\ UNCHANGED <<ipLimit, entry, peak>>

(* Mutant of End: the finally clause does not remove the entry.            *)
EndKeepsEntry(c) ==
  /\ stage[c] # "closed"
  /\ stage' = [stage EXCEPT ![c] = "closed"]
  /\ peer' = [peer EXCEPT ![c] = None]
  /\ UNCHANGED <<ipLimit, entry, peak>>

(* Every other way out goes through ConnectionTracker.remove: a finally    *)
(* clause, or the teardown of an XHTTP session.                            *)
End(c) ==
  /\ stage[c] # "closed"
  /\ Remove(c)
  /\ stage' = [stage EXCEPT ![c] = "closed"]
  /\ peer' = [peer EXCEPT ![c] = None]
  /\ UNCHANGED <<ipLimit, peak>>

-----------------------------------------------------------------------------
Init ==
  /\ ipLimit \in [Links -> IpLimits]
  /\ entry = [c \in Ids |-> None]
  /\ stage = [c \in Ids |-> "closed"]
  /\ peer = [c \in Ids |-> None]
  /\ peak = ipLimit

Next ==
  \/ \E l \in Links, n \in IpLimits : SetIpLimit(l, n)
  \/ \E c \in Ids, l \in Links, ip \in Ips : Accept(c, l, ip) \/ VMessCheck(c, l, ip)
  \/ \E c \in Ids : VMessRegister(c) \/ Relay(c) \/ TrojanDenied(c) \/ End(c)

Spec == Init /\ [][Next]_vars

-----------------------------------------------------------------------------
TypeOK ==
  /\ ipLimit \in [Links -> Nat]
  /\ entry \in [Ids -> (Links \X Ips) \cup {None}]
  /\ stage \in [Ids -> {"closed", "connecting", "handshake", "relaying"}]
  /\ peer \in [Ids -> (Links \X Ips) \cup {None}]
  /\ peak \in [Links -> Nat]

(* Link: "a concurrent unique-IP cap enforced at connection accept": after *)
(* an edit of ip_limit the link never has more addresses than the larger of*)
(* the limit and those that were connected at the edit.  It holds for every*)
(* link that no VMess tunnel serves, however the handlers interleave: two  *)
(* VMess tunnels can both pass the check before either is registered.      *)
GatedIpsWithinLimit ==
  \A l \in Links \ VMessLinks :
    ipLimit[l] > 0 => Cardinality(UniqueIps(l)) <= peak[l]

(* A tunnel that relays is listed under its own link and address, so it is *)
(* counted against the limit as long as it lives.                          *)
RelayingIsListed ==
  \A c \in Ids : stage[c] = "relaying" => entry[c] = peer[c]

(* "Live relay connections": an entry belongs to a handler that is running,*)
(* but for the early return of the Trojan tunnel, which leaves one behind. *)
OnlyTrojanLeaks ==
  \A c \in Ids \ TrojanIds : entry[c] # None => stage[c] # "closed"
=============================================================================
