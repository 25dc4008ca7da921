---------------------------- MODULE XrayRuntime ----------------------------
(***************************************************************************)
(* The pool of Xray processes that carry the VMess tunnels of a Core       *)
(* (XrayRuntime of relay/vmess.py): one process for each link in use,      *)
(* started for its first tunnel and stopped after its last, a bounded      *)
(* number of them, all under one asyncio.Lock that is also held while a    *)
(* process starts or stops.  The lock serves its waiters in their order.   *)
(***************************************************************************)
EXTENDS Integers, Sequences, FiniteSets, SequencesExt

CONSTANTS
  VTunnels,    \* the tunnels, each opened at most once
  VLinks,      \* their links
  LinkOf,      \* of each tunnel
  MaxRuntimes, \* xray_max_runtimes
  Closer,      \* the task that shuts the Core down
  NoProc       \* no process

ASSUME XrayAssumption ==
  /\ IsFiniteSet(VTunnels) /\ IsFiniteSet(VLinks)
  /\ LinkOf \in [VTunnels -> VLinks] /\ MaxRuntimes \in Nat
  /\ Closer \notin VTunnels /\ NoProc \notin VTunnels

VARIABLES
  handler,    \* of each tunnel: where its handler is
  line,    \* the tasks at the lock: the first one holds it
  entries, \* of each link: [proc, refs], or NoProc for proc
  mine,    \* of each tunnel: the process it was given
  live,    \* the processes that run; a process is named for its first tunnel
  shut     \* "no", "asked", "closing" or "closed"

xrayVars == <<handler, line, entries, mine, live, shut>>

NoEntry == [proc |-> NoProc, refs |-> 0]
InUse == {u \in VLinks : entries[u] # NoEntry}
HoldsLock(x) == line # <<>> /\ Head(line) = x

XrayInit ==
  /\ handler = [t \in VTunnels |-> "out"] /\ mine = [t \in VTunnels |-> NoProc]
  /\ line = <<>> /\ entries = [u \in VLinks |-> NoEntry]
  /\ live = {} /\ shut = "no"

(* vmess_ws_tunnel has admitted the tunnel and asks for a runtime.         *)
AcquireRuntime(t) ==
  /\ handler[t] = "out"
  /\ handler' = [handler EXCEPT ![t] = "acquire"]
  /\ line' = Append(line, t)
  /\ UNCHANGED <<entries, mine, live, shut>>

(* Mutant of RefuseTunnel: the lock is kept.                               *)
RefuseTunnelLocked(t) == handler' = [handler EXCEPT ![t] = "done"] /\ UNCHANGED line

(* RuntimeUnavailable: the tunnel is closed with 1013.                     *)
RefuseTunnel(t) ==
  /\ handler' = [handler EXCEPT ![t] = "done"]
  /\ line' = Tail(line)

ShuttingDown == shut \in {"closing", "closed"}

(* acquire, with the lock: no runtime any more, none to spare, none of its *)
(* link that still runs, or no valid binary; else the tunnel joins the one *)
(* there is, or starts one and keeps the lock.                             *)
Decide(t, valid) ==
  LET u == LinkOf[t]
      e == entries[u]
  IN /\ HoldsLock(t) /\ handler[t] = "acquire"
     /\ \/ /\ \/ ShuttingDown
              \/ e = NoEntry /\ (Cardinality(InUse) >= MaxRuntimes \/ ~valid)
              \/ e # NoEntry /\ e.proc \notin live
           /\ RefuseTunnel(t) /\ UNCHANGED <<entries, mine, live>>
        \/ /\ ~ShuttingDown /\ e # NoEntry /\ e.proc \in live
           /\ entries' = [entries EXCEPT ![u].refs = @ + 1]
           /\ mine' = [mine EXCEPT ![t] = e.proc]
           /\ handler' = [handler EXCEPT ![t] = "holding"] /\ line' = Tail(line)
           /\ UNCHANGED live
        \/ /\ ~ShuttingDown /\ e = NoEntry /\ Cardinality(InUse) < MaxRuntimes /\ valid
           /\ live' = live \cup {t}
           /\ handler' = [handler EXCEPT ![t] = "starting"]
           /\ UNCHANGED <<line, entries, mine>>
     /\ UNCHANGED shut

(* _start: the process takes connections in time, or it is stopped.        *)
Started(t) ==
  /\ handler[t] = "starting" /\ t \in live
  /\ entries' = [entries EXCEPT ![LinkOf[t]] = [proc |-> t, refs |-> 1]]
  /\ mine' = [mine EXCEPT ![t] = t]
  /\ handler' = [handler EXCEPT ![t] = "holding"] /\ line' = Tail(line)
  /\ UNCHANGED <<live, shut>>

StartFails(t) ==
  /\ handler[t] = "starting"
  /\ live' = live \ {t}
  /\ RefuseTunnel(t)
  /\ UNCHANGED <<entries, mine, shut>>

(* A process exits on its own.                                             *)
XrayDies(p) ==
  /\ p \in live /\ live' = live \ {p}
  /\ UNCHANGED <<handler, line, entries, mine, shut>>

(* The tunnel ends, by either side, its quota or its policy, and wants the *)
(* lock again to give the runtime back.                                    *)
EndTunnel(t) ==
  /\ handler[t] = "holding"
  /\ handler' = [handler EXCEPT ![t] = "release"]
  /\ line' = Append(line, t)
  /\ UNCHANGED <<entries, mine, live, shut>>

(* Mutant of LastOut: whoever leaves takes the runtime along.              *)
LastOutAlways(e) == TRUE

LastOut(e) == e.refs = 1

(* The finally of acquire: the last tunnel out removes the entry, unless   *)
(* close took it, and stops the process before it lets the lock go.        *)
ReleaseRuntime(t) ==
  LET u == LinkOf[t]
      e == entries[u]
      own == e.proc = mine[t]
  IN /\ HoldsLock(t) /\ handler[t] = "release"
     /\ \/ /\ own /\ LastOut(e)
           /\ entries' = [entries EXCEPT ![u] = NoEntry]
           /\ handler' = [handler EXCEPT ![t] = "stopping"]
           /\ UNCHANGED line
        \/ /\ ~(own /\ LastOut(e))
           /\ entries' = IF own THEN [entries EXCEPT ![u].refs = @ - 1] ELSE entries
           /\ handler' = [handler EXCEPT ![t] = "done"] /\ line' = Tail(line)
     /\ UNCHANGED <<mine, live, shut>>

(* _stop_process: terminated, or killed after three seconds.               *)
Stopped(t) ==
  /\ handler[t] = "stopping"
  /\ live' = live \ {mine[t]}
  /\ handler' = [handler EXCEPT ![t] = "done"] /\ line' = Tail(line)
  /\ UNCHANGED <<entries, mine, shut>>

(* close: all entries are taken at once, their processes stopped in turn.  *)
ShutDown ==
  /\ shut = "no" /\ shut' = "asked"
  /\ line' = Append(line, Closer)
  /\ UNCHANGED <<handler, entries, mine, live>>

CloseRuntimes ==
  /\ HoldsLock(Closer) /\ shut = "asked" /\ shut' = "closing"
  /\ entries' = [u \in VLinks |-> NoEntry]
  /\ UNCHANGED <<handler, line, mine, live>>

CloseOne ==
  /\ shut = "closing"
  /\ \/ \E p \in live : live' = live \ {p} /\ UNCHANGED <<line, shut>>
     \/ live = {} /\ shut' = "closed" /\ line' = Tail(line) /\ UNCHANGED live
  /\ UNCHANGED <<handler, entries, mine>>

(* The lock is let go by whoever has it: a start ends within the connect   *)
(* timeout and a stop within three seconds.                                *)
XrayFairness ==
  WF_xrayVars(\/ \E t \in VTunnels :
                   \/ \E v \in BOOLEAN : Decide(t, v)
                   \/ StartFails(t) \/ Started(t) \/ ReleaseRuntime(t) \/ Stopped(t)
              \/ CloseRuntimes \/ CloseOne)

-----------------------------------------------------------------------------
Users(u) == {t \in VTunnels : LinkOf[t] = u /\ handler[t] \in {"holding", "release"}}

XrayTypeOK ==
  /\ handler \in [VTunnels -> {"out", "acquire", "starting", "holding", "release", "stopping", "done"}]
  /\ ToSet(line) \subseteq VTunnels \cup {Closer} /\ live \subseteq VTunnels

(* Until the Core closes, a tunnel that runs has the one runtime of its    *)
(* link, which counts exactly its tunnels; no more runtimes are there than *)
(* allowed, and a process without an entry is being started or stopped.    *)
RuntimesCount ==
  ~ShuttingDown =>
    /\ \A u \in VLinks : /\ entries[u].refs = Cardinality(Users(u))
                         /\ \A t \in Users(u) : mine[t] = entries[u].proc
    /\ Cardinality(live) <= MaxRuntimes
    /\ \A p \in live : \/ \E u \in VLinks : entries[u].proc = p
                       \/ handler[p] = "starting"
                       \/ \E t \in VTunnels : handler[t] = "stopping" /\ mine[t] = p

(* Once all tunnels are gone no process is left, nor after the close.      *)
NothingLeft ==
  \/ (\A t \in VTunnels : handler[t] \in {"out", "done"}) /\ line = <<>>
  \/ shut = "closed"
  => live = {} /\ InUse = {}

RuntimesHold == XrayTypeOK /\ RuntimesCount /\ NothingLeft

(* Whoever waits at the lock is served, however slowly processes start.    *)
WaitersServed ==
  \A t \in VTunnels : handler[t] \in {"acquire", "release"} ~> handler[t] \in {"holding", "done"}
=============================================================================
