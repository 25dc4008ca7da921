---------------------------- MODULE MCCoreLiveness ----------------------------
(***************************************************************************)
(* Parts of a Core of which something must happen: its saver, the pool of  *)
(* Xray processes, the bandwidth cap of a link.  They share no variable,   *)
(* and each is explored while the others rest in an initial state.         *)
(***************************************************************************)
EXTENDS StateStore, XrayRuntime, SpeedLimiter

CONSTANTS t1, t2, t3, k1, k2

TunnelLinks == [t \in {t1, t2, t3} |-> IF t = t3 THEN k2 ELSE k1]

VARIABLE focus   \* the part this behaviour explores

coreVars == <<vars, xrayVars, speedVars, focus>>

In(part) ==
  /\ focus = part /\ UNCHANGED focus
  /\ IF part = "saver" THEN TRUE ELSE UNCHANGED vars
  /\ IF part = "xray"  THEN TRUE ELSE UNCHANGED xrayVars
  /\ IF part = "speed" THEN TRUE ELSE UNCHANGED speedVars

CoreInit ==
  /\ focus \in {"saver", "xray", "speed"}
  /\ Init /\ XrayInit /\ SpeedInit
  /\ focus # "speed" => speed = 0

CoreNext ==
  \/ In("saver") /\ Count
  \/ In("saver") /\ Edit
  \/ In("saver") /\ TunnelEnds
  \/ In("saver") /\ StartTask
  \/ In("saver") /\ SaverWakes
  \/ In("saver") /\ Flush
  \/ In("saver") /\ Shutdown
  \/ In("saver") /\ Replace
  \/ In("saver") /\ SaveFails
  \/ In("saver") /\ Crash
  \/ In("saver") /\ Rot
  \/ In("saver") /\ Start
  \/ \E t \in VTunnels : In("xray") /\ AcquireRuntime(t)
  \/ \E t \in VTunnels, v \in BOOLEAN : In("xray") /\ Decide(t, v)
  \/ \E t \in VTunnels : In("xray") /\ Started(t)
  \/ \E t \in VTunnels : In("xray") /\ StartFails(t)
  \/ \E t \in VTunnels : In("xray") /\ XrayDies(t)
  \/ \E t \in VTunnels : In("xray") /\ EndTunnel(t)
  \/ \E t \in VTunnels : In("xray") /\ ReleaseRuntime(t)
  \/ \E t \in VTunnels : In("xray") /\ Stopped(t)
  \/ In("xray") /\ ShutDown
  \/ In("xray") /\ CloseRuntimes
  \/ In("xray") /\ CloseOne
  \/ \E c \in SpeedPumps, n \in ChunkSizes : In("speed") /\ Throttle(c, n)
  \/ \E c \in SpeedPumps : In("speed") /\ Wake(c)
  \/ \E r \in SpeedRates : In("speed") /\ SetSpeed(r)
  \/ In("speed") /\ SpeedTick

CoreSpec ==
  CoreInit /\ [][CoreNext]_coreVars /\ SaverFairness /\ XrayFairness /\ SpeedFairness

(* EditBecomesDurable and FileNeverGoesBack of StateStore, and its types.  *)
EditsLast == []TypeOK /\ FileNeverGoesBack /\ EditBecomesDurable

(* RuntimesHold and WaitersServed of XrayRuntime.                          *)
RuntimesServe == []RuntimesHold /\ WaitersServed

(* RatesRespected and ChunksPass of SpeedLimiter.                          *)
SpeedHolds == []RatesRespected /\ ChunksPass
=============================================================================
