------------------------------ MODULE MCGateway ------------------------------
(***************************************************************************)
(* The four parts of the gateway path, each explored on its own while the *)
(* others rest in their initial state: they share no variable, and what one*)
(* gives another (a resolved target, a frame) is chosen freely there.      *)
(***************************************************************************)
EXTENDS EndpointCache, GatewayRelays, WsBatcher

CONSTANTS c1, c2, i1, i2, n1, r1, r2

(* Two connections of the gateway over one of the worker.                  *)
Pools == <<2, 1>>

VARIABLE focus   \* the part this behaviour explores

gatewayVars == <<endpointVars, wsVars, batcherVars, httpVars, focus>>

In(part) ==
  /\ focus = part /\ UNCHANGED focus
  /\ IF part = "cache" THEN TRUE ELSE UNCHANGED endpointVars
  /\ IF part = "relay" THEN TRUE ELSE UNCHANGED wsVars
  /\ IF part = "batch" THEN TRUE ELSE UNCHANGED batcherVars
  /\ IF part = "http" THEN TRUE ELSE UNCHANGED httpVars

GatewayInit ==
  /\ EndpointInit /\ WsInit /\ BatcherInit /\ HttpInit
  /\ focus \in {"cache", "relay", "batch", "http"}
  /\ focus # "cache" => \A i \in Endpoints : row[i] = "absent"

GatewayNext ==
  \/ \E v \in Visits, t \in Tokens : In("cache") /\ Query(v, t)
  \/ \E v \in Visits : In("cache") /\ Put(v)
  \/ \E v \in Visits : In("cache") /\ QueryFails(v)
  \/ \E i \in Endpoints : In("cache") /\ CreateInstance(i)
  \/ \E i \in Endpoints : In("cache") /\ Invalidate(i)
  \/ \E i \in Endpoints, r \in {"stopped", "deleted"} : In("cache") /\ TakenDown(i, r)
  \/ \E i \in Endpoints, n \in Nodes : In("cache") /\ BroughtUp(i, n)
  \/ In("cache") /\ EndpointTick
  \/ \E c \in Clients : In("relay") /\ ClientConnects(c)
  \/ \E c \in Clients, k \in {0, 2} : In("relay") /\ EndLeaves(c, k)
  \/ \E c \in Clients : In("relay") /\ CoreAccepts(c)
  \/ \E c \in Clients, h \in Hops : In("relay") /\ Admit(c, h)
  \/ \E c \in Clients, h \in Hops : In("relay") /\ RejectOverCap(c, h)
  \/ \E c \in Clients, h \in Hops, code \in {"1008", "1013", "1014"} :
       In("relay") /\ TurnedAway(c, h, code)
  \/ \E c \in Clients, h \in Hops : In("relay") /\ Dial(c, h)
  \/ \E c \in Clients, h \in Hops : In("relay") /\ DialFails(c, h)
  \/ \E c \in Clients, h \in Hops : In("relay") /\ Established(c, h)
  \/ \E c \in Clients, h \in Hops, d \in Dirs : In("relay") /\ FrameComes(c, h, d)
  \/ \E c \in Clients, h \in Hops, d \in Dirs : In("relay") /\ HandOver(c, h, d)
  \/ \E c \in Clients, d \in Dirs : In("relay") /\ Delivered(c, d)
  \/ \E c \in Clients, h \in Hops, d \in Dirs : In("relay") /\ PumpEnds(c, h, d)
  \/ \E c \in Clients, h \in Hops : In("relay") /\ HangUp(c, h)
  \/ \E c \in Clients, h \in Hops : In("relay") /\ Finish(c, h)
  \/ In("batch") /\ UpstreamSends
  \/ In("batch") /\ Unblocked
  \/ In("batch") /\ BackpressureTimeout
  \/ In("batch") /\ UpstreamEnds
  \/ In("batch") /\ DeadlinePasses
  \/ In("batch") /\ FlusherGoesOn
  \/ In("batch") /\ FlusherWakes
  \/ In("batch") /\ SendFrame
  \/ In("batch") /\ SendFails
  \/ In("batch") /\ FlushEnds
  \/ In("batch") /\ ClientLeaves
  \/ In("batch") /\ Disconnected
  \/ In("batch") /\ CloseSent
  \/ In("batch") /\ FlusherStopped
  \/ \E r \in Requests : In("http") /\ Asks(r)
  \/ \E r \in Requests : In("http") /\ Leaves(r)
  \/ \E r \in Requests : In("http") /\ CoreAnswers(r)
  \/ \E r \in Requests : In("http") /\ CoreEnds(r)
  \/ \E r \in Requests, h \in HttpHops : In("http") /\ TurnsAway(r, h)
  \/ \E r \in Requests, h \in HttpHops : In("http") /\ Enqueue(r, h)
  \/ \E r \in Requests, h \in HttpHops : In("http") /\ Sends(r, h)
  \/ \E r \in Requests, h \in HttpHops : In("http") /\ SendRaises(r, h)
  \/ \E r \in Requests, h \in HttpHops : In("http") /\ BodyBreaks(r, h)
  \/ \E r \in Requests, h \in HttpHops : In("http") /\ Streams(r, h)
  \/ \E r \in Requests, h \in HttpHops : In("http") /\ StreamEnds(r, h)
  \/ \E r \in Requests, h \in HttpHops : In("http") /\ Cancelled(r, h)

GatewayFairness ==
  /\ \A c \in Clients : WF_gatewayVars(In("relay") /\ WsFairStep(c))
  /\ WF_gatewayVars(In("batch") /\ BatcherFairStep)
  /\ \A r \in Requests : WF_gatewayVars(In("http") /\ HttpFairStep(r))

GatewaySpec == GatewayInit /\ [][GatewayNext]_gatewayVars /\ GatewayFairness

GatewayTypeOK == EndpointTypeOK /\ WsTypeOK /\ BatcherTypeOK /\ HttpTypeOK

(* FramesInOrder and FlusherYields of WsBatcher, and the types.            *)
FramesKept == FramesInOrder /\ FlusherYields /\ GatewayTypeOK
=============================================================================
