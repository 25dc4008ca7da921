---------------------------- MODULE GatewayRelays ----------------------------
(***************************************************************************)
(* The WebSocket path of a proxy client: the Console gateway               *)
(* (services/gateway.py, hop 1) relays it to the worker's ws-proxy         *)
(* (worker main.py, hop 2), which relays it to the instance's Core.  Both  *)
(* hops accept first, take a slot of a capped counter, look the instance   *)
(* up, dial the next hop, run one pump in each direction until one ends,   *)
(* cancel the other, close both sides and give the slot back.              *)
(*                                                                         *)
(* Link k of a client joins hop k to hop k + 1: link 0 is the client's own,*)
(* link 2 the Core's.                                                      *)
(*                                                                         *)
(* Left out: what frames hold; the buffers of the sockets, which are taken *)
(* as full: a send ends when its receiver reads, fails, or runs out of     *)
(* _WS_WRITE_TIMEOUT.  A peer that vanishes is seen as a closed link (both *)
(* websockets and uvicorn ping every 20 s).                                *)
(*                                                                         *)
(* The HTTP path of a proxy client: the Console gateway                    *)
(* (services/gateway.py, hop 1) relays a request to the worker's proxy     *)
(* (worker main.py, hop 2), which relays it to the Core. Each hop has a    *)
(* shared client with a bounded pool of connections and no limit to the    *)
(* wait for one; requests and answers are streamed, and an xHTTP downlink  *)
(* holds its connection at both hops for as long as it lives.              *)
(*                                                                         *)
(* Left out: what is carried; several Cores of one worker, whose pools are *)
(* apart; keep-alive.                                                      *)
(***************************************************************************)
EXTENDS Integers, Sequences, FiniteSets, SequencesExt

CONSTANTS
  Clients,   \* connections at a time
  Cap        \* EMUNEL_WS_MAX_CONNECTIONS of both hops; 0 is no cap

ASSUME WsRelayAssumption == IsFiniteSet(Clients) /\ Cap \in Nat

VARIABLES
  link,    \* each link of each client
  hop,     \* where the handler of each hop is
  pump,    \* its two pumps
  active   \* the counter of each hop

wsVars == <<link, hop, pump, active>>

Hops  == {1, 2}
Codes == {"1000", "1008", "1013", "1014", "lost"}
Dirs  == {"up", "down"}

Closed(c, k) == link[c][k] \in Codes
Holding(c, h) == hop[c][h] # "idle"

(* Closing a link that is closed already changes nothing.                  *)
Close(ls, k, code) == IF ls[k] \in Codes \cup {"none"} THEN ls ELSE [ls EXCEPT ![k] = code]

WsInit ==
  /\ link = [c \in Clients |-> [k \in 0..2 |-> "none"]]
  /\ hop = [c \in Clients |-> [h \in Hops |-> "idle"]]
  /\ pump = [c \in Clients |-> [h \in Hops |-> [d \in Dirs |-> "wait"]]]
  /\ active = [h \in Hops |-> 0]

-----------------------------------------------------------------------------
(* The two ends: a client connects, goes away, and connects again when     *)
(* nothing of its last connection is left.                                 *)
ClientConnects(c) ==
  /\ \A k \in 0..2 : link[c][k] \in Codes \cup {"none"}
  /\ \A h \in Hops : ~Holding(c, h)
  /\ link' = [link EXCEPT ![c] = [k \in 0..2 |-> IF k = 0 THEN "dialled" ELSE "none"]]
  /\ pump' = [pump EXCEPT ![c] = [h \in Hops |-> [d \in Dirs |-> "wait"]]]
  /\ UNCHANGED <<hop, active>>

EndLeaves(c, k) ==
  /\ k \in {0, 2} /\ link[c][k] = "open"
  /\ link' = [link EXCEPT ![c][k] = "lost"]
  /\ UNCHANGED <<hop, pump, active>>

-----------------------------------------------------------------------------
(* accept, then _ws_guard.acquire.                                         *)
Admit(c, h) ==
  /\ link[c][h-1] = "dialled" /\ ~Holding(c, h)
  /\ Cap = 0 \/ active[h] < Cap
  /\ link' = [link EXCEPT ![c][h-1] = "open"]
  /\ hop' = [hop EXCEPT ![c][h] = "resolving"]
  /\ active' = [active EXCEPT ![h] = @ + 1]
  /\ UNCHANGED pump

RejectOverCap(c, h) ==
  /\ link[c][h-1] = "dialled" /\ ~Holding(c, h)
  /\ Cap > 0 /\ active[h] >= Cap
  /\ link' = [link EXCEPT ![c][h-1] = "1013"]
  /\ UNCHANGED <<hop, pump, active>>

(* _WsGuard.release never goes below zero.                                 *)
Release(c, h) ==
  /\ hop' = [hop EXCEPT ![c][h] = "idle"]
  /\ active' = [active EXCEPT ![h] = IF @ = 0 THEN 0 ELSE @ - 1]

(* No such endpoint (the gateway: 1008) or instance (the worker: 1014), or *)
(* one that does not run: the client is told and the slot given back.      *)
TurnedAway(c, h, code) ==
  /\ hop[c][h] = "resolving"
  /\ code \in {"1013", IF h = 1 THEN "1008" ELSE "1014"}
  /\ link' = [link EXCEPT ![c] = Close(@, h - 1, code)]
  /\ Release(c, h)
  /\ UNCHANGED pump

Dial(c, h) ==
  /\ hop[c][h] = "resolving"
  /\ hop' = [hop EXCEPT ![c][h] = "dialling"]
  /\ link' = [link EXCEPT ![c][h] = "dialled"]
  /\ UNCHANGED <<pump, active>>

CoreAccepts(c) ==
  /\ link[c][2] = "dialled"
  /\ link' = [link EXCEPT ![c][2] = "open"]
  /\ UNCHANGED <<hop, pump, active>>

(* The next hop is down or refuses the handshake.                          *)
DialFails(c, h) ==
  /\ hop[c][h] = "dialling" /\ link[c][h] = "dialled"
  /\ link' = [link EXCEPT ![c] = Close([@ EXCEPT ![h] = "none"], h - 1, "1014")]
  /\ Release(c, h)
  /\ UNCHANGED pump

(* The next hop accepts before it decides: the pumps may start on a link   *)
(* that is closed at once.                                                 *)
Established(c, h) ==
  /\ hop[c][h] = "dialling" /\ link[c][h] # "dialled"
  /\ hop' = [hop EXCEPT ![c][h] = "relaying"]
  /\ UNCHANGED <<link, pump, active>>

-----------------------------------------------------------------------------
From(h, d) == IF d = "up" THEN h - 1 ELSE h
To(h, d)   == IF d = "up" THEN h ELSE h - 1

SetPump(c, h, d, s) == pump' = [pump EXCEPT ![c][h][d] = s]

LastHop(d) == IF d = "up" THEN 2 ELSE 1

(* An end sends a frame to its hop.                                        *)
FrameComes(c, h, d) ==
  /\ h # LastHop(d)
  /\ hop[c][h] = "relaying" /\ pump[c][h][d] = "wait"
  /\ link[c][From(h, d)] = "open"
  /\ SetPump(c, h, d, "send")
  /\ UNCHANGED <<link, hop, active>>

(* A hop hands its frame to the pump of the other hop when that waits for  *)
(* one, the last hop to an end that reads: an end owes nothing.            *)
HandOver(c, h, d) ==
  /\ h # LastHop(d) /\ link[c][1] = "open"
  /\ \A g \in Hops : hop[c][g] = "relaying"
  /\ pump[c][h][d] = "send" /\ pump[c][LastHop(d)][d] = "wait"
  /\ pump' = [pump EXCEPT ![c][h][d] = "wait", ![c][LastHop(d)][d] = "send"]
  /\ UNCHANGED <<link, hop, active>>

Delivered(c, d) ==
  /\ hop[c][LastHop(d)] = "relaying" /\ pump[c][LastHop(d)][d] = "send"
  /\ link[c][To(LastHop(d), d)] = "open"
  /\ SetPump(c, LastHop(d), d, "wait")
  /\ UNCHANGED <<link, hop, active>>

(* Mutant of PumpEnds: sends without a bound.                              *)
PumpEndsUnbounded(c, h, d) ==
  /\ hop[c][h] = "relaying"
  /\ \/ pump[c][h][d] = "wait" /\ Closed(c, From(h, d))
     \/ pump[c][h][d] = "send" /\ Closed(c, To(h, d))
  /\ SetPump(c, h, d, "done")
  /\ UNCHANGED <<link, hop, active>>

(* A pump ends when what it reads is closed, or when its send fails or     *)
(* reaches the write timeout (_bounded_send).                              *)
PumpEnds(c, h, d) ==
  /\ hop[c][h] = "relaying"
  /\ \/ pump[c][h][d] = "wait" /\ Closed(c, From(h, d))
     \/ pump[c][h][d] = "send"
  /\ SetPump(c, h, d, "done")
  /\ UNCHANGED <<link, hop, active>>

(* FIRST_COMPLETED: the other pump is cancelled and awaited, and leaving   *)
(* the connection closes the link to the next hop.                         *)
HangUp(c, h) ==
  /\ hop[c][h] = "relaying" /\ \E d \in Dirs : pump[c][h][d] = "done"
  /\ hop' = [hop EXCEPT ![c][h] = "closing"]
  /\ link' = [link EXCEPT ![c] = Close(@, h, "1000")]
  /\ pump' = [pump EXCEPT ![c][h] = [d \in Dirs |-> "done"]]
  /\ UNCHANGED <<active>>

(* The finally blocks: a close without a code, and the slot.               *)
Finish(c, h) ==
  /\ hop[c][h] = "closing"
  /\ link' = [link EXCEPT ![c] = Close(@, h - 1, "1000")]
  /\ Release(c, h)
  /\ UNCHANGED pump

-----------------------------------------------------------------------------
(* What asyncio, the sockets and the timeouts bring about; the clients and *)
(* the Core owe nothing but an answer to a handshake.                      *)
WsFairStep(c) ==
  \E h \in Hops :
    \/ Admit(c, h) \/ RejectOverCap(c, h)
    \/ \E code \in Codes : TurnedAway(c, h, code)
    \/ Dial(c, h) \/ DialFails(c, h) \/ Established(c, h)
    \/ \E d \in Dirs : PumpEnds(c, h, d)
    \/ HangUp(c, h) \/ Finish(c, h)

WsTypeOK ==
  /\ link \in [Clients -> [0..2 -> Codes \cup {"none", "dialled", "open"}]]
  /\ hop \in [Clients -> [Hops -> {"idle", "resolving", "dialling", "relaying", "closing"}]]
  /\ pump \in [Clients -> [Hops -> [Dirs -> {"wait", "send", "done"}]]]
  /\ \A h \in Hops : active[h] = Cardinality({c \in Clients : Holding(c, h)})
  /\ Cap > 0 => \A h \in Hops : active[h] <= Cap

(* A connection that either end has left gives back its slots at both hops,*)
(* whatever its frames wait for: nothing stays half-open under a reconnect *)
(* storm.                                                                  *)
RelaysEnd ==
  \A c \in Clients :
    (Closed(c, 0) \/ Closed(c, 2)) ~> (\A h \in Hops : ~Holding(c, h))

(* "over-cap clients get 1013 try-again-later": a client turned away for   *)
(* want of a slot at either hop is told so, whichever hop it is.           *)
OverCapIsToldSo ==
  \A c \in Clients : link[c][1] = "1013" /\ Closed(c, 0) => link[c][0] \in {"1013", "lost"}

-----------------------------------------------------------------------------
(* The HTTP relay.                                                          *)

CONSTANTS
  Requests,   \* requests of proxy clients at a time
  Uploads,    \* those whose body does not end before its client leaves
  PoolMax     \* max_connections of the client of each hop

VARIABLES
  stage,   \* where the handler of each hop is with a request
  answer,  \* what the hop after it (the Core after hop 2) has answered
  left,    \* whom hop 1, hop 2 would answer has closed its connection
  pool,    \* the connections each hop has checked out
  queue    \* the requests that wait for one, in order

httpVars == <<stage, answer, left, pool, queue>>

HttpHops == {1, 2}

ASSUME HttpRelayAssumption == \A h \in HttpHops : PoolMax[h] \in Nat

Underway(r, h) == stage[r][h] # "idle"

HttpInit ==
  /\ stage = [r \in Requests |-> [h \in HttpHops |-> "idle"]]
  /\ answer = [r \in Requests |-> [h \in HttpHops |-> "none"]]
  /\ left = [r \in Requests |-> [h \in HttpHops |-> FALSE]]
  /\ pool = [h \in HttpHops |-> {}]
  /\ queue = [h \in HttpHops |-> << >>]

-----------------------------------------------------------------------------
(* A client sends a request, and may leave at any time.                    *)
Asks(r) ==
  /\ \A h \in HttpHops : ~Underway(r, h)
  /\ stage' = [stage EXCEPT ![r][1] = "looking"]
  /\ answer' = [answer EXCEPT ![r] = [h \in HttpHops |-> "none"]]
  /\ left' = [left EXCEPT ![r] = [h \in HttpHops |-> FALSE]]
  /\ UNCHANGED <<pool, queue>>

Leaves(r) ==
  /\ Underway(r, 1) /\ ~left[r][1]
  /\ left' = [left EXCEPT ![r][1] = TRUE]
  /\ UNCHANGED <<stage, answer, pool, queue>>

(* The Core answers, and ends its answer.                                  *)
CoreAnswers(r) ==
  /\ stage[r][2] = "sent" /\ answer[r][2] = "none"
  /\ answer' = [answer EXCEPT ![r][2] = "open"]
  /\ UNCHANGED <<stage, left, pool, queue>>

CoreEnds(r) ==
  /\ answer[r][2] = "open"
  /\ answer' = [answer EXCEPT ![r][2] = "ended"]
  /\ UNCHANGED <<stage, left, pool, queue>>

-----------------------------------------------------------------------------
(* A hop is done with a request: hop 2 leaves an answer to hop 1, be it an *)
(* error; hop 1 that goes drops its connection to hop 2.                   *)
Ends(r, h) ==
  /\ stage' = [stage EXCEPT ![r][h] = "idle"]
  /\ answer' = IF h = 2 THEN [answer EXCEPT ![r][1] = "ended"] ELSE answer
  /\ left' = IF h = 1 THEN [left EXCEPT ![r][2] = TRUE] ELSE left

(* No such endpoint or instance, or one that does not run: 404, 503 or 502.*)
TurnsAway(r, h) ==
  /\ stage[r][h] = "looking"
  /\ Ends(r, h)
  /\ UNCHANGED <<pool, queue>>

Enqueue(r, h) ==
  /\ stage[r][h] = "looking"
  /\ stage' = [stage EXCEPT ![r][h] = "pool"]
  /\ queue' = [queue EXCEPT ![h] = Append(@, r)]
  /\ UNCHANGED <<answer, left, pool>>

(* client.send with a connection of the pool, first come first served.     *)
Sends(r, h) ==
  /\ queue[h] # << >> /\ r = Head(queue[h])
  /\ Cardinality(pool[h]) < PoolMax[h]
  /\ pool' = [pool EXCEPT ![h] = @ \cup {r}]
  /\ queue' = [queue EXCEPT ![h] = Tail(@)]
  /\ stage' = [stage EXCEPT ![r] = IF h = 1 THEN [@ EXCEPT ![1] = "sent", ![2] = "looking"]
                                            ELSE [@ EXCEPT ![2] = "sent"]]
  /\ UNCHANGED <<answer, left>>

(* httpx.HTTPError: the next hop cannot be reached, 502.                   *)
SendRaises(r, h) ==
  /\ stage[r][h] = "sent" /\ answer[r][h] = "none"
  /\ h = 1 => stage[r][2] = "looking"
  /\ IF h = 1 THEN /\ stage' = [stage EXCEPT ![r] = [g \in HttpHops |-> "idle"]]
                   /\ UNCHANGED <<answer, left>>
              ELSE Ends(r, h)
  /\ pool' = [pool EXCEPT ![h] = @ \ {r}]
  /\ UNCHANGED queue

(* The body of a POST is read from a client that has left: the exception   *)
(* goes through send, which gives its connection up.                       *)
BodyBreaks(r, h) ==
  /\ r \in Uploads /\ left[r][h] /\ stage[r][h] = "sent" /\ answer[r][h] = "none"
  /\ Ends(r, h)
  /\ pool' = [pool EXCEPT ![h] = @ \ {r}]
  /\ UNCHANGED queue

(* The head of the answer starts the StreamingResponse of the hop.         *)
Streams(r, h) ==
  /\ stage[r][h] = "sent" /\ answer[r][h] # "none"
  /\ stage' = [stage EXCEPT ![r][h] = "streaming"]
  /\ answer' = IF h = 2 THEN [answer EXCEPT ![r][1] = "open"] ELSE answer
  /\ UNCHANGED <<left, pool, queue>>

(* The stream is at its end: aclose.                                       *)
StreamEnds(r, h) ==
  /\ stage[r][h] = "streaming" /\ answer[r][h] = "ended"
  /\ Ends(r, h)
  /\ pool' = [pool EXCEPT ![h] = @ \ {r}]
  /\ UNCHANGED queue

(* Mutant of Cancelled: left to the BackgroundTask, which does not run.    *)
CancelledAlone(r, h) ==
  /\ stage[r][h] = "streaming" /\ left[r][h]
  /\ Ends(r, h)
  /\ UNCHANGED <<pool, queue>>

(* Whom it answers is gone: the generator is closed, and its finally block *)
(* closes the answer it reads (_stream_upstream, _stream_core).            *)
Cancelled(r, h) ==
  /\ stage[r][h] = "streaming" /\ left[r][h]
  /\ Ends(r, h)
  /\ pool' = [pool EXCEPT ![h] = @ \ {r}]
  /\ UNCHANGED queue

-----------------------------------------------------------------------------
(* What asyncio brings about. The Core owes neither an answer nor the end  *)
(* of one, and the clients of both hops set no timeout for either, or for  *)
(* the wait for a connection (read and pool are None).                     *)
HttpFairStep(r) ==
  \E h \in HttpHops : TurnsAway(r, h) \/ Enqueue(r, h) \/ Sends(r, h) \/ BodyBreaks(r, h)
                      \/ Streams(r, h) \/ StreamEnds(r, h) \/ Cancelled(r, h)

HttpTypeOK ==
  /\ stage \in [Requests -> [HttpHops -> {"idle", "looking", "pool", "sent", "streaming"}]]
  /\ answer \in [Requests -> [HttpHops -> {"none", "open", "ended"}]]
  /\ left \in [Requests -> [HttpHops -> BOOLEAN]]
  /\ \A h \in HttpHops : pool[h] \subseteq Requests /\ Cardinality(pool[h]) <= PoolMax[h]

(* A connection is checked out only for a request whose handler still uses *)
(* it, at either hop, however the client, the next hop or the Core ended   *)
(* it: nothing leaks under a storm of reconnects.                          *)
ConnectionsReturn ==
  \A h \in HttpHops :
    /\ pool[h] = {r \in Requests : stage[r][h] \in {"sent", "streaming"}}
    /\ ToSet(queue[h]) = {r \in Requests : stage[r][h] = "pool"}

(* The Core keeps the connections of r: it has not answered, or streams.   *)
CoreKeeps(r) ==
  \/ stage[r][2] = "sent" /\ answer[r][2] = "none"
  \/ stage[r][2] \in {"sent", "streaming"} /\ answer[r][2] = "open"

(* "A leaked response keeps its pool connection checked out forever and the*)
(* shared client eventually deadlocks": a client that leaves an answer gets*)
(* its connections of both hops back into their pools, whatever the Core   *)
(* does; and if the Core keeps none for ever, nobody waits for one for     *)
(* ever, although a request takes one of each pool in turn.                *)
PoolsServe ==
  /\ \A r \in Requests : stage[r][1] = "streaming" /\ left[r][1] ~> \A h \in HttpHops : r \notin pool[h]
  /\ (\A q \in Requests : []<>~CoreKeeps(q)) => \A r \in Requests : Underway(r, 1) ~> ~Underway(r, 1)

(* Without that condition a request may wait for ever behind answers that  *)
(* do not end.                                                             *)
NobodyWaitsForEver ==
  \A r \in Requests, h \in HttpHops : stage[r][h] = "pool" ~> stage[r][h] # "pool"
=============================================================================
