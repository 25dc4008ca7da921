----------------------------- MODULE MCCoreSafety -----------------------------
(***************************************************************************)
(* The parts of a Core whose safety is explored over all interleavings:    *)
(* the quota of two tunnels, the connection tracker, the uploads of an     *)
(* XHTTP session and the stream of a Shadowsocks tunnel.  A behaviour is   *)
(* one of one part, so the variables of QuotaGate serve all of them: the   *)
(* other parts are instantiated over them, whatever their names say, which *)
(* keeps a state as small as that of the largest part.                     *)
(***************************************************************************)
EXTENDS QuotaGate, TLC

CONSTANTS
  TrackedLinks, TrackedVMessLinks, Ips, Tunnels, TrojanIds, VMessIds, SessionIds,
  IpLimits,                                                      \* of ConnectionTracker
  MaxSessions, Uploads, Upstreams, MaxSeq, BufEntries, BufBytes, Reaper,  \* of XhttpSession
  MaxChunks, MaxReads,                                           \* of ShadowsocksStream
  None

VARIABLE focus   \* the part this behaviour explores

T == INSTANCE ConnectionTracker
       WITH Links <- TrackedLinks, VMessLinks <- TrackedVMessLinks,
            ipLimit <- link, entry <- total, stage <- cap, peer <- phase, peak <- owner
X == INSTANCE XhttpSession
       WITH Readers <- {}, Watched <- {}, MaxChunks <- 0, QueueMax <- 1,
            Chatty <- 1..MaxSessions,
            sess <- link, up <- total, pump <- cap, queue <- phase, req <- owner,
            reader <- gate, reaping <- stage, acked <- frame
S == INSTANCE ShadowsocksStream
       WITH sent <- link, tunnel <- total, cut <- cap, keyed <- phase,
            decNonce <- owner, upstream <- gate, todoChunks <- stage,
            encNonce <- frame, reply <- debt

ASSUME CoreAssumption ==
  /\ T!ConnectionTrackerAssumption
  /\ X!XhttpSessionAssumption
  /\ S!ShadowsocksStreamAssumption

coreVars == <<vars, focus>>

Symmetry == Permutations(Conns) \cup Permutations(Upstreams)

In(part) ==
  /\ focus = part /\ UNCHANGED focus
  /\ IF part = "tracker" THEN UNCHANGED <<gate, stage, frame>> ELSE TRUE
  /\ IF part \in {"tracker", "session"} THEN UNCHANGED debt ELSE TRUE
  /\ IF part = "quota" THEN TRUE ELSE UNCHANGED <<ceiling, period>>

CoreInit ==
  \/ focus = "quota" /\ Init
  \/ /\ focus = "tracker" /\ T!Init /\ gate = None /\ stage = None /\ frame = None
     /\ debt = None /\ ceiling = None /\ period = None
  \/ focus = "session" /\ X!Init /\ debt = None /\ ceiling = None /\ period = None
  \/ focus = "shadowsocks" /\ S!SsInit /\ ceiling = None /\ period = None

CoreNext ==
  \/ In("quota") /\ \E l \in Links : CreateLink(l)
  \/ In("quota") /\ \E l \in Links : PatchLink(l)
  \/ In("quota") /\ \E l \in Links : DeleteLink(l)
  \/ In("quota") /\ \E l \in Links : Expire(l)
  \/ In("quota") /\ \E v \in Caps : SetCap(v)
  \/ In("quota") /\ \E c \in Conns, l \in Links : Open(c, l)
  \/ In("quota") /\ \E c \in Conns, n \in FrameSizes : FirstFrame(c, n)
  \/ In("quota") /\ \E c \in Conns : HandshakeFails(c)
  \/ In("quota") /\ \E c \in Conns : Connected(c)
  \/ In("quota") /\ \E c \in Conns : ConnectFails(c)
  \/ In("quota") /\ \E c \in Conns, p \in Pumps : Write(c, p)
  \/ In("quota") /\ \E c \in Conns, p \in Pumps : DeniedAfterThrottle(c, p)
  \/ In("quota") /\ \E c \in Conns, p \in Pumps : PumpEnds(c, p)
  \/ In("quota") /\ \E c \in Conns, p \in Pumps, n \in FrameSizes : Frame(c, p, n)
  \/ In("quota") /\ \E c \in Conns : Finish(c)
  \/ In("tracker") /\ \E l \in TrackedLinks, n \in IpLimits : T!SetIpLimit(l, n)
  \/ In("tracker") /\ \E c \in T!Ids, l \in TrackedLinks, ip \in Ips : T!Accept(c, l, ip)
  \/ In("tracker") /\ \E c \in T!Ids, l \in TrackedLinks, ip \in Ips : T!VMessCheck(c, l, ip)
  \/ In("tracker") /\ \E c \in T!Ids : T!VMessRegister(c)
  \/ In("tracker") /\ \E c \in T!Ids : T!Relay(c)
  \/ In("tracker") /\ \E c \in T!Ids : T!TrojanDenied(c)
  \/ In("tracker") /\ \E c \in T!Ids : T!End(c)
  \/ In("session") /\ \E h \in Uploads, q \in X!Packets, s \in X!Sessions : X!Upload(h, q, s)
  \/ In("session") /\ \E h \in Uploads : X!BodyLost(h)
  \/ In("session") /\ \E h \in Uploads : X!Refuse(h)
  \/ In("session") /\ \E h \in Uploads : X!Buffer(h)
  \/ In("session") /\ \E h \in Uploads : X!Overflow(h)
  \/ In("session") /\ \E h \in Uploads : X!Dial(h)
  \/ In("session") /\ \E h \in Uploads : X!DialFails(h)
  \/ In("session") /\ \E h \in Uploads, u \in Upstreams : X!Dialled(h, u)
  \/ In("session") /\ \E h \in Uploads : X!Deliver(h)
  \/ In("session") /\ \E h \in Uploads : X!Drained(h)
  \/ In("session") /\ \E h \in Uploads : X!WriteFails(h)
  \/ In("session") /\ \E u \in Upstreams : X!PumpEnds(u)
  \/ In("session") /\ \E u \in Upstreams : X!PumpCancelled(u)
  \/ In("session") /\ \E u \in Upstreams : X!Reset(u)
  \/ In("session") /\ \E s \in X!Sessions : X!CloseWriter(s)
  \/ In("session") /\ \E s \in X!Sessions : X!FinishTeardown(s)
  \/ In("session") /\ \E s \in X!Sessions : X!Age(s)
  \/ In("session") /\ \E s \in X!Sessions : X!FindStale(s)
  \/ In("session") /\ \E s \in X!Sessions : X!Collect(s)
  \/ In("session") /\ X!Reap
  \/ In("shadowsocks") /\ \E n \in 1..S!PayloadEnd(MaxChunks), ok \in BOOLEAN : S!Handshake(n, ok)
  \/ In("shadowsocks") /\ S!HandshakeEnds
  \/ In("shadowsocks") /\ \E ok \in BOOLEAN : S!Admit(ok)
  \/ In("shadowsocks") /\ S!WriteFirst
  \/ In("shadowsocks") /\ \E n \in 1..S!PayloadEnd(MaxChunks) : S!Feed(n)
  \/ In("shadowsocks") /\ \E ok \in BOOLEAN : S!DecryptNext(ok)
  \/ In("shadowsocks") /\ \E size \in S!Sizes : S!EncryptToWs(size)
  \/ In("shadowsocks") /\ S!SsHangUp

CoreSpec == CoreInit /\ [][CoreNext]_coreVars

(* OvershootBounded of QuotaGate.                                          *)
QuotaHolds == focus = "quota" => OvershootBounded

(* Who is connected: GatedIpsWithinLimit, RelayingIsListed and             *)
(* OnlyTrojanLeaks of ConnectionTracker.                                   *)
TrackerHolds ==
  focus = "tracker" =>
    T!TypeOK /\ T!GatedIpsWithinLimit /\ T!RelayingIsListed /\ T!OnlyTrojanLeaks

(* What an XHTTP client sends reaches its upstream, which does not outlive *)
(* the session: UpstreamGetsPrefix, NothingReadyIsHeld, NoAckedPacketLost  *)
(* and UpstreamsDieWithSession of XhttpSession.                            *)
UpstreamOrdered ==
  focus = "session" =>
    /\ X!TypeOK /\ X!UpstreamGetsPrefix /\ X!NothingReadyIsHeld /\ X!NoAckedPacketLost
    /\ X!UpstreamsDieWithSession

(* ShadowsocksHolds of ShadowsocksStream.                                  *)
StreamsHold == focus = "shadowsocks" => S!ShadowsocksHolds

(* SplitsAreRead of ShadowsocksStream.                                     *)
SplitsAreRead == focus = "shadowsocks" => S!SplitsAreRead
=============================================================================
