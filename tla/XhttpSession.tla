----------------------------- MODULE XhttpSession -----------------------------
(***************************************************************************)
(* The XHTTP packet-up transport of one EMUNEL Core (XHttpEngine,          *)
(* core/emunel_core/relay/xhttp.py) for one key (uuid, session_id): the    *)
(* uploads that may be delayed, reordered and repeated by the client, the  *)
(* upstream they open, the pump of its answers into a bounded queue, the   *)
(* downlinks that read the queue, and the teardown anyone may start.       *)
(*                                                                         *)
(* A session object outlives its place in the table: a handler, a pump and *)
(* a teardown keep the object they started with, while teardown looks the  *)
(* key up again.  Every await that can suspend ends a step.                *)
(*                                                                         *)
(* Left out: the limits on the number of sessions, the bytes of a packet   *)
(* (a packet has size one), quota arithmetic (QuotaGate; here the gate     *)
(* admits or refuses), the address limit (ConnectionTracker), stream-up.   *)
(***************************************************************************)
EXTENDS Naturals, Sequences, FiniteSets, Functions

CONSTANTS
  MaxSessions,  \* bound of the model: session objects of the key in memory
  Uploads,      \* upload requests in flight at a time
  Readers,      \* downlink requests in flight at a time
  Watched,      \* bound of the model: the sessions that downlinks attach to
  Upstreams,    \* bound of the model: upstream connections in memory
  MaxSeq,       \* bound of the model: the client sends packets 0 .. MaxSeq
  Chatty,       \* bound of the model: the sessions it sends more than packet 0 to
  MaxChunks,    \* bound of the model: chunks an upstream answers
  BufEntries,   \* MAX_SEQ_BUF_ENTRIES
  BufBytes,     \* MAX_SEQ_BUF_BYTES
  QueueMax,     \* DOWNLINK_QUEUE_MAX
  Reaper,       \* the task that removes idle sessions
  None

XhttpSessionAssumption ==
  /\ MaxSessions \in Nat \ {0}
  /\ MaxSeq \in Nat /\ MaxChunks \in Nat
  /\ BufEntries \in Nat /\ BufBytes \in Nat /\ QueueMax \in Nat \ {0}
  /\ Uploads \cap Upstreams = {}
  /\ Reaper \notin Uploads \cup Upstreams
  /\ None \notin Upstreams \cup Uploads \cup (1..MaxSessions) \cup {Reaper}

VARIABLES
  sess,     \* the session objects
  up,       \* upstream connections with what was written to them
  pump,     \* _pump_tcp_to_queue of each upstream
  queue,    \* down_q of each session
  req,      \* packet_up_upload handlers
  reader,   \* xhttp_downlink handlers: the session they read, or None
  reaping,  \* _reaper has found the session stale
  acked     \* history: packets answered with 200 in each session

vars == <<sess, up, pump, queue, req, reader, reaping, acked>>

Sessions == 1..MaxSessions
Packets  == 0..MaxSeq
Tasks    == Uploads \cup Upstreams \cup {Reaper}

(* stage: unborn, live (in the table), cancel (popped, awaits its pump),   *)
(* close (awaits its writer) or gone; by: the task that tears it down;     *)
(* task: the pump it cancelled.                                            *)
NewSession == [stage |-> "unborn", by |-> None, task |-> None, writer |-> None,
               buf |-> {}, bytes |-> 0, next |-> 0, fresh |-> FALSE]
NewUpstream == [open |-> FALSE, sess |-> None, late |-> FALSE, got |-> <<>>, chunks |-> 0]
IdleRequest == [stage |-> "idle", sess |-> 1, seq |-> 0]

Live(s)   == sess[s].stage = "live"
Own(h)    == sess[req[h].sess]
IsOpen(u) == u # None /\ up[u].open
Busy(t)   == \E s \in Sessions : sess[s].stage \in {"cancel", "close"} /\ sess[s].by = t

-----------------------------------------------------------------------------
(* The table holds the live session, or the next object is put there; the  *)
(* session is touched either way.                                          *)
GetOrCreate(s) ==
  /\ \/ Live(s)
     \/ /\ sess[s].stage = "unborn"
        /\ \A r \in Sessions : ~Live(r) /\ (r < s => sess[r].stage # "unborn")
  /\ sess' = [sess EXCEPT ![s].stage = "live", ![s].fresh = TRUE]

(* put_nowait(None): dropped when the queue is full.                       *)
Sentinel(s) ==
  queue' = [queue EXCEPT ![s] = IF Len(@) < QueueMax THEN Append(@, "end") ELSE @]

(* teardown up to its first suspension: the key is popped, whatever session*)
(* it holds by now, and the pump is cancelled.  A session that was never   *)
(* connected has neither pump nor writer and goes at once.  What touches a *)
(* popped session no longer matters: the reaper looks at the table only.   *)
TearDown(t) ==
  \/ /\ \A s \in Sessions : ~Live(s)
     /\ UNCHANGED <<sess, queue>>
  \/ \E s \in Sessions :
       /\ Live(s)
       /\ IF sess[s].writer = None
          THEN /\ sess' = [sess EXCEPT ![s].stage = "gone", ![s].fresh = FALSE]
               /\ Sentinel(s)
          ELSE /\ sess' = [sess EXCEPT ![s].stage = "cancel", ![s].fresh = FALSE,
                                       ![s].by = t, ![s].task = sess[s].writer]
               /\ UNCHANGED queue

(* Mutants of CloseWriter: the writer is left open; a teardown that its    *)
(* own pump started waits for that pump.                                   *)
CloseWriterForgotten(s) ==
  /\ sess[s].stage = "cancel"
  /\ pump[sess[s].task] = "done" \/ sess[s].by = sess[s].task
  /\ sess' = [sess EXCEPT ![s].stage = "close"]
  /\ UNCHANGED <<up, pump, queue, req, reader, reaping, acked>>

CloseWriterSelfWait(s) ==
  /\ sess[s].stage = "cancel"
  /\ pump[sess[s].task] = "done"
  /\ sess' = [sess EXCEPT ![s].stage = "close"]
  /\ up' = [up EXCEPT ![sess[s].writer].open = FALSE]
  /\ UNCHANGED <<pump, queue, req, reader, reaping, acked>>

(* The pump is over, or is the very task that awaits it (which asyncio     *)
(* refuses with an error that teardown swallows): the writer that the      *)
(* session has now is closed.                                              *)
CloseWriter(s) ==
  /\ sess[s].stage = "cancel"
  /\ pump[sess[s].task] = "done" \/ sess[s].by = sess[s].task
  /\ sess' = [sess EXCEPT ![s].stage = "close"]
  /\ up' = [up EXCEPT ![sess[s].writer].open = FALSE]
  /\ UNCHANGED <<pump, queue, req, reader, reaping, acked>>

(* wait_closed returned: the connection is unlisted, the downlink told.    *)
FinishTeardown(s) ==
  /\ sess[s].stage = "close"
  /\ sess' = [sess EXCEPT ![s].stage = "gone", ![s].by = None, ![s].task = None]
  /\ Sentinel(s)
  /\ pump' = [u \in Upstreams |-> IF u = sess[s].by THEN "done" ELSE pump[u]]
  /\ UNCHANGED <<up, req, reader, reaping, acked>>

-----------------------------------------------------------------------------
(* packet_up_upload: the request names its packet; its body comes later.   *)
Upload(h, q, s) ==
  /\ req[h].stage = "idle" /\ ~Busy(h)
  /\ q = 0 \/ s \in Chatty
  /\ GetOrCreate(s)
  /\ req' = [req EXCEPT ![h] = [stage |-> "body", sess |-> s, seq |-> q]]
  /\ UNCHANGED <<up, pump, queue, reader, reaping, acked>>

(* The client goes away before the body is complete: the session is kept.  *)
BodyLost(h) ==
  /\ req[h].stage = "body"
  /\ req' = [req EXCEPT ![h] = IdleRequest]
  /\ UNCHANGED <<sess, up, pump, queue, reader, reaping, acked>>

(* A handler that fails tears the key down and answers an error.           *)
Fail(h) ==
  /\ req' = [req EXCEPT ![h] = IdleRequest]
  /\ TearDown(h)
  /\ UNCHANGED <<up, pump, reader, reaping, acked>>

(* The body is too large, or the gate refuses it.                          *)
Refuse(h) == req[h].stage = "body" /\ Fail(h)

OutOfTurn(h) ==
  /\ req[h].stage = "body"
  /\ req[h].seq # (IF Own(h).writer = None THEN 0 ELSE Own(h).next)

Room(s) ==
  /\ Cardinality(sess[s].buf) < BufEntries
  /\ sess[s].bytes + 1 <= BufBytes

(* The handler answers 200, at once or after it has drained.               *)
Answer(h, mayDrain) ==
  \/ req' = [req EXCEPT ![h] = IdleRequest]
  \/ mayDrain /\ req' = [req EXCEPT ![h].stage = "drain"]

Ack(h) ==
  acked' = [acked EXCEPT ![req[h].sess] = @ \cup {req[h].seq}]

(* Mutant of Buffer: no limit.                                             *)
BufferUnbounded(h) ==
  LET s == req[h].sess IN
  /\ OutOfTurn(h)
  /\ sess' = [sess EXCEPT ![s].buf = @ \cup {req[h].seq}, ![s].bytes = @ + 1]
  /\ req' = [req EXCEPT ![h] = IdleRequest]
  /\ Ack(h)
  /\ UNCHANGED <<up, pump, queue, reader, reaping>>

(* A packet before or after its turn is buffered; the byte count only ever *)
(* grows.  With an upstream, the handler drains it above the high water.   *)
Buffer(h) ==
  LET s == req[h].sess IN
  /\ OutOfTurn(h)
  /\ Room(s)
  /\ sess' = [sess EXCEPT ![s].buf = @ \cup {req[h].seq}, ![s].bytes = @ + 1]
  /\ Answer(h, sess[s].writer # None)
  /\ Ack(h)
  /\ UNCHANGED <<up, pump, queue, reader, reaping>>

Overflow(h) == OutOfTurn(h) /\ ~Room(req[h].sess) /\ Fail(h)

(* Mutant of Run: the buffer is not looked at.                             *)
RunAlone(s, q) == {q}

(* Packet q and the buffered packets that follow it without a gap.         *)
Run(s, q) ==
  {q} \cup {r \in sess[s].buf : r > q /\ \A m \in (q + 1)..r : m \in sess[s].buf}

(* Written to upstream u in order, they leave the buffer.                  *)
Written(u, s, q) == up[u].got \o [i \in 1..Cardinality(Run(s, q)) |-> q + i - 1]

(* Mutants of AfterRun: next_seq counts one packet only; the whole buffer  *)
(* is dropped.                                                             *)
AfterRunOne(s, u, q) ==
  sess' = [sess EXCEPT ![s].writer = u, ![s].next = q + 1,
                       ![s].buf = @ \ (Run(s, q) \ {q})]

AfterRunClears(s, u, q) ==
  sess' = [sess EXCEPT ![s].writer = u,
                       ![s].next = q + Cardinality(Run(s, q)), ![s].buf = {}]

AfterRun(s, u, q) ==
  sess' = [sess EXCEPT ![s].writer = u,
                       ![s].next = q + Cardinality(Run(s, q)),
                       ![s].buf = @ \ (Run(s, q) \ {q})]

(* Packet 0 of a session without upstream dials it.                        *)
Dial(h) ==
  /\ req[h].stage = "body"
  /\ req[h].seq = 0
  /\ Own(h).writer = None
  /\ req' = [req EXCEPT ![h].stage = "dial"]
  /\ UNCHANGED <<sess, up, pump, queue, reader, reaping, acked>>

(* A bad header, a link that is not allowed, a timeout or a refusal.       *)
DialFails(h) == req[h].stage = "dial" /\ Fail(h)

(* open_connection returns, whatever has happened to the session since.    *)
(* The first bytes and the run are written and drained before the session  *)
(* learns of the connection (its writer is set last, 270): nobody else can *)
(* see it until then, so the drain is part of the dial, and one that raises*)
(* is a DialFails.                                                         *)
Dialled(h, u) ==
  LET s == req[h].sess IN
  /\ req[h].stage = "dial"
  /\ up[u].sess = None
  /\ up' = [up EXCEPT ![u] = [open |-> TRUE, sess |-> s, late |-> ~Live(s),
                              got |-> Written(u, s, 0), chunks |-> 0]]
  /\ AfterRun(s, u, 0)
  /\ pump' = [pump EXCEPT ![u] = "read"]
  /\ req' = [req EXCEPT ![h] = IdleRequest]
  /\ Ack(h)
  /\ UNCHANGED <<queue, reader, reaping>>

(* The packet whose turn it is; a run may follow it from the buffer.       *)
Deliver(h) ==
  LET s == req[h].sess
      u == sess[s].writer
      q == req[h].seq IN
  /\ req[h].stage = "body"
  /\ IsOpen(u)
  /\ q = sess[s].next
  /\ up' = [up EXCEPT ![u].got = Written(u, s, q)]
  /\ AfterRun(s, u, q)
  /\ Answer(h, TRUE)
  /\ Ack(h)
  /\ UNCHANGED <<pump, queue, reader, reaping>>

Drained(h) ==
  /\ req[h].stage = "drain"
  /\ req' = [req EXCEPT ![h] = IdleRequest]
  /\ UNCHANGED <<sess, up, pump, queue, reader, reaping, acked>>

(* writer.is_closing(), or drain raises on a lost connection.              *)
WriteFails(h) ==
  /\ Own(h).writer # None /\ ~IsOpen(Own(h).writer)
  /\ \/ req[h].stage = "body" /\ req[h].seq = Own(h).next
     \/ req[h].stage = "drain"
  /\ Fail(h)

-----------------------------------------------------------------------------
(* The pump reads a chunk; a full queue makes it wait.                     *)
Cancelled(u) ==
  LET s == up[u].sess IN s # None /\ sess[s].stage = "cancel" /\ sess[s].task = u

Chunk(u) ==
  LET s == up[u].sess IN
  /\ pump[u] = "read" /\ ~Cancelled(u)
  /\ up[u].open
  /\ up[u].chunks < MaxChunks
  /\ s \in Watched
  /\ up' = [up EXCEPT ![u].chunks = @ + 1]
  /\ IF Len(queue[s]) < QueueMax
     THEN queue' = [queue EXCEPT ![s] = Append(@, "data")] /\ UNCHANGED pump
     ELSE pump' = [pump EXCEPT ![u] = "put"] /\ UNCHANGED queue
  /\ UNCHANGED <<sess, req, reader, reaping, acked>>

Put(u) ==
  LET s == up[u].sess IN
  /\ pump[u] = "put" /\ ~Cancelled(u)
  /\ Len(queue[s]) < QueueMax
  /\ queue' = [queue EXCEPT ![s] = Append(@, "data")]
  /\ pump' = [pump EXCEPT ![u] = "read"]
  /\ UNCHANGED <<sess, up, req, reader, reaping, acked>>

(* The finally clause of the pump tears the key down, and ends when that   *)
(* teardown does.                                                          *)
PumpOver(u) ==
  /\ TearDown(u)
  /\ pump' = [pump EXCEPT ![u] =
                IF \E s \in Sessions : sess'[s].stage = "cancel" /\ sess'[s].by = u
                THEN "over" ELSE "done"]
  /\ UNCHANGED <<up, req, reader, reaping, acked>>

(* End of file, a read error, or the gate refuses the chunk.               *)
PumpEnds(u) == pump[u] = "read" /\ ~Cancelled(u) /\ PumpOver(u)

(* The CancelledError of the teardown reaches the pump at its await.       *)
PumpCancelled(u) == pump[u] \in {"read", "put"} /\ Cancelled(u) /\ PumpOver(u)

(* The connection is lost: writer.is_closing() from now on.                *)
Reset(u) ==
  /\ up[u].open
  /\ up' = [up EXCEPT ![u].open = FALSE]
  /\ UNCHANGED <<sess, pump, queue, req, reader, reaping, acked>>

-----------------------------------------------------------------------------
(* xhttp_downlink: a GET attaches to the session or creates it.            *)
Attach(d, s) ==
  /\ reader[d] = None
  /\ s \in Watched
  /\ GetOrCreate(s)
  /\ reader' = [reader EXCEPT ![d] = s]
  /\ UNCHANGED <<up, pump, queue, req, reaping, acked>>

(* Mutant of Read: the end is taken for one more chunk.                    *)
ReadPastEnd(d) ==
  LET s == reader[d] IN
  /\ s # None
  /\ queue[s] # <<>>
  /\ queue' = [queue EXCEPT ![s] = Tail(@)]
  /\ sess' = [sess EXCEPT ![s].fresh = Live(s)]
  /\ UNCHANGED <<up, pump, req, reader, reaping, acked>>

(* One item of the queue: a chunk for the client, or the end.              *)
Read(d) ==
  LET s == reader[d] IN
  /\ s # None
  /\ queue[s] # <<>>
  /\ queue' = [queue EXCEPT ![s] = Tail(@)]
  /\ IF Head(queue[s]) = "end"
     THEN reader' = [reader EXCEPT ![d] = None] /\ UNCHANGED sess
     ELSE sess' = [sess EXCEPT ![s].fresh = Live(s)] /\ UNCHANGED reader
  /\ UNCHANGED <<up, pump, req, reaping, acked>>

(* The client leaves the downlink; the session stays.                      *)
Detach(d) ==
  /\ reader[d] # None
  /\ reader' = [reader EXCEPT ![d] = None]
  /\ UNCHANGED <<sess, up, pump, queue, req, reaping, acked>>

-----------------------------------------------------------------------------
(* The idle timeout passes since the last touch.                           *)
Age(s) ==
  /\ Live(s) /\ sess[s].fresh
  /\ sess' = [sess EXCEPT ![s].fresh = FALSE]
  /\ UNCHANGED <<up, pump, queue, req, reader, reaping, acked>>

(* _reaper lists the stale keys, then tears them down one after the other: *)
(* the key may be touched, or hold another session, when its turn comes.   *)
FindStale(s) ==
  /\ ~reaping /\ ~Busy(Reaper)
  /\ Live(s) /\ ~sess[s].fresh
  /\ reaping' = TRUE
  /\ UNCHANGED <<sess, up, pump, queue, req, reader, acked>>

Reap ==
  /\ reaping
  /\ reaping' = FALSE
  /\ TearDown(Reaper)
  /\ UNCHANGED <<up, pump, req, reader, acked>>

(* A session object that nothing refers to any more is freed, with the     *)
(* connections whose pumps are over.                                       *)
Collect(s) ==
  LET mine == {u \in Upstreams : up[u].sess = s} IN
  /\ sess[s].stage = "gone"
  /\ \A h \in Uploads : req[h].stage # "idle" => req[h].sess # s
  /\ \A d \in Readers : reader[d] # s
  /\ \A u \in mine : pump[u] = "done"
  /\ sess' = [sess EXCEPT ![s] = NewSession]
  /\ up' = [u \in Upstreams |-> IF u \in mine THEN NewUpstream ELSE up[u]]
  /\ pump' = [u \in Upstreams |-> IF u \in mine THEN "none" ELSE pump[u]]
  /\ queue' = [queue EXCEPT ![s] = <<>>]
  /\ acked' = [acked EXCEPT ![s] = {}]
  /\ UNCHANGED <<req, reader, reaping>>

-----------------------------------------------------------------------------
Init ==
  /\ sess = [s \in Sessions |-> NewSession]
  /\ up = [u \in Upstreams |-> NewUpstream]
  /\ pump = [u \in Upstreams |-> "none"]
  /\ queue = [s \in Sessions |-> <<>>]
  /\ req = [h \in Uploads |-> IdleRequest]
  /\ reader = [d \in Readers |-> None]
  /\ reaping = FALSE
  /\ acked = [s \in Sessions |-> {}]

Request(h) ==
  \/ \E q \in Packets, s \in Sessions : Upload(h, q, s)
  \/ BodyLost(h) \/ Refuse(h) \/ Buffer(h) \/ Overflow(h)
  \/ Dial(h) \/ DialFails(h) \/ \E u \in Upstreams : Dialled(h, u)
  \/ Deliver(h) \/ Drained(h) \/ WriteFails(h)

Pump(u) == Chunk(u) \/ Put(u) \/ PumpEnds(u) \/ PumpCancelled(u) \/ Reset(u)

Downlink(d) == (\E s \in Sessions : Attach(d, s)) \/ Read(d) \/ Detach(d)

Session(s) == CloseWriter(s) \/ FinishTeardown(s) \/ Age(s) \/ FindStale(s) \/ Collect(s)

Next ==
  \/ \E h \in Uploads : Request(h)
  \/ \E u \in Upstreams : Pump(u)
  \/ \E d \in Readers : Downlink(d)
  \/ \E s \in Sessions : Session(s)
  \/ Reap

Spec == Init /\ [][Next]_vars

(* The event loop delivers a cancellation and resumes a teardown; a client *)
(* that keeps its downlink open reads what is there.                       *)
Fairness ==
  /\ \A u \in Upstreams : WF_vars(PumpCancelled(u))
  /\ \A s \in Sessions : WF_vars(CloseWriter(s)) /\ WF_vars(FinishTeardown(s))
  /\ \A d \in Readers : WF_vars(Read(d))

FairSpec == Spec /\ Fairness

-----------------------------------------------------------------------------
SessionRecord ==
  [stage : {"unborn", "live", "cancel", "close", "gone"}, by : Tasks \cup {None},
   task : Upstreams \cup {None}, writer : Upstreams \cup {None}, buf : SUBSET Packets,
   bytes : 0..BufBytes, next : Nat, fresh : BOOLEAN]

UpstreamRecord ==
  [open : BOOLEAN, sess : Sessions \cup {None}, late : BOOLEAN, got : Seq(Packets),
   chunks : Nat]

RequestRecord ==
  [stage : {"idle", "body", "dial", "drain"}, sess : Sessions, seq : Packets]

TypeOK ==
  /\ sess \in [Sessions -> SessionRecord]
  /\ up \in [Upstreams -> UpstreamRecord]
  /\ pump \in [Upstreams -> {"none", "read", "put", "over", "done"}]
  /\ queue \in [Sessions -> Seq({"data", "end"})]
  /\ req \in [Uploads -> RequestRecord]
  /\ reader \in [Readers -> Sessions \cup {None}]
  /\ reaping \in BOOLEAN
  /\ acked \in [Sessions -> SUBSET Packets]

(* Whatever the client repeats or reorders, and however often packet 0     *)
(* dials, an upstream receives packets 0, 1, 2, ... without gap and without*)
(* repetition (next_seq, seq_buf and writer agree).                        *)
UpstreamGetsPrefix ==
  \A u \in Upstreams : \A i \in DOMAIN up[u].got : up[u].got[i] = i - 1

(* A packet whose turn has come is never left in the buffer, where no later*)
(* upload would look for it.                                               *)
NothingReadyIsHeld ==
  \A s \in Sessions : sess[s].writer # None => sess[s].next \notin sess[s].buf

(* As long as the session lives, a packet that was answered with 200 was   *)
(* written to an upstream of the session or waits in its buffer.           *)
NoAckedPacketLost ==
  \A s \in Sessions : Live(s) =>
    acked[s] \subseteq sess[s].buf \cup
      UNION {Range(up[u].got) : u \in {v \in Upstreams : up[v].sess = s}}

(* An upstream outlives its session only when it was dialled while the     *)
(* session was torn down, or displaced by a second dial of packet 0.       *)
UpstreamsDieWithSession ==
  \A u \in Upstreams :
    /\ up[u].open
    /\ sess[up[u].sess].stage \in {"close", "gone"}
    => up[u].late \/ sess[up[u].sess].writer # u

(* Every teardown ends, although it waits for a pump whose own cleanup     *)
(* tears down whatever session has taken the key meanwhile.                *)
TeardownCompletes ==
  \A s \in Sessions : sess[s].stage = "cancel" ~> sess[s].stage = "gone"

(* A downlink ends after its session does, if the queue had room for the   *)
(* end and no other downlink reads the same queue.                         *)
DownlinkEnds ==
  \A d \in Readers, s \in Sessions :
    (/\ reader[d] = s
     /\ sess[s].stage = "gone"
     /\ "end" \in Range(queue[s])
     /\ \A e \in Readers \ {d} : reader[e] # s)
    ~> reader[d] # s

(* The three together.                                                     *)
SessionsEnd == []UpstreamsDieWithSession /\ TeardownCompletes /\ DownlinkEnds
=============================================================================
