---------------------------- MODULE GatewayProofs ----------------------------
(***************************************************************************)
(* Proofs about the gateway path: how long the endpoint cache can be wrong *)
(* (StaleAnswersEnd), and that batching keeps the stream and never takes   *)
(* the event loop (FramesKept), for every number of endpoints, clients,    *)
(* requests and frames.                                                    *)
(***************************************************************************)
EXTENDS MCGateway, FiniteSetTheorems, SequenceTheorems, TLAPS

-----------------------------------------------------------------------------
(* A step of one part leaves the variables of the others as they are.      *)
LEMMA OtherParts ==
  ASSUME NEW part \in {"cache", "relay", "batch", "http"}, In(part)
  PROVE  /\ part # "cache" => UNCHANGED endpointVars
         /\ part # "relay" => UNCHANGED wsVars
         /\ part # "batch" => UNCHANGED batcherVars
         /\ part # "http"  => UNCHANGED httpVars
BY DEF In, endpointVars, wsVars, batcherVars, httpVars

-----------------------------------------------------------------------------
(* The endpoint cache.  A stale answer under way is as old as the change   *)
(* that made it stale; one that is in the cache has used up its life by    *)
(* that time, but for the time of its query.                               *)
Answer == [token : Tokens, target : Targets, age : 0..QueryTime]

VisitFollows(v) ==
  visit[v] # Idle /\ visit[v].token \in Endpoints /\ visit[v].target # Resolved(visit[v].token)
    => unchanged[visit[v].token] <= visit[v].age

EntryFollows(t) ==
  /\ cache[t] \in [target : Targets, left : 0..TtlPos]
  /\ cache[t].left <= Ttl(cache[t].target)
  /\ t \in Endpoints /\ cache[t].left > 0 /\ cache[t].target # Resolved(t)
       => unchanged[t] + cache[t].left <= QueryTime + Ttl(cache[t].target)

RowsTyped ==
  /\ row \in [Endpoints -> Rows] /\ changing \subseteq Endpoints
  /\ unchanged \in [Endpoints -> 0..Horizon]
  /\ visit \in [Visits -> Answer \cup {Idle}]

CacheInv ==
  /\ RowsTyped
  /\ \A v \in Visits : VisitFollows(v)
  /\ DOMAIN cache \subseteq Tokens
  /\ \A t \in DOMAIN cache : EntryFollows(t)
-----------------------------------------------------------------------------
LEMMA QueryStep ==
  ASSUME CacheInv, NEW u \in Visits, NEW k \in Tokens, Query(u, k)
  PROVE  CacheInv'
<1> USE EndpointCacheAssumption DEF CacheInv
<1> DEFINE new == [token |-> k, target |-> Resolved(k), age |-> 0]
<1>1. new \in Answer
  BY DEF Resolved, Targets, Tokens, RowsTyped, Rows, Answer
<1>2. RowsTyped' /\ \A v \in Visits : visit'[v] = IF v = u THEN new ELSE visit[v]
  BY <1>1 DEF RowsTyped, Query
<1>4. ASSUME NEW v \in Visits PROVE VisitFollows(v)'
  BY <1>1, <1>2 DEF Query, VisitFollows, Resolved, RowsTyped
<1>3. (DOMAIN cache)' \subseteq Tokens /\ \A t \in (DOMAIN cache)' : EntryFollows(t)'
  BY DEF Query, Without, EntryFollows, Resolved
<1> QED BY <1>2, <1>3, <1>4

LEMMA PutStep ==
  ASSUME CacheInv, NEW u \in Visits, Put(u)
  PROVE  CacheInv'
<1> USE EndpointCacheAssumption DEF CacheInv
<1> DEFINE k == visit[u].token
           new == [target |-> visit[u].target, left |-> Ttl(visit[u].target)]
<1>1. visit[u] \in Answer /\ k \in Tokens /\ visit[u].target \in Targets
  BY DEF Put, RowsTyped, Answer
<1>2. new \in [target : Targets, left : 0..TtlPos]
  BY <1>1 DEF Ttl
<1>3. RowsTyped' /\ \A v \in Visits : visit'[v] = IF v = u THEN Idle ELSE visit[v]
  BY DEF RowsTyped, Put
<1>4. ASSUME NEW v \in Visits PROVE VisitFollows(v)'
  BY <1>3 DEF Put, VisitFollows, Resolved
<1>5. PICK D : D \subseteq DOMAIN cache /\ cache' = [t \in (DOMAIN cache \ D) \cup {k} |-> IF t = k THEN new ELSE cache[t]]
  BY DEF Put, Oldest
<1>6. DOMAIN cache' = (DOMAIN cache \ D) \cup {k} /\ \A t \in DOMAIN cache' : cache'[t] = IF t = k THEN new ELSE cache[t]
  BY <1>5
<1>7. ASSUME NEW t \in DOMAIN cache' PROVE EntryFollows(t)'
  <2>1. CASE t = k
    <3>1. t \in Endpoints /\ new.target # Resolved(t) => unchanged[t] <= QueryTime
      BY <1>1, <2>1 DEF VisitFollows, Answer, RowsTyped, Put
    <3>2. Resolved(t)' = Resolved(t) /\ cache'[t] = new /\ unchanged' = unchanged
      BY <1>6, <2>1 DEF Put, Resolved
    <3> QED BY <1>1, <1>2, <3>1, <3>2 DEF EntryFollows, RowsTyped, Ttl
  <2>2. CASE t # k
    BY <1>6, <2>2 DEF EntryFollows, Put, Resolved
  <2> QED BY <2>1, <2>2
<1> QED BY <1>1, <1>3, <1>4, <1>6, <1>7

(* A row that is written is unchanged for no time at all.                  *)
LEMMA SetRowStep ==
  ASSUME CacheInv, NEW i \in Endpoints, NEW r \in Rows, SetRow(i, r),
         UNCHANGED <<cache, visit>>, changing' \subseteq Endpoints
  PROVE  CacheInv'
<1> USE EndpointCacheAssumption DEF CacheInv
<1>1. /\ RowsTyped'
      /\ \A t \in Endpoints : unchanged'[t] = (IF t = i THEN 0 ELSE unchanged[t])
      /\ \A t \in Endpoints : t # i => row'[t] = row[t]
  BY DEF RowsTyped, SetRow, Horizon
<1>2. \A t \in Endpoints : t # i => Resolved(t)' = Resolved(t)
  BY <1>1 DEF Resolved
<1>3. ASSUME NEW v \in Visits PROVE VisitFollows(v)'
  BY <1>1, <1>2 DEF VisitFollows, RowsTyped, Answer
<1>4. ASSUME NEW t \in DOMAIN cache PROVE EntryFollows(t)'
  <2>1. CASE t = i
    BY <1>1, <2>1 DEF EntryFollows, Ttl
  <2>2. CASE t # i
    BY <1>1, <1>2, <2>2 DEF EntryFollows
  <2> QED BY <2>1, <2>2
<1> QED BY <1>1, <1>3, <1>4

LEMMA CacheTickStep ==
  ASSUME CacheInv, EndpointTick
  PROVE  CacheInv'
<1> USE EndpointCacheAssumption DEF CacheInv
<1>1. \A v \in Visits : visit'[v] = IF visit[v] = Idle THEN Idle ELSE [visit[v] EXCEPT !.age = @ + 1]
  BY DEF EndpointTick
<1>2. \A v \in Visits : visit[v] # Idle =>
        /\ visit[v] \in Answer /\ visit'[v] \in Answer
        /\ visit'[v].token = visit[v].token /\ visit'[v].target = visit[v].target
        /\ visit'[v].age = visit[v].age + 1
  BY <1>1 DEF EndpointTick, RowsTyped, Answer
<1>3. \A t \in Endpoints : unchanged'[t] \in 0..Horizon /\ unchanged'[t] <= unchanged[t] + 1
  BY DEF EndpointTick, RowsTyped, Horizon
<1>4. \A t : Resolved(t)' = Resolved(t)
  BY DEF EndpointTick, Resolved
<1>5. RowsTyped'
  BY <1>1, <1>2, <1>3 DEF RowsTyped, EndpointTick
<1>6. ASSUME NEW v \in Visits PROVE VisitFollows(v)'
  <2> SUFFICES ASSUME (visit[v] # Idle /\ visit[v].token \in Endpoints
                         /\ visit[v].target # Resolved(visit[v].token))'
               PROVE  (unchanged[visit[v].token] <= visit[v].age)'
    BY DEF VisitFollows
  <2>1. visit[v] # Idle /\ visit[v].token \in Endpoints /\ visit[v].age \in Nat
        /\ visit[v].target # Resolved(visit[v].token)
    BY <1>1, <1>2 DEF Answer, Resolved, EndpointTick
  <2>2. unchanged[visit[v].token] <= visit[v].age /\ unchanged[visit[v].token] \in Nat
    BY <2>1 DEF VisitFollows, RowsTyped, Horizon
  <2> QED BY <1>2, <1>3, <2>1, <2>2 DEF Horizon
<1>7. DOMAIN cache' = DOMAIN cache
      /\ \A t \in DOMAIN cache : cache'[t] = [cache[t] EXCEPT !.left = IF @ = 0 THEN 0 ELSE @ - 1]
  BY DEF EndpointTick
<1>8. ASSUME NEW t \in DOMAIN cache PROVE EntryFollows(t)'
  <2>1. cache[t] \in [target : Targets, left : 0..TtlPos]
    BY DEF EntryFollows
  <2>2. cache'[t].target = cache[t].target
        /\ cache'[t].left = (IF cache[t].left = 0 THEN 0 ELSE cache[t].left - 1)
        /\ cache'[t] \in [target : Targets, left : 0..TtlPos]
    BY <1>7, <2>1
  <2>3. Ttl(cache[t].target) \in Nat
    BY DEF Ttl
  <2> QED BY <1>3, <1>4, <2>1, <2>2, <2>3 DEF EntryFollows, RowsTyped
<1> QED BY <1>5, <1>6, <1>7, <1>8

LEMMA CacheStep ==
  ASSUME CacheInv, [GatewayNext]_gatewayVars
  PROVE  CacheInv'
<1>1. ASSUME UNCHANGED endpointVars PROVE CacheInv'
  BY <1>1 DEF endpointVars, CacheInv, RowsTyped, VisitFollows, EntryFollows, Resolved
<1>2. ASSUME NEW v \in Visits, QueryFails(v) PROVE CacheInv'
  <2>1. \A w \in Visits : visit'[w] = IF w = v THEN Idle ELSE visit[w]
    BY <1>2 DEF CacheInv, RowsTyped, QueryFails
  <2> QED BY <1>2, <2>1 DEF CacheInv, RowsTyped, QueryFails, VisitFollows, EntryFollows, Resolved
<1>3. ASSUME NEW i \in Endpoints, Invalidate(i) PROVE CacheInv'
  BY <1>3 DEF CacheInv, RowsTyped, Invalidate, Without, VisitFollows, EntryFollows, Resolved
<1>4. ASSUME NEW i \in Endpoints, CreateInstance(i) PROVE CacheInv'
  BY <1>4, SetRowStep DEF CreateInstance, Rows, CacheInv, RowsTyped
<1>5. ASSUME NEW i \in Endpoints, NEW r \in {"stopped", "deleted"}, TakenDown(i, r) PROVE CacheInv'
  BY <1>5, SetRowStep DEF TakenDown, Rows, CacheInv, RowsTyped
<1>6. ASSUME NEW i \in Endpoints, NEW n \in Nodes, BroughtUp(i, n) PROVE CacheInv'
  BY <1>6, SetRowStep DEF BroughtUp, Rows, CacheInv, RowsTyped
<1>7. CASE UNCHANGED gatewayVars
  BY <1>1, <1>7 DEF gatewayVars
<1>8. CASE GatewayNext
  BY <1>1, <1>2, <1>3, <1>4, <1>5, <1>6, <1>8, OtherParts, QueryStep, PutStep, CacheTickStep DEF GatewayNext
<1> QED BY <1>7, <1>8

LEMMA CacheInit == GatewayInit => CacheInv
BY EndpointCacheAssumption
   DEF GatewayInit, EndpointInit, CacheInv, RowsTyped, Rows, Horizon, VisitFollows

(* A stale answer of the cache ends with the life of its entry and of the  *)
(* query behind it: StaleAnswersEnd of EndpointCache.                      *)
THEOREM StaleAnswersAreShort == GatewaySpec => []StaleAnswersEnd
<1>1. CacheInv => StaleAnswersEnd
  BY EndpointCacheAssumption
     DEF CacheInv, RowsTyped, StaleAnswersEnd, Valid, Cached, EntryFollows, Ttl
<1> QED BY <1>1, CacheInit, CacheStep, PTL DEF GatewaySpec

-----------------------------------------------------------------------------
(* The batcher.  What was written, the batch and the buffer are one run of *)
(* consecutive frames, for as long as there is somebody to write to; the   *)
(* last flush of the close path finds no more frames coming.               *)
Frames == Seq(1..MaxFrames)

BatcherTyped ==
  /\ buffer \in Frames /\ batch \in Frames /\ got \in Frames
  /\ clock \in {"off", "running", "passed"} /\ closed \in BOOLEAN
  /\ frame \in 0..MaxFrames /\ client \in {"on", "gone"}
  /\ holder \in {"none", "flusher", "close"}
  /\ task \in [flusher : FlusherStates, down : {"reading", "blocked", "ended"},
               receive : {"waiting", "ended"}, close : {"no", "flushing", "flushed", "ended"}]

OneFlush ==
  /\ task.flusher = "flushing" <=> holder = "flusher"
  /\ task.close = "flushing" <=> holder = "close"
  /\ task.close # "no" => task.down = "ended"
  /\ task.close = "ended" => closed /\ task.flusher = "ended"
  /\ holder = "close" => buffer = <<>>
  /\ holder = "none" => batch = <<>>
  /\ held = FALSE

Pending == IF task.down = "blocked" THEN 1 ELSE 0

StreamKept ==
  /\ \A i \in 1..Len(got) : got[i] = i
  /\ client = "on" => \A i \in 1..Len(batch) : batch[i] = Len(got) + i
  /\ client = "on" /\ task.close # "ended" =>
       \A i \in 1..Len(buffer) : buffer[i] = Len(got) + Len(batch) + i
  /\ client = "on" /\ ~closed /\ task.down # "ended" =>
       Len(got) + Len(batch) + Len(buffer) = frame - Pending
  /\ task.down = "blocked" => frame > 0

BatcherInv == BatcherTyped /\ OneFlush /\ StreamKept

LEMMA NoFrames == <<>> \in Frames /\ Len(<<>>) = 0
BY DEF Frames

LEMMA AddStep ==
  ASSUME BatcherInv, task.down # "ended",
         \/ UpstreamSends
         \/ Unblocked
  PROVE  BatcherInv'
<1> USE WsBatcherAssumption DEF BatcherInv
<1>1. /\ frame' \in 1..MaxFrames /\ frame' = frame + (IF task.down = "blocked" THEN 0 ELSE 1)
      /\ UNCHANGED <<batch, holder, closed, got, client, held>>
  BY DEF UpstreamSends, Unblocked, BatcherTyped, StreamKept
<1>2. \/ /\ task'.down = "blocked" /\ task.down = "reading"
         /\ task' = [task EXCEPT !.down = "blocked"]
         /\ UNCHANGED <<buffer, clock>>
      \/ /\ task'.down = "reading"
         /\ \/ task'.flusher = task.flusher
            \/ task.flusher \in {"none", "ended"} /\ task'.flusher = "ready" /\ ~closed
         /\ task'.close = task.close /\ task'.receive = task.receive
         /\ IF closed THEN UNCHANGED <<buffer, clock>>
            ELSE buffer' = Append(buffer, frame') /\ clock' \in {"running", clock}
  <2>1. CASE UpstreamSends /\ Full
    BY <2>1 DEF UpstreamSends, Goto, BatcherTyped
  <2>2. CASE UpstreamSends /\ ~Full
    BY <2>2 DEF UpstreamSends, AddFrame, BatcherTyped
  <2>3. CASE Unblocked
    BY <2>3 DEF Unblocked, AddFrame, BatcherTyped
  <2> QED BY <2>1, <2>2, <2>3
<1>3. task' \in [flusher : FlusherStates, down : {"reading", "blocked", "ended"},
               receive : {"waiting", "ended"}, close : {"no", "flushing", "flushed", "ended"}]
  BY DEF UpstreamSends, Unblocked, AddFrame, Goto, BatcherTyped, FlusherStates
<1>4. BatcherTyped'
  <2>1. buffer' \in Frames
    <3>1. buffer \in Seq(1..MaxFrames) /\ frame' \in 1..MaxFrames
      BY <1>1 DEF BatcherTyped, Frames
    <3>2. Append(buffer, frame') \in Seq(1..MaxFrames)
      BY <3>1
    <3> QED BY <1>2, <3>1, <3>2 DEF Frames
  <2> QED BY <1>1, <1>2, <1>3, <2>1 DEF BatcherTyped
<1>5. OneFlush'
  BY <1>1, <1>2 DEF OneFlush, BatcherTyped
<1>6. StreamKept'
  <2>1. CASE UNCHANGED buffer
    BY <1>1, <1>2, <2>1 DEF StreamKept, OneFlush, Pending, BatcherTyped
  <2>2. CASE ~closed /\ buffer' = Append(buffer, frame') /\ task'.down = "reading" /\ task'.close = task.close
    <3>1. Len(buffer') = Len(buffer) + 1 /\ Len(buffer) \in Nat /\ Len(batch) \in Nat /\ Len(got) \in Nat
          /\ \A i \in 1..Len(buffer') : buffer'[i] = IF i = Len(buffer) + 1 THEN frame' ELSE buffer[i]
      BY <2>2, <1>1 DEF BatcherTyped, Frames
    <3> QED BY <1>1, <2>2, <3>1 DEF StreamKept, OneFlush, Pending, BatcherTyped
  <2> QED BY <1>2, <2>1, <2>2
<1> QED BY <1>4, <1>5, <1>6

LEMMA UpstreamEndsStep ==
  ASSUME BatcherInv, UpstreamEnds \/ BackpressureTimeout \/ DeadlinePasses \/ ClientLeaves \/ FlusherWakes
  PROVE  BatcherInv'
<1>1. /\ UNCHANGED <<buffer, batch, holder, frame, got, held>> /\ closed' \in BOOLEAN /\ (closed => closed')
      /\ client' \in {"gone", client} /\ clock' \in {clock, "passed"}
      /\ task'.close = task.close /\ task'.down \in {"ended", task.down}
      /\ \/ task'.flusher = task.flusher
         \/ task'.flusher = "ready" /\ task.flusher \in {"idle", "coalescing"}
      /\ task' \in [flusher : FlusherStates, down : {"reading", "blocked", "ended"},
               receive : {"waiting", "ended"}, close : {"no", "flushing", "flushed", "ended"}]
  BY DEF UpstreamEnds, BackpressureTimeout, DeadlinePasses, ClientLeaves, FlusherWakes, Goto,
         BatcherInv, BatcherTyped, FlusherStates
<1>2. BatcherTyped'
  BY <1>1 DEF BatcherInv, BatcherTyped
<1>3. OneFlush'
  BY <1>1 DEF BatcherInv, OneFlush, BatcherTyped
<1>4. StreamKept'
  BY <1>1 DEF BatcherInv, StreamKept, Pending, BatcherTyped
<1> QED BY <1>2, <1>3, <1>4 DEF BatcherInv

LEMMA FlusherGoesOnStep ==
  ASSUME BatcherInv, FlusherGoesOn
  PROVE  BatcherInv'
<1> USE WsBatcherAssumption DEF BatcherInv
<1>1. /\ UNCHANGED <<closed, frame, got, client, held>>
      /\ task'.close = task.close /\ task'.down = task.down
      /\ task' \in [flusher : FlusherStates, down : {"reading", "blocked", "ended"},
               receive : {"waiting", "ended"}, close : {"no", "flushing", "flushed", "ended"}]
      /\ task.flusher = "ready"
      /\ \/ UNCHANGED <<buffer, batch, holder, clock>> /\ task'.flusher \in {"ended", "idle", "coalescing"}
         \/ /\ holder = "none" /\ TakeBatch("flusher") /\ ~closed
            /\ task'.flusher = "flushing"
  BY DEF FlusherGoesOn, Goto, BatcherTyped, FlusherStates, OneFlush
<1>2. CASE UNCHANGED <<buffer, batch, holder, clock>> /\ task'.flusher \in {"ended", "idle", "coalescing"}
  <2>1. BatcherTyped' BY <1>1, <1>2 DEF BatcherTyped
  <2>2. OneFlush' BY <1>1, <1>2 DEF OneFlush, BatcherTyped
  <2>3. StreamKept' BY <1>1, <1>2 DEF StreamKept, Pending
  <2> QED BY <2>1, <2>2, <2>3
<1>3. CASE holder = "none" /\ TakeBatch("flusher") /\ ~closed /\ task'.flusher = "flushing"
  <2>1. batch' = buffer /\ buffer' = <<>> /\ Len(batch) = 0 /\ Len(buffer') = 0 /\ holder' = "flusher" /\ clock' = "off"
    BY <1>3 DEF TakeBatch, OneFlush
  <2>2. BatcherTyped' BY <1>1, <2>1 DEF BatcherTyped, Frames
  <2>3. OneFlush' BY <1>1, <1>3, <2>1 DEF OneFlush, BatcherTyped
  <2>4. StreamKept' BY <1>1, <1>3, <2>1 DEF StreamKept, Pending, OneFlush, BatcherTyped, Frames
  <2> QED BY <2>2, <2>3, <2>4
<1> QED BY <1>1, <1>2, <1>3

LEMMA SendStep ==
  ASSUME BatcherInv, SendFrame \/ SendFails \/ FlushEnds
  PROVE  BatcherInv'
<1> USE WsBatcherAssumption DEF BatcherInv
<1>1. CASE SendFrame
  <2>1. /\ batch # <<>> /\ batch \in Seq(1..MaxFrames) /\ got \in Seq(1..MaxFrames) /\ client = "on"
        /\ got' = Append(got, Head(batch)) /\ batch' = Tail(batch)
        /\ UNCHANGED <<buffer, holder, clock, closed, task, frame, client, held>> /\ holder # "none"
    BY <1>1 DEF SendFrame, BatcherTyped, Frames
  <2>2. /\ Head(batch) \in 1..MaxFrames /\ Tail(batch) \in Seq(1..MaxFrames)
        /\ Len(batch') = Len(batch) - 1 /\ Len(batch) \in Nat /\ Len(batch) > 0
        /\ Head(batch) = batch[1] /\ \A i \in 1..Len(batch') : batch'[i] = batch[i + 1]
    BY <2>1
  <2>3. /\ got' \in Seq(1..MaxFrames) /\ Len(got') = Len(got) + 1 /\ Len(got) \in Nat
        /\ \A i \in 1..Len(got') : got'[i] = IF i = Len(got) + 1 THEN Head(batch) ELSE got[i]
    BY <2>1, <2>2
  <2>4. BatcherTyped' BY <2>1, <2>2, <2>3 DEF BatcherTyped, Frames
  <2>5. OneFlush' BY <2>1 DEF OneFlush
  <2>6. StreamKept'
    <3>1. Len(got') + Len(batch') = Len(got) + Len(batch) /\ batch[1] = Len(got) + 1
      BY <2>1, <2>2, <2>3 DEF StreamKept
    <3>2. \A i \in 1..Len(got') : got'[i] = i
      <4> SUFFICES ASSUME NEW i \in 1..Len(got') PROVE got'[i] = i
        OBVIOUS
      <4>1. CASE i = Len(got) + 1 BY <4>1, <2>2, <2>3, <3>1
      <4>2. CASE i # Len(got) + 1 BY <4>2, <2>3 DEF StreamKept
      <4> QED BY <4>1, <4>2
    <3>3. \A i \in 1..Len(batch') : batch'[i] = Len(got') + i
      <4> SUFFICES ASSUME NEW i \in 1..Len(batch') PROVE batch'[i] = Len(got') + i
        OBVIOUS
      <4>1. i + 1 \in 1..Len(batch) /\ batch'[i] = batch[i + 1]
        BY <2>2
      <4> QED BY <2>1, <2>3, <4>1 DEF StreamKept
    <3>4. \A i \in 1..Len(buffer) : task.close # "ended" => buffer[i] = Len(got') + Len(batch') + i
      BY <2>1, <3>1 DEF StreamKept
    <3> QED BY <2>1, <3>1, <3>2, <3>3, <3>4 DEF StreamKept, Pending
  <2> QED BY <2>4, <2>5, <2>6
<1>2. CASE SendFails
  <2>1. BatcherTyped' BY <1>2, NoFrames DEF SendFails, BatcherTyped
  <2>2. OneFlush' BY <1>2 DEF SendFails, OneFlush
  <2>3. StreamKept' BY <1>2 DEF SendFails, StreamKept, Pending
  <2> QED BY <2>1, <2>2, <2>3
<1>3. CASE FlushEnds
  <2>1. /\ UNCHANGED <<buffer, batch, clock, frame, got, client, held>> /\ holder' = "none" /\ batch = <<>>
        /\ closed' = (closed \/ holder = "close") /\ holder \in {"flusher", "close"}
        /\ task' = IF holder = "flusher" THEN [task EXCEPT !.flusher = "ready"] ELSE [task EXCEPT !.close = "flushed"]
    BY <1>3 DEF FlushEnds, Goto, BatcherTyped
  <2>2. task'.down = task.down BY <2>1 DEF BatcherTyped
  <2>3. BatcherTyped' BY <2>1 DEF BatcherTyped, FlusherStates
  <2>4. OneFlush' BY <2>1 DEF OneFlush, BatcherTyped
  <2>5. StreamKept' BY <2>1, <2>2 DEF StreamKept, Pending, BatcherTyped, OneFlush
  <2> QED BY <2>3, <2>4, <2>5
<1> QED BY <1>1, <1>2, <1>3

LEMMA CloseStep ==
  ASSUME BatcherInv, Disconnected \/ CloseSent \/ FlusherStopped
  PROVE  BatcherInv'
<1> USE WsBatcherAssumption DEF BatcherInv
<1>1. CASE Disconnected
  <2>1. /\ UNCHANGED <<batch, holder, closed, frame, got, client, held>> /\ client = "gone"
        /\ buffer' \in {buffer, <<>>} /\ clock' \in {clock, "off"}
        /\ task' = [task EXCEPT !.receive = "ended"]
    BY <1>1 DEF Disconnected, Goto
  <2>3. BatcherTyped' BY <2>1, NoFrames DEF BatcherTyped
  <2>4. OneFlush' BY <2>1 DEF OneFlush, BatcherTyped
  <2>5. StreamKept' BY <2>1 DEF StreamKept, BatcherTyped
  <2> QED BY <2>3, <2>4, <2>5
<1>2. CASE CloseSent
  <2>1. /\ UNCHANGED <<frame, got, client, held>> /\ task.close = "no"
        /\ \/ /\ closed' = TRUE /\ UNCHANGED <<buffer, batch, holder, clock>>
              /\ task' = [task EXCEPT !.down = "ended", !.receive = "ended", !.close = "flushed"]
           \/ /\ TakeBatch("close") /\ closed' = closed /\ holder = "none"
              /\ task' = [task EXCEPT !.down = "ended", !.receive = "ended", !.close = "flushing"]
    BY <1>2 DEF CloseSent, BatcherTyped
  <2>2. task'.down = "ended" /\ task'.close # "no" /\ task'.close # "ended" /\ task'.flusher = task.flusher
    BY <2>1 DEF BatcherTyped
  <2>3. BatcherTyped' BY <2>1, NoFrames DEF BatcherTyped, TakeBatch
  <2>4. OneFlush' BY <2>1, <2>2 DEF OneFlush, BatcherTyped, TakeBatch
  <2>5. StreamKept'
    <3>1. CASE UNCHANGED <<buffer, batch>>
      BY <2>1, <2>2, <3>1 DEF StreamKept, Pending
    <3>2. CASE holder = "none" /\ TakeBatch("close")
      <4>1. batch' = buffer /\ buffer' = <<>> /\ Len(batch) = 0 /\ Len(buffer') = 0
        BY <3>2 DEF TakeBatch, OneFlush
      <4> QED BY <2>1, <2>2, <4>1 DEF StreamKept, Pending, BatcherTyped, Frames
    <3> QED BY <2>1, <3>1, <3>2
  <2> QED BY <2>3, <2>4, <2>5
<1>3. CASE FlusherStopped
  <2>1. /\ UNCHANGED <<buffer, clock, frame, got, client, held>> /\ closed' = TRUE
        /\ task' = [task EXCEPT !.close = "ended", !.flusher = "ended"] /\ task.close = "flushed"
        /\ holder' = "none" /\ batch' = <<>>
    BY <1>3 DEF FlusherStopped, OneFlush, BatcherTyped
  <2>2. task'.down = "ended" /\ task'.close = "ended" /\ task'.flusher = "ended"
    BY <2>1 DEF OneFlush, BatcherTyped
  <2>3. BatcherTyped' BY <2>1, NoFrames DEF BatcherTyped, FlusherStates
  <2>4. OneFlush' BY <2>1, <2>2 DEF OneFlush
  <2>5. StreamKept' BY <2>1, <2>2 DEF StreamKept, Pending
  <2> QED BY <2>3, <2>4, <2>5
<1> QED BY <1>1, <1>2, <1>3

LEMMA BatcherStep ==
  ASSUME BatcherInv, [GatewayNext]_gatewayVars
  PROVE  BatcherInv'
<1>1. ASSUME UNCHANGED batcherVars PROVE BatcherInv'
  BY <1>1 DEF batcherVars, BatcherInv, BatcherTyped, OneFlush, StreamKept, Pending
<1>2. (UpstreamSends \/ Unblocked) => task.down # "ended"
  BY DEF UpstreamSends, Unblocked
<1>3. CASE UNCHANGED gatewayVars
  BY <1>1, <1>3 DEF gatewayVars
<1>4. CASE GatewayNext
  BY <1>1, <1>2, <1>4, OtherParts, AddStep, UpstreamEndsStep, FlusherGoesOnStep, SendStep, CloseStep
     DEF GatewayNext
<1> QED BY <1>3, <1>4

LEMMA BatcherStart == GatewayInit => BatcherInv
<1> SUFFICES ASSUME BatcherInit PROVE BatcherInv
  BY DEF GatewayInit
<1> USE NoFrames, WsBatcherAssumption DEF BatcherInit
<1>1. task = [flusher |-> "none", down |-> "reading", receive |-> "waiting", close |-> "no"]
  OBVIOUS
<1>2. task \in [flusher : FlusherStates, down : {"reading", "blocked", "ended"},
               receive : {"waiting", "ended"}, close : {"no", "flushing", "flushed", "ended"}]
  BY <1>1 DEF FlusherStates
<1>3. BatcherTyped
  <2>1. closed \in BOOLEAN
    OBVIOUS
  <2>2. buffer \in Frames /\ batch \in Frames /\ got \in Frames
    OBVIOUS
  <2>3. frame \in 0..MaxFrames
    OBVIOUS
  <2> QED BY <1>2, <2>1, <2>2, <2>3 DEF BatcherTyped
<1>4. OneFlush
  BY <1>1 DEF OneFlush
<1>5. StreamKept
  <2>1. Len(got) = 0 /\ Len(batch) = 0 /\ Len(buffer) = 0 /\ frame = 0
    OBVIOUS
  <2>2. task.down = "reading"
    BY <1>1
  <2> HIDE DEF BatcherInit
  <2> QED BY <2>1, <2>2 DEF StreamKept, Pending
<1> QED BY <1>3, <1>4, <1>5 DEF BatcherInv

-----------------------------------------------------------------------------
(* The cache never holds more than _CACHE_MAX entries: a full one is       *)
(* trimmed before an entry is added.                                       *)
CacheBounded == IsFiniteSet(DOMAIN cache) /\ Cardinality(DOMAIN cache) <= CacheMax

LEMMA CacheShrinks ==
  ASSUME CacheBounded, NEW D \in SUBSET DOMAIN cache
  PROVE  IsFiniteSet(D) /\ Cardinality(D) <= CacheMax
<1>1. IsFiniteSet(D) /\ Cardinality(D) <= Cardinality(DOMAIN cache)
      /\ Cardinality(D) \in Nat /\ Cardinality(DOMAIN cache) \in Nat
  BY FS_Subset, FS_CardinalityType DEF CacheBounded
<1> QED BY <1>1, EndpointCacheAssumption DEF CacheBounded

LEMMA PutBounded ==
  ASSUME CacheBounded, NEW v \in Visits, Put(v)
  PROVE  CacheBounded'
<1> DEFINE k == visit[v].token
           new == [target |-> visit[v].target, left |-> Ttl(visit[v].target)]
<1>1. PICK D \in IF Cardinality(DOMAIN cache) >= CacheMax THEN Oldest ELSE {{}} :
        cache' = [t \in (DOMAIN cache \ D) \cup {k} |-> IF t = k THEN new ELSE cache[t]]
  BY DEF Put
<1>2. DOMAIN cache' = (DOMAIN cache \ D) \cup {k}
  BY <1>1
<1>3. Cardinality(DOMAIN cache) \in Nat
  BY FS_CardinalityType DEF CacheBounded
<1>4. IsFiniteSet(DOMAIN cache \ D) /\ Cardinality(DOMAIN cache \ D) <= CacheMax - 1
  <2>1. CASE Cardinality(DOMAIN cache) >= CacheMax
    <3>1. D \subseteq DOMAIN cache /\ Cardinality(D) = TrimCount /\ DOMAIN cache \cap D = D
      BY <1>1, <2>1 DEF Oldest
    <3>2. /\ IsFiniteSet(DOMAIN cache \ D)
          /\ Cardinality(DOMAIN cache \ D) = Cardinality(DOMAIN cache) - TrimCount
      BY <3>1, FS_Difference DEF CacheBounded
    <3> QED BY <1>3, <3>2, EndpointCacheAssumption DEF CacheBounded
  <2>2. CASE ~(Cardinality(DOMAIN cache) >= CacheMax)
    <3>1. DOMAIN cache \ D = DOMAIN cache
      BY <1>1, <2>2
    <3> QED BY <1>3, <2>2, <3>1, EndpointCacheAssumption DEF CacheBounded
  <2> QED BY <2>1, <2>2
<1>5. IsFiniteSet(DOMAIN cache') /\ Cardinality(DOMAIN cache') <= Cardinality(DOMAIN cache \ D) + 1
  <2> DEFINE T == DOMAIN cache \ D
  <2>1. Cardinality(T) \in Nat /\ IsFiniteSet(T)
    BY <1>4, FS_CardinalityType
  <2>2. IsFiniteSet(T \cup {k}) /\ Cardinality(T \cup {k}) = IF k \in T THEN Cardinality(T) ELSE Cardinality(T) + 1
    BY <2>1, FS_AddElement
  <2> QED BY <1>2, <2>1, <2>2
<1>6. Cardinality(DOMAIN cache \ D) \in Nat /\ Cardinality(DOMAIN cache') \in Nat
  BY <1>4, <1>5, FS_CardinalityType
<1> QED BY <1>4, <1>5, <1>6, EndpointCacheAssumption DEF CacheBounded

LEMMA BoundedStep ==
  ASSUME CacheBounded, [GatewayNext]_gatewayVars
  PROVE  CacheBounded'
<1>1. ASSUME (DOMAIN cache)' \subseteq DOMAIN cache PROVE CacheBounded'
  BY <1>1, CacheShrinks DEF CacheBounded
<1>2. ASSUME UNCHANGED endpointVars PROVE CacheBounded'
  BY <1>2 DEF CacheBounded, endpointVars
<1>3. ASSUME NEW v \in Visits, NEW t \in Tokens, Query(v, t) PROVE CacheBounded'
  BY <1>1, <1>3 DEF Query, Without
<1>4. ASSUME NEW v \in Visits, QueryFails(v) PROVE CacheBounded'
  BY <1>1, <1>4 DEF QueryFails
<1>5. ASSUME NEW i \in Endpoints, CreateInstance(i) \/ Invalidate(i) PROVE CacheBounded'
  BY <1>1, <1>5 DEF CreateInstance, Invalidate, Without
<1>6. ASSUME NEW i \in Endpoints, NEW r, TakenDown(i, r) \/ BroughtUp(i, r) PROVE CacheBounded'
  BY <1>1, <1>6 DEF TakenDown, BroughtUp
<1>7. ASSUME EndpointTick PROVE CacheBounded'
  BY <1>1, <1>7 DEF EndpointTick
<1>8. CASE UNCHANGED gatewayVars
  BY <1>2, <1>8 DEF gatewayVars
<1>9. CASE GatewayNext
  BY <1>2, <1>3, <1>4, <1>5, <1>6, <1>7, <1>9, OtherParts, PutBounded DEF GatewayNext
<1> QED BY <1>8, <1>9

LEMMA BoundedStart == GatewayInit => CacheBounded
<1> SUFFICES ASSUME EndpointInit PROVE CacheBounded
  BY DEF GatewayInit
<1>1. DOMAIN cache = {}
  BY DEF EndpointInit
<1> QED BY <1>1, FS_EmptySet, EndpointCacheAssumption DEF CacheBounded

-----------------------------------------------------------------------------
(* The WebSocket relay: the counter of a hop is the number of handlers that*)
(* hold a slot of it, and never more than the cap.                         *)
WsTyped ==
  /\ link \in [Clients -> [0..2 -> Codes \cup {"none", "dialled", "open"}]]
  /\ hop \in [Clients -> [Hops -> {"idle", "resolving", "dialling", "relaying", "closing"}]]
  /\ pump \in [Clients -> [Hops -> [Dirs -> {"wait", "send", "done"}]]]

Holders(h) == {c \in Clients : Holding(c, h)}

SlotsCounted == \A h \in Hops : active[h] = Cardinality(Holders(h)) /\ (Cap > 0 => active[h] <= Cap)

WsInv == WsTyped /\ active \in [Hops -> Nat] /\ SlotsCounted

LEMMA FewHolders ==
  \A h \in Hops : IsFiniteSet(Holders(h)) /\ Cardinality(Holders(h)) \in Nat
BY WsRelayAssumption, FS_Subset, FS_CardinalityType DEF Holders

(* The slot of one handler is taken or given back.                         *)
LEMMA SlotStep ==
  ASSUME WsInv, NEW c \in Clients, NEW h \in Hops, WsTyped', Holding(c, h) # Holding(c, h)',
         \A d \in Clients, g \in Hops : <<d, g>> # <<c, h>> => hop'[d][g] = hop[d][g],
         active' = [active EXCEPT ![h] = IF Holding(c, h) THEN IF @ = 0 THEN 0 ELSE @ - 1 ELSE @ + 1],
         ~Holding(c, h) /\ Cap > 0 => active[h] < Cap
  PROVE  WsInv'
<1>1. \A g \in Hops \ {h} : Holders(g)' = Holders(g) /\ active'[g] = active[g]
  BY DEF Holders, Holding, WsInv
<1>2. CASE Holding(c, h)
  <2>1. Holders(h)' = Holders(h) \ {c} /\ c \in Holders(h)
    BY <1>2 DEF Holders, Holding
  <2>2. Cardinality(Holders(h)') = Cardinality(Holders(h)) - 1 /\ Cardinality(Holders(h)') \in Nat
        /\ Cardinality(Holders(h)) \in Nat
    BY <2>1, FewHolders, FS_RemoveElement, FS_CardinalityType
  <2>3. active'[h] = active[h] - 1 /\ active' \in [Hops -> Nat]
    BY <1>2, <2>2 DEF WsInv, SlotsCounted
  <2> QED BY <1>1, <2>2, <2>3, WsRelayAssumption DEF WsInv, SlotsCounted
<1>3. CASE ~Holding(c, h)
  <2>1. Holders(h)' = Holders(h) \cup {c} /\ c \notin Holders(h)
    BY <1>3 DEF Holders, Holding
  <2>2. Cardinality(Holders(h)') = Cardinality(Holders(h)) + 1 /\ Cardinality(Holders(h)) \in Nat
    BY <2>1, FewHolders, FS_AddElement
  <2>3. active'[h] = active[h] + 1 /\ active' \in [Hops -> Nat]
    BY <1>3 DEF WsInv
  <2> QED BY <1>1, <1>3, <2>2, <2>3, WsRelayAssumption DEF WsInv, SlotsCounted
<1> QED BY <1>2, <1>3

(* A step that takes no slot and gives none back.                          *)
LEMMA SlotsStay ==
  ASSUME WsInv, WsTyped', UNCHANGED active,
         \A c \in Clients, h \in Hops : Holding(c, h)' = Holding(c, h)
  PROVE  WsInv'
<1>1. \A h \in Hops : Holders(h)' = Holders(h)
  BY DEF Holders
<1> QED BY <1>1 DEF WsInv, SlotsCounted

LinkMap == [0..2 -> Codes \cup {"none", "dialled", "open"}]

LEMMA CloseType ==
  ASSUME NEW ls \in LinkMap, NEW k \in 0..2, NEW code \in Codes
  PROVE  Close(ls, k, code) \in LinkMap
BY DEF Close, LinkMap

LEMMA EndsStep ==
  ASSUME WsInv, NEW c \in Clients,
         ClientConnects(c) \/ CoreAccepts(c) \/ (\E k \in {0, 2} : EndLeaves(c, k))
  PROVE  WsInv'
<1>1. WsTyped'
  <2>1. CASE ClientConnects(c)
    BY <2>1 DEF WsInv, WsTyped, ClientConnects, Codes
  <2>2. CASE CoreAccepts(c)
    BY <2>2 DEF WsInv, WsTyped, CoreAccepts, Codes
  <2>3. ASSUME NEW k \in {0, 2}, EndLeaves(c, k) PROVE WsTyped'
    BY <2>3 DEF WsInv, WsTyped, EndLeaves, Codes
  <2> QED BY <2>1, <2>2, <2>3
<1>2. UNCHANGED <<hop, active>>
  BY DEF ClientConnects, CoreAccepts, EndLeaves
<1> QED BY <1>1, <1>2, SlotsStay DEF Holding

LEMMA HandlerStep ==
  ASSUME WsInv, NEW c \in Clients, NEW h \in Hops,
         \/ RejectOverCap(c, h) \/ Dial(c, h) \/ Established(c, h) \/ HangUp(c, h)
         \/ \E d \in Dirs : FrameComes(c, h, d) \/ HandOver(c, h, d) \/ Delivered(c, d) \/ PumpEnds(c, h, d)
  PROVE  WsInv'
<1> USE DEF WsInv, WsTyped
<1>1. CASE RejectOverCap(c, h)
  <2>1. WsTyped'
    BY <1>1 DEF RejectOverCap, Codes, Hops
  <2> QED BY <1>1, <2>1, SlotsStay DEF RejectOverCap, Holding
<1>2. CASE Dial(c, h)
  <2>1. WsTyped' /\ hop' = [hop EXCEPT ![c][h] = "dialling"]
    BY <1>2 DEF Dial, Hops
  <2> QED BY <1>2, <2>1, SlotsStay DEF Dial, Holding
<1>3. CASE Established(c, h)
  <2>1. WsTyped' /\ hop' = [hop EXCEPT ![c][h] = "relaying"]
    BY <1>3 DEF Established
  <2> QED BY <1>3, <2>1, SlotsStay DEF Established, Holding
<1>4. CASE HangUp(c, h)
  <2>1. Close(link[c], h, "1000") \in LinkMap
    BY CloseType DEF LinkMap, Codes, Hops
  <2>2. WsTyped' /\ hop' = [hop EXCEPT ![c][h] = "closing"]
    BY <1>4, <2>1 DEF HangUp, LinkMap
  <2> QED BY <1>4, <2>2, SlotsStay DEF HangUp, Holding
<1>5. ASSUME NEW d \in Dirs, FrameComes(c, h, d) \/ HandOver(c, h, d) \/ Delivered(c, d) \/ PumpEnds(c, h, d)
      PROVE  WsInv'
  <2>1. UNCHANGED <<link, hop, active>> /\ LastHop(d) \in Hops
    BY <1>5 DEF FrameComes, HandOver, Delivered, PumpEnds, LastHop, Hops
  <2>2. pump' \in [Clients -> [Hops -> [Dirs -> {"wait", "send", "done"}]]]
    <3>1. ASSUME NEW g \in Hops, NEW s \in {"wait", "send", "done"}, SetPump(c, g, d, s)
          PROVE  pump' \in [Clients -> [Hops -> [Dirs -> {"wait", "send", "done"}]]]
      BY <3>1 DEF SetPump
    <3>2. CASE HandOver(c, h, d)
      <4> DEFINE mid == [pump EXCEPT ![c][h][d] = "wait"]
      <4>1. mid \in [Clients -> [Hops -> [Dirs -> {"wait", "send", "done"}]]]
        OBVIOUS
      <4>2. pump' = [mid EXCEPT ![c][LastHop(d)][d] = "send"]
        BY <3>2 DEF HandOver
      <4> HIDE DEF mid
      <4> QED BY <4>1, <4>2, <2>1
    <3> QED BY <1>5, <2>1, <3>1, <3>2 DEF FrameComes, Delivered, PumpEnds
  <2> QED BY <2>1, <2>2, SlotsStay DEF Holding
<1> QED BY <1>1, <1>2, <1>3, <1>4, <1>5

LEMMA SlotTaken ==
  ASSUME WsInv, NEW c \in Clients, NEW h \in Hops, Admit(c, h)
  PROVE  WsInv'
<1> USE DEF WsInv
<1>1. WsTyped' /\ hop' = [hop EXCEPT ![c][h] = "resolving"]
  BY DEF Admit, WsTyped, Hops
<1>2. ~Holding(c, h) /\ Holding(c, h)'
  BY <1>1 DEF Admit, Holding, WsTyped
<1>3. \A d \in Clients, g \in Hops : <<d, g>> # <<c, h>> => hop'[d][g] = hop[d][g]
  BY <1>1 DEF WsTyped
<1>4. active' = [active EXCEPT ![h] = IF Holding(c, h) THEN IF @ = 0 THEN 0 ELSE @ - 1 ELSE @ + 1]
  BY <1>2 DEF Admit
<1>5. Cap > 0 => active[h] < Cap
  BY WsRelayAssumption DEF Admit
<1> QED BY <1>1, <1>2, <1>3, <1>4, <1>5, SlotStep

LEMMA SlotReturned ==
  ASSUME WsInv, NEW c \in Clients, NEW h \in Hops,
         \/ \E code \in {"1008", "1013", "1014"} : TurnedAway(c, h, code)
         \/ DialFails(c, h)
         \/ Finish(c, h)
  PROVE  WsInv'
<1> USE DEF WsInv
<1>1. Release(c, h) /\ Holding(c, h) /\ UNCHANGED pump
  BY DEF TurnedAway, DialFails, Finish, Holding
<1>2. \E ls \in LinkMap, code \in Codes : link' = [link EXCEPT ![c] = Close(ls, h - 1, code)]
  <2>1. link[c] \in LinkMap /\ [link[c] EXCEPT ![h] = "none"] \in LinkMap /\ {"1008", "1013", "1014", "1000"} \subseteq Codes
    BY DEF WsTyped, LinkMap, Codes, Hops
  <2> QED BY <2>1 DEF TurnedAway, DialFails, Finish
<1>3. link' \in [Clients -> LinkMap]
  <2>1. PICK ls \in LinkMap, code \in Codes : link' = [link EXCEPT ![c] = Close(ls, h - 1, code)]
    BY <1>2
  <2>2. Close(ls, h - 1, code) \in LinkMap
    BY CloseType DEF Hops
  <2> QED BY <2>1, <2>2 DEF WsTyped, LinkMap
<1>4. WsTyped' /\ hop' = [hop EXCEPT ![c][h] = "idle"]
  BY <1>1, <1>3 DEF WsTyped, Release, LinkMap
<1>5. ~Holding(c, h)'
  BY <1>4 DEF Holding, WsTyped
<1>6. \A d \in Clients, g \in Hops : <<d, g>> # <<c, h>> => hop'[d][g] = hop[d][g]
  BY <1>4 DEF WsTyped
<1>7. active' = [active EXCEPT ![h] = IF Holding(c, h) THEN IF @ = 0 THEN 0 ELSE @ - 1 ELSE @ + 1]
  BY <1>1 DEF Release
<1> QED BY <1>1, <1>4, <1>5, <1>6, <1>7, SlotStep

LEMMA WsStep ==
  ASSUME WsInv, [GatewayNext]_gatewayVars
  PROVE  WsInv'
<1>1. ASSUME UNCHANGED wsVars PROVE WsInv'
  BY <1>1 DEF wsVars, WsInv, WsTyped, SlotsCounted, Holders, Holding
<1>2. CASE UNCHANGED gatewayVars
  BY <1>1, <1>2 DEF gatewayVars
<1>3. CASE GatewayNext
  <2>1. ASSUME NEW c \in Clients,
               ClientConnects(c) \/ CoreAccepts(c) \/ (\E k \in {0, 2} : EndLeaves(c, k))
        PROVE  WsInv'
    BY <2>1, EndsStep
  <2>2. ASSUME NEW c \in Clients, NEW h \in Hops,
               \/ RejectOverCap(c, h) \/ Dial(c, h) \/ Established(c, h) \/ HangUp(c, h)
               \/ \E d \in Dirs : FrameComes(c, h, d) \/ HandOver(c, h, d) \/ PumpEnds(c, h, d)
        PROVE  WsInv'
    BY <2>2, HandlerStep
  <2>3. ASSUME NEW c \in Clients, NEW d \in Dirs, Delivered(c, d)
        PROVE  WsInv'
    <3>1. 1 \in Hops BY DEF Hops
    <3> QED BY <2>3, <3>1, HandlerStep
  <2>4. ASSUME NEW c \in Clients, NEW h \in Hops,
               \/ Admit(c, h) \/ DialFails(c, h) \/ Finish(c, h)
               \/ \E code \in {"1008", "1013", "1014"} : TurnedAway(c, h, code)
        PROVE  WsInv'
    BY <2>4, SlotTaken, SlotReturned
  <2> QED BY <1>1, <1>3, <2>1, <2>2, <2>3, <2>4, OtherParts DEF GatewayNext
<1> QED BY <1>2, <1>3

LEMMA WsStart == GatewayInit => WsInv
<1> SUFFICES ASSUME WsInit PROVE WsInv
  BY DEF GatewayInit
<1>1. WsTyped /\ active \in [Hops -> Nat]
  BY DEF WsInit, WsTyped
<1>2. \A h \in Hops : Holders(h) = {} /\ active[h] = 0
  BY DEF WsInit, Holders, Holding
<1> QED BY <1>1, <1>2, FS_EmptySet, WsRelayAssumption DEF WsInv, SlotsCounted

-----------------------------------------------------------------------------
(* The HTTP relay: the pools are within their bounds, and hold a connection*)
(* for exactly the requests that use one (ConnectionsReturn); the queue of *)
(* a pool holds each request that waits at it once.                        *)
HttpTyped ==
  /\ stage \in [Requests -> [HttpHops -> {"idle", "looking", "pool", "sent", "streaming"}]]
  /\ answer \in [Requests -> [HttpHops -> {"none", "open", "ended"}]]
  /\ left \in [Requests -> [HttpHops -> BOOLEAN]]
  /\ pool \in [HttpHops -> SUBSET Requests]
  /\ queue \in [HttpHops -> Seq(Requests)]

Using(h)   == {r \in Requests : stage[r][h] \in {"sent", "streaming"}}
Waiting(h) == {r \in Requests : stage[r][h] = "pool"}

PoolKept(h) ==
  /\ pool[h] = Using(h)
  /\ IsFiniteSet(pool[h]) /\ Cardinality(pool[h]) <= PoolMax[h]

LineKept(h) ==
  /\ \A r \in Requests : stage[r][h] = "pool" <=> \E i \in 1..Len(queue[h]) : queue[h][i] = r
  /\ \A i, j \in 1..Len(queue[h]) : queue[h][i] = queue[h][j] => i = j

(* Hop 2 has not heard of a request that hop 1 has not sent.               *)
InTurn == \A r \in Requests : stage[r][1] \in {"looking", "pool"} => stage[r][2] = "idle"

HttpInv == HttpTyped /\ InTurn /\ \A h \in HttpHops : PoolKept(h) /\ LineKept(h)

LEMMA PoolStep ==
  ASSUME HttpInv, NEW r \in Requests, NEW h \in HttpHops, HttpTyped',
         \A g \in HttpHops \ {h} : Using(g)' = Using(g) /\ pool'[g] = pool[g],
         \/ Using(h)' = Using(h) /\ pool'[h] = pool[h]
         \/ Using(h)' = Using(h) \ {r} /\ pool'[h] = pool[h] \ {r}
         \/ /\ Using(h)' = Using(h) \cup {r} /\ pool'[h] = pool[h] \cup {r}
            /\ Cardinality(pool[h]) < PoolMax[h]
  PROVE  \A g \in HttpHops : PoolKept(g)'
<1> USE DEF PoolKept
<1>1. \A g \in HttpHops : PoolKept(g) /\ Cardinality(pool[g]) \in Nat /\ PoolMax[g] \in Nat
  BY FS_CardinalityType, HttpRelayAssumption DEF HttpInv
<1>2. ASSUME NEW g \in HttpHops \ {h} PROVE PoolKept(g)'
  BY <1>1, <1>2
<1>3. PoolKept(h)'
  <2>1. CASE Using(h)' = Using(h) /\ pool'[h] = pool[h]
    BY <1>1, <2>1
  <2>2. CASE Using(h)' = Using(h) \ {r} /\ pool'[h] = pool[h] \ {r}
    <3>1. /\ IsFiniteSet(pool[h] \ {r})
          /\ Cardinality(pool[h] \ {r}) = IF r \in pool[h] THEN Cardinality(pool[h]) - 1 ELSE Cardinality(pool[h])
      BY <1>1, FS_RemoveElement
    <3>2. Cardinality(pool[h] \ {r}) <= PoolMax[h]
      BY <1>1, <3>1
    <3> QED BY <1>1, <2>2, <3>1, <3>2
  <2>3. CASE /\ Using(h)' = Using(h) \cup {r} /\ pool'[h] = pool[h] \cup {r}
             /\ Cardinality(pool[h]) < PoolMax[h]
    <3>1. /\ IsFiniteSet(pool[h] \cup {r})
          /\ Cardinality(pool[h] \cup {r}) = IF r \in pool[h] THEN Cardinality(pool[h]) ELSE Cardinality(pool[h]) + 1
      BY <1>1, FS_AddElement
    <3>2. Cardinality(pool[h] \cup {r}) <= PoolMax[h]
      BY <1>1, <2>3, <3>1
    <3> QED BY <1>1, <2>3, <3>1, <3>2
  <2> QED BY <2>1, <2>2, <2>3
<1> QED BY <1>2, <1>3

(* A step in which nobody joins or leaves a queue.                         *)
LEMMA LineStays ==
  ASSUME HttpInv, UNCHANGED queue,
         \A r \in Requests, h \in HttpHops : stage'[r][h] = "pool" <=> stage[r][h] = "pool"
  PROVE  \A h \in HttpHops : LineKept(h)'
BY DEF HttpInv, LineKept

LEMMA EnqueueStep ==
  ASSUME HttpInv, NEW r \in Requests, NEW h \in HttpHops, Enqueue(r, h)
  PROVE  HttpInv'
<1> USE DEF HttpInv
<1>1. HttpTyped' /\ stage' = [stage EXCEPT ![r][h] = "pool"] /\ pool' = pool /\ stage[r][h] = "looking"
  BY DEF Enqueue, HttpTyped
<1>2. \A q \in Requests, g \in HttpHops :
        stage'[q][g] = IF q = r /\ g = h THEN "pool" ELSE stage[q][g]
  BY <1>1 DEF HttpTyped
<1>3. \A g \in HttpHops : Using(g)' = Using(g)
  BY <1>1, <1>2 DEF Using
<1>4. \A g \in HttpHops : PoolKept(g)'
  BY <1>1, <1>3, PoolStep
<1>5. InTurn'
  BY <1>1, <1>2 DEF InTurn, HttpHops, HttpTyped
<1>6. ASSUME NEW g \in HttpHops \ {h} PROVE LineKept(g)'
  <2>1. queue'[g] = queue[g]
    BY <1>6 DEF Enqueue, HttpTyped
  <2> QED BY <1>2, <1>6, <2>1 DEF LineKept
<1>7. LineKept(h)'
  <2> DEFINE n == Len(queue[h])
  <2>1. queue[h] \in Seq(Requests) /\ queue'[h] = Append(queue[h], r) /\ n \in Nat
    BY DEF Enqueue, HttpTyped
  <2>2. Len(queue'[h]) = n + 1 /\ \A i \in 1..(n + 1) : queue'[h][i] = IF i = n + 1 THEN r ELSE queue[h][i]
    BY <2>1
  <2>3. \A i \in 1..n : queue[h][i] # r
    BY <1>1 DEF LineKept
  <2>4. \A q \in Requests : stage'[q][h] = "pool" <=> \E i \in 1..(n + 1) : queue'[h][i] = q
    <3> SUFFICES ASSUME NEW q \in Requests
                 PROVE  stage'[q][h] = "pool" <=> \E i \in 1..(n + 1) : queue'[h][i] = q
      OBVIOUS
    <3>1. CASE q = r
      BY <1>2, <2>1, <2>2, <3>1
    <3>2. CASE q # r
      <4>1. stage'[q][h] = "pool" <=> \E i \in 1..n : queue[h][i] = q
        BY <1>2, <3>2 DEF LineKept
      <4>2. (\E i \in 1..n : queue[h][i] = q) <=> \E i \in 1..(n + 1) : queue'[h][i] = q
        BY <2>1, <2>2, <3>2
      <4> QED BY <4>1, <4>2
    <3> QED BY <3>1, <3>2
  <2>5. \A i, j \in 1..(n + 1) : queue'[h][i] = queue'[h][j] => i = j
    BY <2>1, <2>2, <2>3 DEF LineKept
  <2> QED BY <2>2, <2>4, <2>5 DEF LineKept
<1> QED BY <1>1, <1>4, <1>5, <1>6, <1>7

LEMMA SendsStep ==
  ASSUME HttpInv, NEW r \in Requests, NEW h \in HttpHops, Sends(r, h)
  PROVE  HttpInv'
<1> USE DEF HttpInv
<1> DEFINE n == Len(queue[h])
<1>1. /\ queue[h] \in Seq(Requests) /\ queue[h] # <<>> /\ n \in Nat /\ n > 0 /\ r = queue[h][1]
      /\ queue' = [queue EXCEPT ![h] = Tail(@)] /\ Tail(queue[h]) \in Seq(Requests)
      /\ Len(Tail(queue[h])) = n - 1 /\ \A i \in 1..(n - 1) : Tail(queue[h])[i] = queue[h][i + 1]
  BY DEF Sends, HttpTyped
<1>2. stage[r][h] = "pool"
  BY <1>1 DEF LineKept
<1>3. h = 1 => stage[r][2] = "idle"
  BY <1>2 DEF InTurn
<1>4. \A q \in Requests, g \in HttpHops :
        stage'[q][g] = IF q # r THEN stage[q][g]
                       ELSE IF g = h THEN "sent"
                       ELSE IF h = 1 THEN "looking" ELSE stage[q][g]
  BY DEF Sends, HttpTyped, HttpHops
<1>5. HttpTyped'
  <2>1. stage' \in [Requests -> [HttpHops -> {"idle", "looking", "pool", "sent", "streaming"}]]
    BY DEF Sends, HttpTyped, HttpHops
  <2>2. pool' \in [HttpHops -> SUBSET Requests] /\ UNCHANGED <<answer, left>>
    BY DEF Sends, HttpTyped
  <2> QED BY <1>1, <2>1, <2>2 DEF HttpTyped
<1>6. \A g \in HttpHops : PoolKept(g)'
  <2>1. \A g \in HttpHops \ {h} : Using(g)' = Using(g) /\ pool'[g] = pool[g]
    BY <1>3, <1>4 DEF Using, Sends, HttpTyped, HttpHops
  <2>2. Using(h)' = Using(h) \cup {r}
    BY <1>4 DEF Using
  <2>3. pool'[h] = pool[h] \cup {r} /\ Cardinality(pool[h]) < PoolMax[h]
    BY DEF Sends, HttpTyped
  <2> QED BY <1>5, <2>1, <2>2, <2>3, PoolStep
<1>7. InTurn'
  BY <1>2, <1>3, <1>4 DEF InTurn, HttpHops
<1>8. ASSUME NEW g \in HttpHops \ {h} PROVE LineKept(g)'
  <2>1. queue'[g] = queue[g]
    BY <1>1, <1>8 DEF HttpTyped
  <2>2. \A q \in Requests : stage'[q][g] = "pool" <=> stage[q][g] = "pool"
    BY <1>3, <1>4, <1>8 DEF HttpHops
  <2> QED BY <1>8, <2>1, <2>2 DEF LineKept
<1>9. LineKept(h)'
  <2>1. queue'[h] = Tail(queue[h])
    BY <1>1 DEF HttpTyped
  <2>2. \A i \in 2..n : queue[h][i] # r
    BY <1>1 DEF LineKept
  <2>3. \A q \in Requests : stage'[q][h] = "pool" <=> \E i \in 1..(n - 1) : Tail(queue[h])[i] = q
    <3> SUFFICES ASSUME NEW q \in Requests
                 PROVE  stage'[q][h] = "pool" <=> \E i \in 1..(n - 1) : Tail(queue[h])[i] = q
      OBVIOUS
    <3>1. (\E i \in 1..(n - 1) : Tail(queue[h])[i] = q) <=> \E i \in 2..n : queue[h][i] = q
      <4>1. ASSUME NEW i \in 2..n PROVE i - 1 \in 1..(n - 1) /\ Tail(queue[h])[i - 1] = queue[h][i]
        BY <1>1, <4>1
      <4>2. ASSUME NEW i \in 1..(n - 1) PROVE i + 1 \in 2..n /\ Tail(queue[h])[i] = queue[h][i + 1]
        BY <1>1, <4>2
      <4> QED BY <4>1, <4>2
    <3>2. CASE q = r
      BY <1>4, <2>2, <3>1, <3>2
    <3>3. CASE q # r
      <4>1. stage'[q][h] = "pool" <=> \E i \in 1..n : queue[h][i] = q
        BY <1>4, <3>3 DEF LineKept
      <4>2. (\E i \in 1..n : queue[h][i] = q) <=> \E i \in 2..n : queue[h][i] = q
        BY <1>1, <3>3
      <4> QED BY <3>1, <4>1, <4>2
    <3> QED BY <3>2, <3>3
  <2>4. \A i, j \in 1..(n - 1) : Tail(queue[h])[i] = Tail(queue[h])[j] => i = j
    <3> SUFFICES ASSUME NEW i \in 1..(n - 1), NEW j \in 1..(n - 1), Tail(queue[h])[i] = Tail(queue[h])[j]
                 PROVE  i = j
      OBVIOUS
    <3>1. i + 1 \in 1..n /\ j + 1 \in 1..n /\ queue[h][i + 1] = queue[h][j + 1]
      BY <1>1
    <3> QED BY <3>1 DEF LineKept
  <2>5. Len(queue'[h]) = n - 1
    BY <1>1, <2>1
  <2> HIDE DEF n
  <2> QED BY <2>1, <2>3, <2>4, <2>5 DEF LineKept
<1> QED BY <1>5, <1>6, <1>7, <1>8, <1>9

LEMMA EndsType ==
  ASSUME HttpTyped, NEW r \in Requests, NEW h \in HttpHops, Ends(r, h)
  PROVE  /\ stage' \in [Requests -> [HttpHops -> {"idle", "looking", "pool", "sent", "streaming"}]]
         /\ answer' \in [Requests -> [HttpHops -> {"none", "open", "ended"}]]
         /\ left' \in [Requests -> [HttpHops -> BOOLEAN]]
BY DEF HttpTyped, Ends, HttpHops

LEMMA QuietStep ==
  ASSUME HttpInv, NEW r \in Requests,
         \/ Asks(r) \/ Leaves(r) \/ CoreAnswers(r) \/ CoreEnds(r)
         \/ \E h \in HttpHops : TurnsAway(r, h) \/ Streams(r, h)
  PROVE  HttpInv'
<1> USE DEF HttpInv
<1>1. UNCHANGED <<pool, queue>>
  BY DEF Asks, Leaves, CoreAnswers, CoreEnds, TurnsAway, Streams
<1>2. HttpTyped'
  <2>1. CASE Asks(r)
    BY <2>1 DEF HttpTyped, Asks, HttpHops
  <2>2. CASE Leaves(r) \/ CoreAnswers(r) \/ CoreEnds(r)
    <3>1. 1 \in HttpHops /\ 2 \in HttpHops
      BY DEF HttpHops
    <3>2. CASE Leaves(r)
      BY <3>1, <3>2 DEF HttpTyped, Leaves
    <3>3. CASE CoreAnswers(r)
      BY <3>1, <3>3 DEF HttpTyped, CoreAnswers
    <3>4. CASE CoreEnds(r)
      BY <3>1, <3>4 DEF HttpTyped, CoreEnds
    <3> QED BY <2>2, <3>2, <3>3, <3>4
  <2>3. ASSUME NEW h \in HttpHops, TurnsAway(r, h) PROVE HttpTyped'
    BY <1>1, <2>3, EndsType DEF TurnsAway, HttpTyped
  <2>4. ASSUME NEW h \in HttpHops, Streams(r, h) PROVE HttpTyped'
    BY <2>4 DEF HttpTyped, Streams, HttpHops
  <2> QED BY <2>1, <2>2, <2>3, <2>4
<1>3. \A q \in Requests, g \in HttpHops :
        \/ stage'[q][g] = stage[q][g]
        \/ stage[q][g] \in {"sent", "streaming"} /\ stage'[q][g] \in {"sent", "streaming"}
        \/ stage[q][g] \in {"idle", "looking"} /\ stage'[q][g] \in {"idle", "looking"}
  <2>1. CASE Leaves(r) \/ CoreAnswers(r) \/ CoreEnds(r)
    BY <2>1 DEF Leaves, CoreAnswers, CoreEnds
  <2>2. CASE Asks(r)
    BY <2>2 DEF Asks, HttpTyped, Underway
  <2>3. ASSUME NEW h \in HttpHops, TurnsAway(r, h) \/ Streams(r, h)
        PROVE  \A q \in Requests, g \in HttpHops :
                 \/ stage'[q][g] = stage[q][g]
                 \/ stage[q][g] = "sent" /\ stage'[q][g] = "streaming"
                 \/ stage[q][g] = "looking" /\ stage'[q][g] = "idle"
    <3>1. \/ stage' = [stage EXCEPT ![r][h] = "idle"] /\ stage[r][h] = "looking"
          \/ stage' = [stage EXCEPT ![r][h] = "streaming"] /\ stage[r][h] = "sent"
      BY <2>3 DEF TurnsAway, Streams, Ends
    <3>2. CASE stage' = [stage EXCEPT ![r][h] = "idle"] /\ stage[r][h] = "looking"
      BY <3>2 DEF HttpTyped
    <3>3. CASE stage' = [stage EXCEPT ![r][h] = "streaming"] /\ stage[r][h] = "sent"
      BY <3>3 DEF HttpTyped
    <3> QED BY <3>1, <3>2, <3>3
  <2> QED BY <2>1, <2>2, <2>3
<1>4. \A g \in HttpHops : Using(g)' = Using(g)
  BY <1>3 DEF Using
<1>5. \A g \in HttpHops : PoolKept(g)' /\ LineKept(g)'
  <2>1. \A g \in HttpHops : LineKept(g)'
    BY <1>1, <1>3, LineStays
  <2>2. 1 \in HttpHops
    BY DEF HttpHops
  <2>3. \A g \in HttpHops : PoolKept(g)'
    BY <1>1, <1>2, <1>4, <2>2, PoolStep
  <2> QED BY <2>1, <2>3
<1>6. InTurn'
  <2>1. CASE Leaves(r) \/ CoreAnswers(r) \/ CoreEnds(r)
    BY <2>1 DEF Leaves, CoreAnswers, CoreEnds, InTurn
  <2>2. CASE Asks(r)
    BY <2>2 DEF Asks, HttpTyped, Underway, InTurn, HttpHops
  <2>3. ASSUME NEW h \in HttpHops, TurnsAway(r, h) \/ Streams(r, h)
        PROVE  InTurn'
    <3>1. \/ stage' = [stage EXCEPT ![r][h] = "idle"]
          \/ stage' = [stage EXCEPT ![r][h] = "streaming"] /\ stage[r][h] = "sent"
      BY <2>3 DEF TurnsAway, Streams, Ends
    <3>2. \A q \in Requests, g \in HttpHops :
            \/ stage'[q][g] = stage[q][g]
            \/ stage'[q][g] = "idle"
            \/ stage'[q][g] = "streaming" /\ stage[q][g] = "sent"
      <4>1. CASE stage' = [stage EXCEPT ![r][h] = "idle"]
        BY <4>1 DEF HttpTyped
      <4>2. CASE stage' = [stage EXCEPT ![r][h] = "streaming"] /\ stage[r][h] = "sent"
        BY <4>2 DEF HttpTyped
      <4> QED BY <3>1, <4>1, <4>2
    <3> QED BY <3>2 DEF InTurn, HttpHops
  <2> QED BY <2>1, <2>2, <2>3
<1> QED BY <1>2, <1>5, <1>6

LEMMA GiveUpStep ==
  ASSUME HttpInv, NEW r \in Requests, NEW h \in HttpHops,
         SendRaises(r, h) \/ BodyBreaks(r, h) \/ StreamEnds(r, h) \/ Cancelled(r, h)
  PROVE  HttpInv'
<1> USE DEF HttpInv
<1>1. /\ UNCHANGED queue /\ pool' = [pool EXCEPT ![h] = @ \ {r}]
      /\ stage[r][h] \in {"sent", "streaming"}
  BY DEF SendRaises, BodyBreaks, StreamEnds, Cancelled
<1>2. HttpTyped' /\ \A q \in Requests, g \in HttpHops :
        \/ q = r /\ g = h /\ stage'[q][g] = "idle"
        \/ (q # r \/ g # h) /\ stage'[q][g] = stage[q][g]
        \/ (q # r \/ g # h) /\ stage[q][g] = "looking" /\ stage'[q][g] = "idle"
  <2>1. CASE Ends(r, h)
    <3>1. HttpTyped'
      BY <1>1, <2>1, EndsType DEF HttpTyped
    <3> QED BY <3>1, <2>1 DEF Ends, HttpTyped
  <2>2. CASE SendRaises(r, h) /\ h = 1
    <3>1. stage' = [stage EXCEPT ![r] = [g \in HttpHops |-> "idle"]] /\ UNCHANGED <<answer, left>>
          /\ stage[r][2] = "looking"
      BY <2>2 DEF SendRaises
    <3>2. HttpTyped'
      BY <1>1, <3>1 DEF HttpTyped
    <3> QED BY <2>2, <3>1, <3>2 DEF HttpTyped, HttpHops
  <2> QED BY <2>1, <2>2 DEF SendRaises, BodyBreaks, StreamEnds, Cancelled
<1>3. \A g \in HttpHops : PoolKept(g)'
  <2>1. ASSUME NEW g \in HttpHops \ {h} PROVE Using(g)' = Using(g) /\ pool'[g] = pool[g]
    <3>1. \A q \in Requests : stage'[q][g] \in {"sent", "streaming"} <=> stage[q][g] \in {"sent", "streaming"}
      BY <1>2
    <3> QED BY <1>1, <3>1 DEF Using, HttpTyped
  <2>2. Using(h)' = Using(h) \ {r} /\ pool'[h] = pool[h] \ {r}
    <3>1. \A q \in Requests : stage'[q][h] \in {"sent", "streaming"}
                               <=> q # r /\ stage[q][h] \in {"sent", "streaming"}
      BY <1>2
    <3> QED BY <1>1, <3>1 DEF Using, HttpTyped
  <2> QED BY <1>2, <2>1, <2>2, PoolStep
<1>4. \A g \in HttpHops : LineKept(g)'
  BY <1>1, <1>2, LineStays
<1>5. InTurn'
  BY <1>2 DEF InTurn, HttpHops
<1> QED BY <1>2, <1>3, <1>4, <1>5

LEMMA HttpStep ==
  ASSUME HttpInv, [GatewayNext]_gatewayVars
  PROVE  HttpInv'
<1>1. ASSUME UNCHANGED httpVars PROVE HttpInv'
  <2>1. UNCHANGED <<stage, answer, left, pool, queue>>
    BY <1>1 DEF httpVars
  <2>2. HttpTyped' /\ InTurn'
    BY <2>1 DEF HttpInv, HttpTyped, InTurn
  <2>3. \A h \in HttpHops : PoolKept(h)' /\ LineKept(h)'
    BY <2>1 DEF HttpInv, PoolKept, LineKept, Using
  <2> QED BY <2>2, <2>3 DEF HttpInv
<1>2. CASE UNCHANGED gatewayVars
  BY <1>1, <1>2 DEF gatewayVars
<1>3. CASE GatewayNext
  <2>1. ASSUME NEW r \in Requests, Asks(r) \/ Leaves(r) \/ CoreAnswers(r) \/ CoreEnds(r)
        PROVE  HttpInv'
    BY <2>1, QuietStep
  <2>2. ASSUME NEW r \in Requests, NEW h \in HttpHops, TurnsAway(r, h) \/ Streams(r, h)
        PROVE  HttpInv'
    BY <2>2, QuietStep
  <2>3. ASSUME NEW r \in Requests, NEW h \in HttpHops, Enqueue(r, h) \/ Sends(r, h)
        PROVE  HttpInv'
    BY <2>3, EnqueueStep, SendsStep
  <2>4. ASSUME NEW r \in Requests, NEW h \in HttpHops,
               SendRaises(r, h) \/ BodyBreaks(r, h) \/ StreamEnds(r, h) \/ Cancelled(r, h)
        PROVE  HttpInv'
    BY <2>4, GiveUpStep
  <2> QED BY <1>1, <1>3, <2>1, <2>2, <2>3, <2>4, OtherParts DEF GatewayNext
<1> QED BY <1>2, <1>3

LEMMA HttpStart == GatewayInit => HttpInv
<1> SUFFICES ASSUME HttpInit PROVE HttpInv
  BY DEF GatewayInit
<1>1. HttpTyped
  BY DEF HttpInit, HttpTyped
<1>2. InTurn
  BY DEF HttpInit, InTurn, HttpHops
<1>3. ASSUME NEW h \in HttpHops PROVE PoolKept(h)
  BY FS_EmptySet, HttpRelayAssumption DEF HttpInit, PoolKept, Using
<1>4. ASSUME NEW h \in HttpHops PROVE LineKept(h)
  <2>1. Len(queue[h]) = 0 /\ \A r \in Requests : stage[r][h] = "idle"
    BY DEF HttpInit
  <2> QED BY <2>1 DEF LineKept
<1> QED BY <1>1, <1>2, <1>3, <1>4 DEF HttpInv

-----------------------------------------------------------------------------
(* A connection of either pool is checked out exactly for the requests     *)
(* that use one, and every request that waits is in line: ConnectionsReturn*)
(* of GatewayRelays.                                                       *)
THEOREM ConnectionsComeBack == GatewaySpec => []ConnectionsReturn
<1>1. HttpInv => ConnectionsReturn
  BY DEF HttpInv, HttpTyped, PoolKept, LineKept, Using, ConnectionsReturn, ToSet
<1> QED BY <1>1, HttpStart, HttpStep, PTL DEF GatewaySpec

LEMMA StreamInOrder == BatcherInv => FramesInOrder
<1> SUFFICES ASSUME BatcherInv PROVE FramesInOrder
  OBVIOUS
<1> USE DEF BatcherInv, BatcherTyped, Frames
<1>1. DOMAIN got = 1..Len(got) /\ Len(got) \in Nat /\ Len(batch) \in Nat /\ Len(buffer) \in Nat
  OBVIOUS
<1>2. ASSUME client = "on", ~closed
      PROVE  got \o batch \o buffer = [i \in 1..(Len(got \o batch \o buffer)) |-> i]
  <2> DEFINE S == 1..MaxFrames
             all == got \o batch \o buffer
  <2>1. /\ got \o batch \in Seq(S) /\ Len(got \o batch) = Len(got) + Len(batch)
        /\ \A i \in 1..(Len(got) + Len(batch)) :
             (got \o batch)[i] = IF i <= Len(got) THEN got[i] ELSE batch[i - Len(got)]
    BY ConcatProperties
  <2>2. /\ all \in Seq(S) /\ Len(all) = Len(got) + Len(batch) + Len(buffer)
        /\ \A i \in 1..(Len(got) + Len(batch) + Len(buffer)) :
             all[i] = IF i <= Len(got) + Len(batch) THEN (got \o batch)[i]
                      ELSE buffer[i - (Len(got) + Len(batch))]
    BY <2>1, ConcatProperties
  <2>3. task.close # "ended"
    BY <1>2 DEF OneFlush
  <2>4. ASSUME NEW i \in 1..Len(all) PROVE all[i] = i
    <3>1. CASE i <= Len(got)
      BY <1>1, <2>1, <2>2, <3>1 DEF StreamKept
    <3>2. CASE i > Len(got) /\ i <= Len(got) + Len(batch)
      <4>1. i - Len(got) \in 1..Len(batch) /\ all[i] = batch[i - Len(got)]
        BY <1>1, <2>1, <2>2, <3>2
      <4> QED BY <1>1, <1>2, <4>1 DEF StreamKept
    <3>3. CASE i > Len(got) + Len(batch)
      <4>1. i - (Len(got) + Len(batch)) \in 1..Len(buffer) /\ all[i] = buffer[i - (Len(got) + Len(batch))]
        BY <1>1, <2>1, <2>2, <3>3
      <4> QED BY <1>1, <1>2, <2>3, <4>1 DEF StreamKept
    <3> QED BY <1>1, <2>2, <3>1, <3>2, <3>3
  <2>5. all = [i \in 1..Len(all) |-> all[i]]
    BY <2>2, LenProperties
  <2> HIDE DEF all
  <2>6. all = [i \in 1..Len(all) |-> i]
    BY <2>4, <2>5
  <2> QED BY <2>6 DEF all
<1> QED BY <1>1, <1>2 DEF FramesInOrder, StreamKept

(* Batching keeps the order of the stream and leaves no gap but at its end,*)
(* the flusher never holds the event loop, and every count of the path is  *)
(* within its bound: FramesKept of MCGateway.                              *)
THEOREM FramesAreKept == GatewaySpec => []FramesKept
<1>1. GatewayInit => CacheInv /\ CacheBounded /\ BatcherInv /\ WsInv /\ HttpInv
  BY CacheInit, BoundedStart, BatcherStart, WsStart, HttpStart
<1>2. CacheInv /\ CacheBounded /\ BatcherInv /\ WsInv /\ HttpInv => FramesKept
  <2> SUFFICES ASSUME CacheInv, CacheBounded, BatcherInv, WsInv, HttpInv
               PROVE  FramesInOrder /\ FlusherYields /\ GatewayTypeOK
    BY DEF FramesKept
  <2>1. EndpointTypeOK
    BY DEF CacheInv, RowsTyped, EntryFollows, Answer, CacheBounded, EndpointTypeOK
  <2>2. WsTypeOK
    BY DEF WsInv, WsTyped, SlotsCounted, Holders, WsTypeOK
  <2>3. BatcherTypeOK
    BY DEF BatcherInv, BatcherTyped, OneFlush, Frames, BatcherTypeOK
  <2>4. HttpTypeOK
    BY DEF HttpInv, HttpTyped, PoolKept, HttpTypeOK
  <2>5. FlusherYields
    BY DEF BatcherInv, OneFlush, FlusherYields
  <2> QED BY <2>1, <2>2, <2>3, <2>4, <2>5, StreamInOrder DEF GatewayTypeOK
<1> QED BY <1>1, <1>2, CacheStep, BoundedStep, BatcherStep, WsStep, HttpStep, PTL DEF GatewaySpec
=============================================================================
