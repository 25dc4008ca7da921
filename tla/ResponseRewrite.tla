-------------------------- MODULE ResponseRewrite --------------------------
(***************************************************************************)
(* The wrappers a Console HTTP response passes on its way out: the feed    *)
(* collector and the fake-page interceptor of engines/middleware.py and,   *)
(* outside them, the compressor of engines/http_compress.py.  The          *)
(* application sends one start message and then body messages; a wrapper   *)
(* holds, joins, replaces or recodes them.  A body is the sequence of the  *)
(* numbers of the application's chunks it stands for, with its length.     *)
(***************************************************************************)
EXTENDS Integers, Sequences

CONSTANTS
    MaxChunks,      \* bound: body messages of one response
    BufferCap,      \* EMUNEL_MAX_HTTP_BUFFER, in the chunks' unit of length
    MinSize,        \* MIN_SIZE of the compressor
    NewLength       \* length of a rewritten feed and of the stock page

ASSUME ResponseAssumption ==
    {MaxChunks, BufferCap, MinSize, NewLength} \subseteq Nat

VARIABLES
    request,        \* what decides which wrappers apply
    plan,           \* lengths of the chunks the application sends
    emitted,        \* messages of the application so far: 0, the start, chunks
    inner,          \* state of the collector or the interceptor
    outer,          \* state of the compressor
    output,         \* messages handed to the server
    ended           \* the application returned or raised

responseVars == <<request, plan, emitted, inner, outer, output, ended>>

SumOf(lengths) ==
    LET sum[i \in 0..Len(lengths)] == IF i = 0 THEN 0 ELSE sum[i - 1] + lengths[i]
    IN sum[Len(lengths)]

NoLength == -1

StartMsg(status, length, coded) ==
    [kind |-> "start", status |-> status, length |-> length, coded |-> coded,
     parts |-> <<>>, fresh |-> FALSE, more |-> TRUE]

BodyMsg(parts, length, fresh, coded, more) ==
    [kind |-> "body", status |-> 0, length |-> length, coded |-> coded,
     parts |-> parts, fresh |-> fresh, more |-> more]

(***************************************************************************)
(* EnginesASGIMiddleware.__call__, _http_gateway, _http_other and          *)
(* HTTPCompressMiddleware.__call__: a feed is collected; a page is         *)
(* intercepted when the client is no browser and a configgen engine is in  *)
(* the pipeline; anything under /i/ is never compressed.  compress: the    *)
(* compressor is on and the client accepts one of its codings.             *)
(***************************************************************************)
Requests ==
    {r \in [path : {"feed", "stream", "page", "api"}, browser : BOOLEAN,
            engines : BOOLEAN, compress : BOOLEAN, declared : BOOLEAN,
            type : {"text", "binary"}, panel : BOOLEAN] :
        /\ r.browser \/ r.panel => r.path = "page"
        /\ r.engines => r.path \in {"page", "feed"}
        /\ r.compress => r.path \notin {"stream"}}

Collects(r)    == r.path = "feed"
Intercepts(r)  == r.path = "page" /\ ~r.browser /\ r.engines
Compresses(r)  == r.path \notin {"feed", "stream"} /\ r.compress

Idle == [status |-> 200, length |-> NoLength, chunks |-> <<>>, total |-> 0]
Unused == [skip |-> FALSE, made |-> FALSE, status |-> 200, length |-> NoLength,
           held |-> <<>>, heldLength |-> 0, fresh |-> FALSE]

ResponseInit ==
    /\ request \in Requests
    /\ plan \in UNION {[1..n -> 0..2] : n \in 1..MaxChunks}
    /\ emitted = 0 /\ inner = Idle /\ outer = Unused /\ output = <<>> /\ ended = FALSE

-----------------------------------------------------------------------------
(***************************************************************************)
(* _compressing_call.wrapped_send: the messages it sends on for one        *)
(* message, and its new state.  A start that may not be recoded passes at  *)
(* once; any other is held until the first body message decides.  hold:    *)
(* the compressor keeps what it is given until the flush.                  *)
(***************************************************************************)
Recoded(o, m, type, hold) ==
    CASE m.kind = "start" /\ type = "binary" ->
            [state |-> [o EXCEPT !.skip = TRUE], out |-> <<m>>]
      [] m.kind = "start" /\ type # "binary" ->
            [state |-> [o EXCEPT !.status = m.status, !.length = m.length], out |-> <<>>]
      [] m.kind = "body" /\ o.skip ->
            [state |-> o, out |-> <<m>>]
      [] m.kind = "body" /\ ~o.skip /\ ~o.made /\ ~m.more /\ m.length < MinSize ->
            [state |-> [o EXCEPT !.skip = TRUE],
             out |-> <<StartMsg(o.status, o.length, FALSE), m>>]
      [] OTHER ->
            LET opening == IF o.made THEN <<>> ELSE <<StartMsg(o.status, NoLength, TRUE)>>
                parts   == o.held \o m.parts
                length  == o.heldLength + m.length
                keeps   == hold \/ m.length = 0
                chunk   == IF keeps THEN <<>>
                           ELSE <<BodyMsg(parts, length, m.fresh, TRUE, TRUE)>>
                rest    == IF keeps THEN parts ELSE <<>>
                left    == IF keeps THEN length ELSE 0
                tail    == IF m.more THEN <<>>
                           ELSE <<BodyMsg(rest, left, m.fresh, TRUE, FALSE)>>
            IN [state |-> [o EXCEPT !.made = TRUE, !.fresh = m.fresh,
                                    !.held = IF m.more THEN rest ELSE <<>>,
                                    !.heldLength = IF m.more THEN left ELSE 0],
                out |-> opening \o chunk \o tail]

\* What the wrappers outside a list of messages make of it.
Outward(msgs, hold) ==
    IF ~Compresses(request)
    THEN /\ output' = output \o msgs
         /\ UNCHANGED outer
    ELSE LET Then(acc, m) ==
                 LET r == Recoded(acc.state, m, request.type, hold)
                 IN [state |-> r.state, out |-> acc.out \o r.out]
             after[i \in 0..Len(msgs)] ==
                 IF i = 0 THEN [state |-> outer, out |-> <<>>] ELSE Then(after[i - 1], msgs[i])
         IN /\ output' = output \o after[Len(msgs)].out
            /\ outer' = after[Len(msgs)].state

\* _emit_raw: the held chunks leave as they are, after the start if it is
\* still held.
EmitRaw(status, length, chunks) ==
    (IF status # 0 THEN <<StartMsg(status, length, FALSE)>> ELSE <<>>)
        \o [i \in 1..Len(chunks) |->
               BodyMsg(<<chunks[i]>>, plan[chunks[i]], FALSE, FALSE, TRUE)]

\* _finish: the joined body, rewritten by the pipeline when its format is
\* known, with a length header of its own.
Finished(chunks, fresh, length) ==
    LET body == IF fresh THEN length ELSE SumOf([i \in 1..Len(chunks) |-> plan[chunks[i]]])
        known == request.type = "text" /\ inner.status = 200
    IN <<StartMsg(inner.status, IF known THEN body ELSE inner.length, FALSE),
         BodyMsg(chunks, body, fresh, FALSE, FALSE)>>

\* Mutant of Faked: the length header of the panel page stays.
FakedKeepingLength(chunks) ==
    <<StartMsg(404, inner.length, FALSE), BodyMsg(chunks, NewLength, TRUE, FALSE, FALSE)>>

\* _emit_fake: the stock page in the place of the whole body, no length header.
Faked(chunks) ==
    <<StartMsg(404, NoLength, FALSE), BodyMsg(chunks, NewLength, TRUE, FALSE, FALSE)>>

-----------------------------------------------------------------------------
\* The application sends its start message.
AppStarts ==
    /\ emitted = 0 /\ ~ended
    /\ emitted' = 1
    /\ LET length == IF request.declared THEN SumOf(plan) ELSE NoLength
       IN \E status \in IF Collects(request) THEN {200, 404} ELSE {200} :
            IF Collects(request) \/ Intercepts(request)
            THEN /\ inner' = [inner EXCEPT !.status = status, !.length = length]
                 /\ UNCHANGED <<output, outer>>
            ELSE /\ Outward(<<StartMsg(status, length, FALSE)>>, FALSE)
                 /\ UNCHANGED inner
    /\ UNCHANGED <<request, plan, ended>>

\* _SubCollector.wrap_send on a body message.
Collect(n, more) ==
    IF more
    THEN LET chunks == Append(inner.chunks, n)
             total  == inner.total + plan[n]
         IN IF total > BufferCap
            THEN /\ output' = output \o EmitRaw(inner.status, inner.length, chunks)
                 /\ inner' = [inner EXCEPT !.status = 0, !.chunks = <<>>, !.total = 0]
            ELSE /\ inner' = [inner EXCEPT !.chunks = chunks, !.total = total]
                 /\ UNCHANGED output
    ELSE /\ \E fresh \in IF request.type = "text" /\ inner.status = 200
                         THEN {FALSE, request.engines} ELSE {FALSE} :
              output' = output \o Finished(Append(inner.chunks, n), fresh, NewLength)
         /\ inner' = [inner EXCEPT !.chunks = <<>>, !.total = 0]

\* _FakePageInterceptor.wrap_send on a body message.
Intercept(n, more, hold) ==
    IF more
    THEN /\ inner' = [inner EXCEPT !.chunks = Append(inner.chunks, n)]
         /\ UNCHANGED <<output, outer>>
    ELSE LET full   == Append(inner.chunks, n)
             length == SumOf([i \in 1..Len(full) |-> plan[full[i]]])
         IN /\ Outward(IF request.panel THEN Faked(full)
                       ELSE <<StartMsg(inner.status, inner.length, FALSE),
                              BodyMsg(full, length, FALSE, FALSE, FALSE)>>, hold)
            /\ inner' = [inner EXCEPT !.chunks = <<>>]

\* The application sends its next chunk; the last one ends the response.
AppSends ==
    /\ emitted > 0 /\ ~ended /\ emitted <= Len(plan)
    /\ LET n == emitted
           more == emitted < Len(plan)
       IN \E hold \in BOOLEAN :
            IF Collects(request)
            THEN Collect(n, more) /\ UNCHANGED outer
            ELSE IF Intercepts(request)
            THEN Intercept(n, more, hold)
            ELSE /\ Outward(<<BodyMsg(<<n>>, plan[n], FALSE, FALSE, more)>>, hold)
                 /\ UNCHANGED inner
    /\ emitted' = emitted + 1
    /\ ended' = (emitted = Len(plan))
    /\ UNCHANGED <<request, plan>>

\* The application raises: what a wrapper still holds never leaves.
AppFails ==
    /\ ~ended
    /\ ended' = TRUE
    /\ UNCHANGED <<request, plan, emitted, inner, outer, output>>

ResponseDone == ended /\ UNCHANGED responseVars

ResponseNext == AppStarts \/ AppSends \/ AppFails \/ ResponseDone

-----------------------------------------------------------------------------
ResponseTypeOK ==
    /\ request \in Requests
    /\ emitted \in 0..(MaxChunks + 1)
    /\ inner.status \in {0, 200, 404} /\ inner.total \in 0..(2 * MaxChunks)
    /\ outer.skip \in BOOLEAN /\ outer.made \in BOOLEAN
    /\ \A i \in 1..Len(output) : output[i].kind \in {"start", "body"}

PartsOf(msgs) ==
    LET joined[i \in 0..Len(msgs)] == IF i = 0 THEN <<>> ELSE joined[i - 1] \o msgs[i].parts
    IN joined[Len(msgs)]
Delivered == SumOf([i \in 1..Len(output) |->
                       IF output[i].kind = "body" THEN output[i].length ELSE 0])
Complete == emitted > Len(plan)
OverCap  == SumOf(SubSeq(plan, 1, Len(plan) - 1)) > BufferCap

\* One start before everything, one last body after everything.
WellFormed ==
    /\ \A i \in 1..Len(output) : (output[i].kind = "start") <=> (i = 1)
    /\ \A i \in 1..Len(output) : i < Len(output) => output[i].more

\* A complete response carries every chunk once, in order; its header announces
\* the length that follows it and the coding of every body.
Faithful ==
    /\ Len(output) > 1 /\ ~output[Len(output)].more
    /\ PartsOf(output) = [i \in 1..Len(plan) |-> i]
    /\ output[1].length \in {NoLength, Delivered}
    /\ \A i \in 1..Len(output) : output[i].coded = output[1].coded
    /\ output[1].coded => output[1].length = NoLength

(***************************************************************************)
(* Whatever the wrappers do to it, a response that fits in the buffer      *)
(* reaches the server as one well-formed response with all of its content, *)
(* and a response cut short by its application as the beginning of one.    *)
(***************************************************************************)
ResponseKept ==
    ~(Collects(request) /\ OverCap) =>
        WellFormed /\ (Complete => Faithful)

(***************************************************************************)
(* middleware.py:387: a feed too big to rewrite safely is emitted          *)
(* untouched: it is a well-formed response too.                            *)
(***************************************************************************)
BigFeedUntouched == Collects(request) => WellFormed
=============================================================================
