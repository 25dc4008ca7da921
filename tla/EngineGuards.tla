---------------------------- MODULE EngineGuards ----------------------------
(***************************************************************************)
(* What keeps one engine from hurting the others: the circuit breaker      *)
(* around process (engines/base.py, manager.py run_pipeline), the bounded  *)
(* queues of the event bus (bus.py) and the token buckets in front of the  *)
(* mesh reports (mesh/mesh_engine.py _RateLimiter).  One engine, one       *)
(* subscriber, a few reporters; time goes in ticks, and a bucket gains a   *)
(* token per tick.                                                         *)
(***************************************************************************)
EXTENDS Integers, Sequences, FiniteSets


CONSTANTS
  Batches,      \* batches in the pipeline at a time
  MaxErrors,    \* EMUNEL_ENGINE_BYPASS_ERRORS
  Cooldown,     \* the cooldown, in ticks
  QueueSize,    \* of a subscription
  MaxEvents,    \* bound: events published in a behaviour
  Reporters,    \* ISP hashes
  PerKey,       \* tokens of a reporter
  Global,       \* tokens of all of them
  GlobalRate,   \* tokens that all of them gain per tick
  KeyCap,       \* buckets kept before the idle ones are dropped
  IdleTicks,    \* idle for longer: dropped
  MaxTicks      \* bound: ticks in a behaviour

ASSUME GuardAssumption ==
  /\ IsFiniteSet(Batches) /\ MaxErrors \in Nat \ {0} /\ Cooldown \in Nat
  /\ QueueSize \in Nat \ {0} /\ MaxEvents \in Nat
  /\ PerKey \in Nat \ {0} /\ Global \in Nat \ {0} /\ GlobalRate \in Nat
  /\ IdleTicks \in Nat /\ IdleTicks >= PerKey

VARIABLES
  errors,    \* consecutive failures
  bypass,    \* ticks until the engine is used again
  inside,    \* batches whose process is awaited
  entered,   \* history: batches let in since the last success or trip
  queue,     \* the subscriber's queue of event numbers
  got,       \* history: what the subscriber has taken
  published, \* events published
  dropped,   \* the subscription's count of lost events
  tokensOf,  \* [tokens, idle] of each reporter that has one
  globalTokens,\* the global bucket
  accepted,  \* history: reports let through, of each reporter
  passed,    \* history: reports let through
  tick       \* history: ticks so far

breakerVars == <<errors, bypass, inside, entered>>
busVars     == <<queue, got, published, dropped>>
rateVars    == <<tokensOf, globalTokens, accepted, passed, tick>>
guardVars   == <<breakerVars, busVars, rateVars>>

NoBucket == [tokens |-> PerKey, idle |-> -1]
\* Mutant of Less: a bucket gains without end.
Uncapped(a, b) == b

Less(a, b) == IF a < b THEN a ELSE b

GuardInit ==
  /\ errors = 0 /\ bypass = 0 /\ inside = {} /\ entered = 0
  /\ queue = <<>> /\ got = <<>> /\ published = 0 /\ dropped = 0
  /\ tokensOf = [k \in Reporters |-> NoBucket] /\ globalTokens = Global
  /\ accepted = [k \in Reporters |-> 0] /\ passed = 0 /\ tick = 0

-----------------------------------------------------------------------------
(* The breaker.  A batch that finds it open goes on untransformed.         *)
BatchEnters(b) ==
  /\ b \notin inside /\ bypass = 0
  /\ inside' = inside \cup {b}
  /\ entered' = entered + 1
  /\ UNCHANGED <<errors, bypass>>

BatchProcessed(b) ==
  /\ b \in inside
  /\ inside' = inside \ {b}
  /\ errors' = 0 /\ entered' = 0
  /\ UNCHANGED bypass

(* Mutant of Tripped: off by one.                                          *)
TrippedLate(n) == n > MaxErrors

Tripped(n) == n >= MaxErrors

(* A failure also counts, and may trip again, while the breaker is open:   *)
(* the batch was let in before.                                            *)
BatchFails(b) ==
  /\ b \in inside
  /\ inside' = inside \ {b}
  /\ IF Tripped(errors + 1)
     THEN errors' = 0 /\ bypass' = Cooldown /\ entered' = 0
     ELSE errors' = errors + 1 /\ UNCHANGED <<bypass, entered>>

CooldownTick ==
  /\ bypass > 0
  /\ bypass' = bypass - 1
  /\ UNCHANGED <<errors, inside, entered>>

-----------------------------------------------------------------------------
(* The bus: a full queue loses the new event, never the publisher's time.  *)
Publish ==
  /\ published < MaxEvents
  /\ published' = published + 1
  /\ IF Len(queue) = QueueSize
     THEN dropped' = dropped + 1 /\ UNCHANGED queue
     ELSE queue' = Append(queue, published') /\ UNCHANGED dropped
  /\ UNCHANGED got

NextEvent ==
  /\ queue # <<>>
  /\ got' = Append(got, Head(queue))
  /\ queue' = Tail(queue)
  /\ UNCHANGED <<published, dropped>>

-----------------------------------------------------------------------------
(* Reports.  A reporter without a bucket gets a full one; when there are   *)
(* too many, those idle for long are forgotten.                            *)
Known(k) == tokensOf[k].idle >= 0

(* Mutant of Forgotten: everybody else.                                    *)
ForgottenSoon(k, bs) == bs[k].idle >= 0

Forgotten(k, bs) == bs[k].idle > IdleTicks

Bucketed(k) ==
  LET bs == [tokensOf EXCEPT ![k].idle = 0]
  IN IF Known(k) \/ Cardinality({j \in Reporters : Known(j)}) < KeyCap
     THEN bs
     ELSE [j \in Reporters |-> IF j # k /\ Known(j) /\ Forgotten(j, bs) THEN NoBucket ELSE bs[j]]

Report(k) ==
  LET bs == Bucketed(k)
      ok == bs[k].tokens >= 1 /\ globalTokens >= 1
  IN /\ tokensOf' = IF ok THEN [bs EXCEPT ![k].tokens = @ - 1] ELSE bs
     /\ globalTokens' = IF ok THEN globalTokens - 1 ELSE globalTokens
     /\ accepted' = IF ok THEN [accepted EXCEPT ![k] = @ + 1] ELSE accepted
     /\ passed' = IF ok THEN passed + 1 ELSE passed
     /\ UNCHANGED tick

(* _fill is lazy in the code; a tick gives the same tokens at once.        *)
RateTick ==
  /\ tick < MaxTicks
  /\ tick' = tick + 1
  /\ tokensOf' = [k \in Reporters |->
       IF Known(k) THEN [tokens |-> Less(PerKey, tokensOf[k].tokens + 1),
                         idle |-> Less(IdleTicks + 1, tokensOf[k].idle + 1)]
       ELSE tokensOf[k]]
  /\ globalTokens' = Less(Global, globalTokens + GlobalRate)
  /\ UNCHANGED <<accepted, passed>>

-----------------------------------------------------------------------------
GuardTypeOK ==
  /\ errors \in 0..(MaxErrors - 1) /\ bypass \in 0..Cooldown /\ inside \subseteq Batches
  /\ Len(queue) <= QueueSize /\ published \in 0..MaxEvents
  /\ \A k \in Reporters : tokensOf[k].tokens \in 0..PerKey
  /\ globalTokens \in 0..Global

(* "after max_errors consecutive trips the engine is bypassed": an engine  *)
(* that only fails is not given more batches than it takes to find out,    *)
(* besides those already inside.                                           *)
BrokenIsBypassed == entered <= MaxErrors - 1 + Cardinality(Batches)

(* What a subscriber has taken and what waits for it are in the order of   *)
(* publishing, and every other event is counted as dropped.                *)
EventsAccounted ==
  LET seen == got \o queue
  IN /\ \A i \in 1..(Len(seen) - 1) : seen[i] < seen[i + 1]
     /\ Len(seen) + dropped = published

(* "a hostile client cannot inflate the map": however the buckets are      *)
(* dropped and made again, a reporter gets no more than one full bucket and*)
(* what it has gained since, and all of them together likewise.            *)
RatesHold ==
  /\ \A k \in Reporters : accepted[k] <= PerKey + tick
  /\ passed <= Global + GlobalRate * tick

(* The three guards hold whatever the others do.                           *)
GuardsHold == BrokenIsBypassed /\ EventsAccounted /\ RatesHold
=============================================================================
