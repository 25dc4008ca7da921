---------------------------- MODULE SpeedLimiter ----------------------------
(***************************************************************************)
(* The bandwidth cap of one link (SpeedLimiter and _TokenBucket of         *)
(* state.py): the pumps of all its tunnels draw on one token bucket, which *)
(* is replaced when the operator edits the speed while they wait at it.    *)
(* Time passes in ticks of half a second, the longest sleep of a waiter; a *)
(* bucket is full after a second or so, so that its age needs no bound.    *)
(***************************************************************************)
EXTENDS Integers, FiniteSets

CONSTANTS
  SpeedPumps,   \* pumps with a chunk to pass
  ChunkSizes,   \* the bytes of a chunk
  SpeedRates,   \* speeds of the link per tick, 0 for none
  MinBurst,     \* MIN_BURST
  MaxSpeedEdits, MaxSpeedChunks   \* bounds of the model

ASSUME SpeedAssumption ==
  /\ ChunkSizes \subseteq Nat /\ SpeedRates \subseteq Nat
  /\ MinBurst \in Nat /\ MaxSpeedEdits \in Nat /\ MaxSpeedChunks \in Nat

VARIABLES
  speed,    \* link.speed_limit_bytes
  buckets,  \* every bucket made: [rate, tokens, age]; age: ticks since its refill
  current,  \* the bucket of the link, 0 for none
  waiter,     \* [left, bucket, sleep]: what a pump waits to pass, where, how long
  counts,   \* [edits, chunks]
  ideal     \* history: what a bucket filled at every tick would hold

speedVars == <<speed, buckets, current, waiter, counts, ideal>>

Gens == 1..(MaxSpeedEdits + 1)
Unmade == [rate |-> 0, tokens |-> 0, age |-> 0]
AtRest == [left |-> 0, bucket |-> 0, sleep |-> 0]

Lesser(a, b) == IF a <= b THEN a ELSE b

(* A second of the speed, or the burst floor.                              *)
CapacityOf(r) == IF 2 * r >= MinBurst THEN 2 * r ELSE MinBurst

SpeedInit ==
  /\ speed \in SpeedRates
  /\ buckets = [g \in Gens |-> Unmade] /\ current = 0
  /\ waiter = [c \in SpeedPumps |-> AtRest]
  /\ counts = [edits |-> 0, chunks |-> 0]
  /\ ideal = [g \in Gens |-> 0]

(* Mutant of Refilled: the time of the refill is not taken.                *)
RefilledTwice(b) == [b EXCEPT !.tokens = Lesser(CapacityOf(b.rate), @ + b.age * b.rate)]

Refilled(b) ==
  [b EXCEPT !.tokens = Lesser(CapacityOf(b.rate), @ + b.age * b.rate), !.age = 0]

(* Mutant of Taken: the chunk waits for its whole lump.                    *)
TakenWhole(n, tokens) == IF n <= tokens THEN n ELSE 0

(* What a round takes of a rest of n: what there is.                       *)
Taken(n, tokens) == Lesser(n, tokens)

(* One round of consume at bucket g, whose state is b: what there is is    *)
(* taken, slice by slice; the rest waits for a bucketful at most.          *)
Round(c, n, g, b) ==
  LET full == Refilled(b)
      take == Taken(n, full.tokens)
      rest == n - take
  IN /\ buckets' = [buckets EXCEPT ![g] = [full EXCEPT !.tokens = @ - take]]
     /\ ideal' = [ideal EXCEPT ![g] = (IF buckets[g] = Unmade THEN CapacityOf(b.rate) ELSE @) - take]
     /\ waiter' = [waiter EXCEPT ![c] =
          IF rest = 0 THEN AtRest
          ELSE [left |-> rest, bucket |-> g,
                sleep |-> IF Lesser(rest, CapacityOf(b.rate)) >= b.rate THEN 1 ELSE 0]]

(* consume of SpeedLimiter: the bucket of the link, made anew when there is*)
(* none or its rate is another; without a speed the chunk passes.          *)
Throttle(c, n) ==
  /\ waiter[c] = AtRest /\ counts.chunks < MaxSpeedChunks
  /\ counts' = [counts EXCEPT !.chunks = @ + 1]
  /\ speed > 0
  /\ LET kept == current # 0 /\ buckets[current].rate = speed
         g == IF kept THEN current ELSE CHOOSE h \in Gens : buckets[h] = Unmade
         new == [rate |-> speed, tokens |-> CapacityOf(speed), age |-> 0]
     IN /\ current' = g
        /\ Round(c, n, g, IF kept THEN buckets[g] ELSE new)
  /\ UNCHANGED speed

Wake(c) ==
  /\ waiter[c] # AtRest /\ waiter[c].sleep = 0
  /\ Round(c, waiter[c].left, waiter[c].bucket, buckets[waiter[c].bucket])
  /\ UNCHANGED <<speed, current, counts>>

(* PATCH of the link, with reset of the limiter.                           *)
SetSpeed(r) ==
  /\ counts.edits < MaxSpeedEdits
  /\ counts' = [counts EXCEPT !.edits = @ + 1]
  /\ speed' = r /\ current' = 0
  /\ UNCHANGED <<buckets, waiter, ideal>>

SpeedTick ==
  /\ buckets' = [g \in Gens |->
       IF buckets[g] = Unmade THEN Unmade
       ELSE [buckets[g] EXCEPT !.age = Lesser(@ + 1, CapacityOf(buckets[g].rate))]]
  /\ waiter' = [c \in SpeedPumps |-> [waiter[c] EXCEPT !.sleep = 0]]
  /\ ideal' = [g \in Gens |-> Lesser(CapacityOf(buckets[g].rate), ideal[g] + buckets[g].rate)]
  /\ UNCHANGED <<speed, current, counts>>

(* Sleepers wake and time passes.                                          *)
SpeedFairness == (\A c \in SpeedPumps : WF_speedVars(Wake(c))) /\ WF_speedVars(SpeedTick)

-----------------------------------------------------------------------------
(* However many tunnels draw on it and whenever they wake, a bucket lets no*)
(* more through than one that is filled at every tick: a burst and then its*)
(* rate. A new one, with a burst of its own, is made for an edit only.     *)
RatesRespected ==
  /\ \A g \in Gens : ideal[g] >= 0 /\ buckets[g].tokens >= 0
  /\ Cardinality({g \in Gens : buckets[g] # Unmade}) <= counts.edits + 1
  /\ \A c \in SpeedPumps : waiter[c].left > 0 => buckets[waiter[c].bucket] # Unmade

(* state.py: "chunks LARGER than the burst capacity are consumed           *)
(* slice-by-slice instead of waiting for a single lump that could never    *)
(* accumulate": every chunk passes, also at a bucket that was replaced.    *)
ChunksPass == \A c \in SpeedPumps : waiter[c].left > 0 ~> waiter[c].left = 0
=============================================================================
