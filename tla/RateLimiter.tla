---------------------------- MODULE RateLimiter -----------------------------
(***************************************************************************)
(* The sliding-window limiter of the Console (security/ratelimit.py): per  *)
(* address and prefix, the times of the requests it let through.  Reads and*)
(* writes of /api have rules of their own and one prefix, so that one      *)
(* window counts both.  The time is counted in half seconds, since the wait*)
(* it announces is cut to whole ones.  Only the requests that a rule is for*)
(* are modelled; one address, as the others have windows of their own.     *)
(***************************************************************************)
EXTENDS Integers, Sequences, FiniteSets

CONSTANTS
  AuthLimit,    \* RULES: the limit of each rule
  ReadLimit,
  WriteLimit,
  WindowSize,   \* window_seconds, in half seconds
  LimitEnd      \* bound: half seconds on the clock

ASSUME LimiterAssumption ==
  /\ {AuthLimit, ReadLimit, WriteLimit} \subseteq Nat \ {0} /\ WriteLimit <= ReadLimit
  /\ WindowSize \in Nat \ {0} /\ WindowSize % 2 = 0

VARIABLES
  hits,     \* of each prefix: the times in its window, oldest first
  mono,     \* time.monotonic
  passed,   \* history: of each prefix, those let through in the last window: [rule, at]
  promise   \* the last refusal: [rule, at, due, others], of a rule or "none"

limiterVars == <<hits, mono, passed, promise>>

Rules == {"auth", "api_read", "api_write"}
Windows == {"auth", "api"}
LimitOf == [auth |-> AuthLimit, api_read |-> ReadLimit, api_write |-> WriteLimit]
NoPromise == [rule |-> "none", at |-> 0, due |-> 0, others |-> FALSE]

LimiterInit ==
  /\ hits = [p \in Windows |-> <<>>] /\ passed = [p \in Windows |-> <<>>]
  /\ mono = 0 /\ promise = NoPromise

(* RateLimitASGI: the prefix of a rule.                                    *)
PrefixOf(rule) == IF rule = "auth" THEN "auth" ELSE "api"

(* Mutant of Live: a window is emptied as a whole.                         *)
LiveFixed(window) == IF window # <<>> /\ window[1] <= mono - WindowSize THEN <<>> ELSE window

(* How many on the left of some times are a window older than t.          *)
Expired(times, t) ==
  CHOOSE n \in 0..Len(times) :
    /\ \A i \in 1..n : times[i] <= t - WindowSize
    /\ n < Len(times) => times[n + 1] > t - WindowSize

(* The hits that are older than a window are dropped from the left.        *)
Live(window) == SubSeq(window, Expired(window, mono) + 1, Len(window))

(* int(window - (now - window[0])) + 1, in half seconds.                   *)
RetryAfter(window) == 2 * ((WindowSize - (mono - window[1])) \div 2 + 1)

(* The history likewise, for a window that ends at t.                      *)
Recent(p, t) ==
  LET times == [i \in DOMAIN passed[p] |-> passed[p][i].at]
  IN SubSeq(passed[p], Expired(times, t) + 1, Len(passed[p]))

(* check: a request is counted when it passes, and refused with the time   *)
(* to wait when the window is full.                                        *)
Ask(rule) ==
  LET p == PrefixOf(rule)
      window == Live(hits[p])
  IN IF Len(window) >= LimitOf[rule]
     THEN /\ hits' = [hits EXCEPT ![p] = window]
          /\ promise' = [rule |-> rule, at |-> mono, due |-> mono + RetryAfter(window),
                         others |-> Len(window) > LimitOf[rule]]
          /\ UNCHANGED <<mono, passed>>
     ELSE /\ hits' = [hits EXCEPT ![p] = Append(window, mono)]
          /\ passed' = [passed EXCEPT ![p] = Append(@, [rule |-> rule, at |-> mono])]
          /\ promise' = IF promise.rule # "none" /\ PrefixOf(promise.rule) = p
                        THEN NoPromise ELSE promise
          /\ UNCHANGED mono

LimiterTick ==
  /\ mono < LimitEnd
  /\ mono' = mono + 1
  /\ passed' = [p \in Windows |-> Recent(p, mono')]
  /\ UNCHANGED <<hits, promise>>

-----------------------------------------------------------------------------
PassedNow(p, rules) ==
  Cardinality({i \in DOMAIN passed[p] :
                 passed[p][i].at > mono - WindowSize /\ passed[p][i].rule \in rules})

(* At no moment has a rule let more through, in the window that ends there,*)
(* than its limit, nor /api more than the larger of its two.               *)
WindowsRespected ==
  /\ \A r \in Rules : PassedNow(PrefixOf(r), {r}) <= LimitOf[r]
  /\ PassedNow("api", Rules) <= ReadLimit

(* The Retry-After of a refusal is true: once it is over, with nothing let *)
(* through in between, there is room.  It is not for a write that is       *)
(* refused over reads: its window holds more than its own limit, and when  *)
(* the oldest leaves it is still full.                                     *)
RetryAfterIsTrue ==
  promise.rule # "none" /\ ~promise.others /\ mono >= promise.due
  => Len(Live(hits[PrefixOf(promise.rule)])) < LimitOf[promise.rule]

LimitsHold == WindowsRespected /\ RetryAfterIsTrue
=============================================================================
