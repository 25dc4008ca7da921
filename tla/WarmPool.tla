------------------------------- MODULE WarmPool -------------------------------
(***************************************************************************)
(* The warm connections of PreConnect (engines/engines/preconnect.py) and  *)
(* the hook around asyncio.open_connection that takes and makes them       *)
(* (engines/core_host.py).  A pool entry is taken at once or not at all;   *)
(* the real dial and the speculative one are awaited.                      *)
(*                                                                         *)
(* A socket is a number, given out when its dial succeeds.  Ages and the   *)
(* throttle are counted in ticks.  Left out: the sockets of real dials,    *)
(* which the relay owns, the congestion measurements, and that the table   *)
(* of dialed targets drops the oldest of 256.                              *)
(***************************************************************************)
EXTENDS Naturals, Sequences, FiniteSets, SequencesExt

CONSTANTS
  Targets,     \* (host, port)
  PerHost,     \* PRECONNECT_POOL_SIZE
  MaxHosts,    \* EMUNEL_PRECONNECT_MAX_HOSTS
  WarmTtl,     \* PRECONNECT_TTL_SEC
  Throttle,    \* ticks between two warm dials of a target
  MaxSockets,  \* bound: warm sockets opened
  MaxDials     \* bound: real dials in flight, of a target

ASSUME WarmAssumption ==
  /\ PerHost \in Nat \ {0} /\ MaxHosts \in Nat \ {0} /\ WarmTtl \in Nat
  /\ Throttle \in Nat /\ MaxSockets \in Nat

VARIABLES
  warmOn,    \* the engine is active
  pool,      \* <<[key, bucket]>> in the order of the first put; a bucket: <<[sock, age]>>
  dials,     \* dials[t]: how often t was dialed, up to 2
  dialing,   \* real dials awaited
  warming,   \* dialed in the background: "none", "started" before the task runs, "dialing"
  throttled, \* ticks until t may be warmed again
  opened,    \* history: the number of warm sockets so far
  shut,      \* those closed
  given,     \* history: <<t, socket, age>> handed to a relay
  gone       \* sockets whose transport knows that they are closed

warmVars == <<warmOn, pool, dials, dialing, warming, throttled, opened, shut, given, gone>>

WarmInit ==
  /\ warmOn = TRUE /\ pool = <<>>
  /\ dials = [t \in Targets |-> 0] /\ dialing = [t \in Targets |-> 0]
  /\ warming = [t \in Targets |-> "none"] /\ throttled = [t \in Targets |-> 0]
  /\ opened = 0 /\ shut = {} /\ given = <<>> /\ gone = {}

Keys       == {pool[i].key : i \in DOMAIN pool}
Place(t)   == CHOOSE i \in DOMAIN pool : pool[i].key = t
Bucket(t)  == IF t \in Keys THEN pool[Place(t)].bucket ELSE <<>>
Sockets(b) == {b[i].sock : i \in DOMAIN b}
Pooled     == UNION {Sockets(pool[i].bucket) : i \in DOMAIN pool}

-----------------------------------------------------------------------------
(* take: entries go from the front until one is fit; a bucket that has none*)
(* leaves the pool, one that the hit empties stays.                        *)
Fit(e) == e.age <= WarmTtl /\ e.sock \notin gone

(* Mutant of Rest: the entry stays for the next dial.                      *)
RestTaken(b, n) == SubSeq(b, n, Len(b))

Rest(b, n) == SubSeq(b, n + 1, Len(b))

WithBucket(t, b)  == [pool EXCEPT ![Place(t)].bucket = b]
WithoutBucket(t)  == IF t \in Keys THEN RemoveAt(pool, Place(t)) ELSE pool

TakeWarm(t) ==
  LET b == Bucket(t)
  IN \E n \in DOMAIN b :
       /\ warmOn /\ Fit(b[n]) /\ \A i \in 1..(n - 1) : ~Fit(b[i])
       /\ given' = Append(given, <<t, b[n].sock, b[n].age>>)
       /\ shut' = shut \cup Sockets(SubSeq(b, 1, n - 1))
       /\ pool' = WithBucket(t, Rest(b, n))
       /\ UNCHANGED <<warmOn, dials, dialing, warming, throttled, opened, gone>>

(* A miss: what was found unfit is closed, and the real dial begins.       *)
DialBegins(t) ==
  LET b == Bucket(t)
  IN /\ dialing[t] < MaxDials
     /\ warmOn => \A i \in DOMAIN b : ~Fit(b[i])
     /\ dialing' = [dialing EXCEPT ![t] = @ + 1]
     /\ IF warmOn THEN pool' = WithoutBucket(t) /\ shut' = shut \cup Sockets(b)
        ELSE UNCHANGED <<pool, shut>>
     /\ UNCHANGED <<warmOn, dials, warming, throttled, opened, given, gone>>

(* After a dial the target is remembered; one that is dialed again, and has*)
(* no warm socket, gets a task that dials once more.                       *)
ShouldWarm(t, n) ==
  n >= 2 /\ warming[t] # "dialing" /\ Bucket(t) = <<>> /\ throttled[t] = 0

DialEnds(t, ok) ==
  LET n == IF dials[t] < 2 THEN dials[t] + 1 ELSE 2
  IN /\ dialing[t] > 0
     /\ dialing' = [dialing EXCEPT ![t] = @ - 1]
     /\ IF ok /\ warmOn
        THEN /\ dials' = [dials EXCEPT ![t] = n]
             /\ IF ShouldWarm(t, n)
                THEN /\ throttled' = [throttled EXCEPT ![t] = Throttle]
                     /\ warming' = [warming EXCEPT ![t] = "started"]
                ELSE UNCHANGED <<throttled, warming>>
        ELSE UNCHANGED <<dials, throttled, warming>>
     /\ UNCHANGED <<warmOn, pool, opened, shut, given, gone>>

WarmBegins(t) ==
  /\ warming[t] = "started"
  /\ warming' = [warming EXCEPT ![t] = "dialing"]
  /\ UNCHANGED <<warmOn, pool, dials, dialing, throttled, opened, shut, given, gone>>

(* Mutant of Dropped: the bucket that makes room is forgotten, open.       *)
DroppedOpen(b) == shut

Dropped(b) == shut \cup Sockets(b)

(* put: a bucket keeps its last PerHost entries, the pool its last MaxHosts*)
(* buckets by their first put.                                             *)
WarmConnects(t) ==
  LET new    == [sock |-> opened + 1, age |-> 0]
      grown  == Append(Bucket(t), new)
      over   == Len(grown) - PerHost
      bucket == IF over > 0 THEN SubSeq(grown, over + 1, Len(grown)) ELSE grown
      out    == IF over > 0 THEN SubSeq(grown, 1, over) ELSE <<>>
      full   == t \notin Keys /\ Len(pool) = MaxHosts
  IN /\ warming[t] = "dialing" /\ opened < MaxSockets
     /\ opened' = opened + 1
     /\ pool' = IF t \in Keys THEN WithBucket(t, bucket)
                ELSE Append(IF full THEN Tail(pool) ELSE pool, [key |-> t, bucket |-> bucket])
     /\ shut' = IF full THEN Dropped(Head(pool).bucket) ELSE Dropped(out)
     /\ warming' = [warming EXCEPT ![t] = "none"]
     /\ UNCHANGED <<warmOn, dials, dialing, throttled, given, gone>>

WarmFails(t) ==
  /\ warming[t] = "dialing"
  /\ warming' = [warming EXCEPT ![t] = "none"]
  /\ UNCHANGED <<warmOn, pool, dials, dialing, throttled, opened, shut, given, gone>>

(* The destination resets an idle connection, and the transport sees it.   *)
WarmReset(s) ==
  /\ s \in Pooled \ gone
  /\ gone' = gone \cup {s}
  /\ UNCHANGED <<warmOn, pool, dials, dialing, warming, throttled, opened, shut, given>>

Older(b) == [j \in DOMAIN b |-> [b[j] EXCEPT !.age = IF @ > WarmTtl THEN @ ELSE @ + 1]]

WarmTick ==
  /\ pool' = [i \in DOMAIN pool |-> [pool[i] EXCEPT !.bucket = Older(@)]]
  /\ throttled' = [t \in Targets |-> IF throttled[t] > 0 THEN throttled[t] - 1 ELSE 0]
  /\ UNCHANGED <<warmOn, dials, dialing, warming, opened, shut, given, gone>>

(* Every pooled socket is closed; a warm dial in flight is not cancelled.  *)
WarmStops ==
  /\ warmOn
  /\ warmOn' = FALSE /\ pool' = <<>> /\ shut' = shut \cup Pooled
  /\ UNCHANGED <<dials, dialing, warming, throttled, opened, given, gone>>

-----------------------------------------------------------------------------
WarmTypeOK ==
  /\ opened \in 0..MaxSockets /\ dials \in [Targets -> 0..2]
  /\ warming \in [Targets -> {"none", "started", "dialing"}]
  /\ throttled \in [Targets -> 0..Throttle] /\ gone \subseteq 1..MaxSockets

(* Every warm socket is in exactly one place, whatever order dials, warm   *)
(* dials, resets and stops come in: pooled, closed, or given to one relay, *)
(* for the target it was dialed for, within its time to live; and the pool *)
(* keeps to its bounds.                                                    *)
SocketsAccounted ==
  LET out == {given[i][2] : i \in DOMAIN given}
  IN /\ Pooled \cup shut \cup out = 1..opened
     /\ Pooled \cap shut = {} /\ Pooled \cap out = {} /\ out \cap shut = {}
     /\ \A i, j \in DOMAIN given : i # j => given[i][2] # given[j][2]
     /\ \A i \in DOMAIN given : given[i][3] <= WarmTtl
     /\ Len(pool) <= MaxHosts
     /\ \A i \in DOMAIN pool : Len(pool[i].bucket) <= PerHost
=============================================================================
