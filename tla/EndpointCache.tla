---------------------------- MODULE EndpointCache ----------------------------
(***************************************************************************)
(* The resolution cache of the Console gateway (services/gateway.py): an   *)
(* endpoint token is resolved to the worker of its instance, and the result*)
(* is kept for TtlPos when there is one and for TtlNeg when there is none. *)
(*                                                                         *)
(* Resolving has an await between the read of the database and the put, so *)
(* an invalidation can run in between; and the operations that invalidate  *)
(* (deploy, stop, restart, delete: services/deployments.py) do it before   *)
(* they write the status, so the old status can be cached again.           *)
(*                                                                         *)
(* Left out: the AES form of a token, which decodes to the same instance;  *)
(* the cache of other event loops (production has one loop).               *)
(***************************************************************************)
EXTENDS Integers, FiniteSets

CONSTANTS
  Endpoints,   \* tokens of instances; a token stands for its instance too
  Strays,      \* tokens of nothing
  Visits,      \* requests that resolve at a time
  Nodes,       \* workers a deployment may be on
  TtlPos, TtlNeg,   \* _CACHE_TTL, _CACHE_TTL_NEG
  QueryTime,   \* bound: how long a query may take after it read the row
  CacheMax, TrimCount   \* _CACHE_MAX and a quarter of it

ASSUME EndpointCacheAssumption ==
  /\ TtlNeg \in Nat \ {0} /\ TtlPos \in Nat /\ TtlNeg <= TtlPos
  /\ QueryTime \in Nat
  /\ CacheMax \in Nat /\ TrimCount \in 1..CacheMax

VARIABLES
  row,      \* the instance behind each token, as the database has it
  changing, \* instances whose lifecycle operation has not finished
  unchanged,\* time since the row last changed, up to Horizon
  cache,    \* token -> what is cached for it, and for how long still
  visit     \* requests between the read of the row and the put

endpointVars == <<row, changing, unchanged, cache, visit>>

Tokens  == Endpoints \cup Strays
Targets == Nodes \cup {"miss", "stopped"}
Rows    == Nodes \cup {"absent", "stopped", "deleted"}
Horizon == TtlPos + QueryTime
Idle    == [token |-> "none"]

(* What _resolve_endpoint makes of a row: a deleted instance keeps its row *)
(* and its active domain, so it resolves like one that is stopped.         *)
Resolved(t) ==
  IF t \in Strays \/ row[t] = "absent" THEN "miss"
  ELSE IF row[t] \in Nodes THEN row[t] ELSE "stopped"

(* Mutant of Ttl: the short life of a miss is forgotten.                   *)
TtlFlat(target) == TtlPos

(* A cached stop is not None either: it lives as long as a target.         *)
Ttl(target) == IF target = "miss" THEN TtlNeg ELSE TtlPos

Cached(t)  == t \in DOMAIN cache
Valid(t)   == Cached(t) /\ cache[t].left > 0

Without(keys) == [t \in DOMAIN cache \ keys |-> cache[t]]

EndpointInit ==
  /\ row \in [Endpoints -> {"absent", "stopped"}]
  /\ changing = {}
  /\ unchanged = [t \in Endpoints |-> Horizon]
  /\ cache = [t \in {} |-> 0]
  /\ visit = [v \in Visits |-> Idle]

-----------------------------------------------------------------------------
(* _cache_get: an entry past its time is dropped and is not an answer; an  *)
(* answer of the cache changes nothing.                                     *)
(* Without one the row is read, and the answer is under way.               *)
Query(v, t) ==
  /\ visit[v] = Idle /\ ~Valid(t)
  /\ visit' = [visit EXCEPT ![v] = [token |-> t, target |-> Resolved(t), age |-> 0]]
  /\ cache' = Without({t})
  /\ UNCHANGED <<row, changing, unchanged>>

(* The entries a full cache gives up: those that end soonest.              *)
Oldest == {D \in SUBSET DOMAIN cache :
             /\ Cardinality(D) = TrimCount
             /\ \A d \in D, t \in DOMAIN cache \ D : cache[d].left <= cache[t].left}

(* Mutant of Put: a full cache is not trimmed.                             *)
PutUntrimmed(v) ==
  /\ visit[v] # Idle
  /\ LET t == visit[v].token
         new == [target |-> visit[v].target, left |-> Ttl(visit[v].target)]
     IN  cache' = [k \in DOMAIN cache \cup {t} |-> IF k = t THEN new ELSE cache[k]]
  /\ visit' = [visit EXCEPT ![v] = Idle]
  /\ UNCHANGED <<row, changing, unchanged>>

(* The query returns: its answer is put, after a trim if the cache is full.*)
Put(v) ==
  /\ visit[v] # Idle
  /\ LET t == visit[v].token
         new == [target |-> visit[v].target, left |-> Ttl(visit[v].target)]
     IN  \E D \in (IF Cardinality(DOMAIN cache) >= CacheMax THEN Oldest ELSE {{}}) :
           cache' = [k \in (DOMAIN cache \ D) \cup {t} |-> IF k = t THEN new ELSE cache[k]]
  /\ visit' = [visit EXCEPT ![v] = Idle]
  /\ UNCHANGED <<row, changing, unchanged>>

(* The query or its connection fails: nothing is cached.                   *)
QueryFails(v) ==
  /\ visit[v] # Idle
  /\ visit' = [visit EXCEPT ![v] = Idle]
  /\ UNCHANGED <<row, changing, unchanged, cache>>

-----------------------------------------------------------------------------
SetRow(i, r) ==
  /\ row' = [row EXCEPT ![i] = r]
  /\ unchanged' = [unchanged EXCEPT ![i] = 0]

CreateInstance(i) ==
  /\ row[i] = "absent"
  /\ SetRow(i, "stopped")
  /\ UNCHANGED <<changing, cache, visit>>

(* A lifecycle operation starts: invalidate_endpoint_cache drops the       *)
(* entries that name the instance, which a miss and a stop do not.         *)
Invalidate(i) ==
  /\ row[i] \notin {"absent", "deleted"} /\ i \notin changing
  /\ changing' = changing \cup {i}
  /\ cache' = IF Cached(i) /\ cache[i].target \in Nodes THEN Without({i}) ELSE cache
  /\ UNCHANGED <<row, unchanged, visit>>

(* The operation writes the status: not running, with a pipeline that goes *)
(* on or not; or deleted.                                                  *)
TakenDown(i, r) ==
  /\ i \in changing /\ r \in {"stopped", "deleted"}
  /\ SetRow(i, r)
  /\ changing' \in {changing, changing \ {i}} /\ (r = "deleted" => i \notin changing')
  /\ UNCHANGED <<cache, visit>>

(* A pipeline ends: the instance runs, on the node of its deployment.      *)
BroughtUp(i, n) ==
  /\ i \in changing /\ row[i] = "stopped"
  /\ SetRow(i, n)
  /\ changing' = changing \ {i}
  /\ UNCHANGED <<cache, visit>>

EndpointTick ==
  /\ \A v \in Visits : visit[v] # Idle => visit[v].age < QueryTime
  /\ visit' = [v \in Visits |-> IF visit[v] = Idle THEN Idle
                                ELSE [visit[v] EXCEPT !.age = @ + 1]]
  /\ cache' = [t \in DOMAIN cache |->
                 [cache[t] EXCEPT !.left = IF @ = 0 THEN 0 ELSE @ - 1]]
  /\ unchanged' = [i \in Endpoints |->
                     IF unchanged[i] = Horizon THEN Horizon ELSE unchanged[i] + 1]
  /\ UNCHANGED <<row, changing>>

-----------------------------------------------------------------------------
EndpointTypeOK ==
  /\ row \in [Endpoints -> Rows]
  /\ changing \subseteq Endpoints
  /\ unchanged \in [Endpoints -> 0..Horizon]
  /\ DOMAIN cache \subseteq Tokens /\ Cardinality(DOMAIN cache) <= CacheMax
  /\ \A t \in DOMAIN cache : cache[t].target \in Targets /\ cache[t].left \in 0..TtlPos
  /\ \A v \in Visits : visit[v] # Idle =>
       visit[v].token \in Tokens /\ visit[v].target \in Targets /\ visit[v].age \in 0..QueryTime

(* An answer of the cache that the database no longer gives is not older   *)
(* than the life of its entry and of the query behind it: whatever order   *)
(* resolutions, invalidations and status writes came in, a row that stops  *)
(* changing is followed.  A miss is followed within the short time.        *)
StaleAnswersEnd ==
  \A t \in Endpoints : Valid(t) /\ cache[t].target # Resolved(t)
                         => unchanged[t] < QueryTime + IF cache[t].target = "miss" THEN TtlNeg ELSE TtlPos

(* The comment in _resolve_endpoint: a stopped instance is cached "on the  *)
(* short negative TTL like a miss", so that one that starts again is       *)
(* reached within that time.                                               *)
StopIsShortLived ==
  \A t \in Endpoints : Valid(t) /\ cache[t].target = "stopped" /\ row[t] \in Nodes
                         => unchanged[t] < TtlNeg + QueryTime
=============================================================================
