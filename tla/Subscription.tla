---------------------------- MODULE Subscription ----------------------------
(***************************************************************************)
(* The public subscription of an instance, GET /i/<token>/sub: which of its*)
(* configs the document lists, in which format, and what the header and the*)
(* page tell of the quota.  The handler asks the Core and the database in  *)
(* four steps, while traffic flows, time passes and the owner edits limits.*)
(* Rendering (HTML, YAML, the QR matrix) is left out but for the numbers.  *)
(***************************************************************************)
EXTENDS Integers, FiniteSets, Functions

CONSTANTS
  Configs,      \* the links of the instance
  KindOf,       \* of each link: "ws" or "xhttp"
  Caps,         \* the volume caps in use, 0 for none
  FeedEnd,      \* bound: the days on the clock
  MaxFeedUse,   \* bound: the bytes one link relays
  MaxEdits      \* bound: edits of a limit

ASSUME SubscriptionAssumption ==
  /\ IsFiniteSet(Configs) /\ Caps \subseteq Nat
  /\ FeedEnd \in Nat /\ MaxFeedUse \in Nat /\ MaxEdits \in Nat

VARIABLES
  policy,    \* of each link: [cap, until, active], in the database and in the Core
  usage,     \* of each link: the bytes relayed
  envelope,  \* row of instance_volume: [cap, until], 0 for none
  cachedUse, \* its used_cache
  reached,   \* the Core answers
  today,     \* the clock, in days
  feed,      \* the request: [at, listed, quota, strips, edited, faulty]
  edits

feedVars == <<policy, usage, envelope, cachedUse, reached, today, feed, edits>>

Formats == {"raw", "page", "singbox", "clash"}
Unread == [cap |-> -1, until |-> -1, used |-> 0]       \* quota is None
NotAsked == [at |-> "idle", listed |-> {}, quota |-> Unread,
         strips |-> [c \in Configs |-> "none"], edited |-> FALSE, faulty |-> FALSE]

SumOf(f, S) == FoldFunctionOnSet(+, 0, f, S)

Policies == [cap : Caps, until : {0, FeedEnd}, active : BOOLEAN]

SubscriptionInit ==
  /\ policy \in [Configs -> Policies]
  /\ usage = [c \in Configs |-> 0]
  /\ envelope \in [cap : Caps, until : {0, FeedEnd}]
  /\ cachedUse = 0 /\ reached = TRUE /\ today = 0 /\ edits = 0
  /\ feed = NotAsked

(* The behaviour is followed until the answer.                             *)
Open == feed.at \notin {"200", "422", "502"}

Due(until) == until > 0 /\ today >= until
Full(cap, used) == cap > 0 /\ used >= cap

(* Link.is_allowed.                                                        *)
Allowed(c) == policy[c].active /\ ~Due(policy[c].until) /\ ~Full(policy[c].cap, usage[c])

(* The Core relays for a link that is allowed.                             *)
FeedRelay(c) ==
  /\ Open /\ reached /\ Allowed(c) /\ usage[c] < MaxFeedUse
  /\ usage' = [usage EXCEPT ![c] = @ + 1]
  /\ UNCHANGED <<policy, envelope, cachedUse, reached, today, feed, edits>>

FeedTick ==
  /\ Open /\ today < FeedEnd /\ today' = today + 1
  /\ UNCHANGED <<policy, usage, envelope, cachedUse, reached, feed, edits>>

(* The Core stops answering.                                               *)
CoreSilent ==
  /\ Open /\ reached /\ reached' = FALSE
  /\ UNCHANGED <<policy, usage, envelope, cachedUse, today, feed, edits>>

(* set_limit of the volume service, and update_link.                       *)
EditEnvelope(cap) ==
  /\ Open /\ edits < MaxEdits /\ edits' = edits + 1
  /\ cap # envelope.cap
  /\ envelope' = [envelope EXCEPT !.cap = cap]
  /\ feed' = [feed EXCEPT !.edited = TRUE]
  /\ UNCHANGED <<policy, usage, cachedUse, reached, today>>

EditConfig(c, p) ==
  /\ Open /\ edits < MaxEdits /\ edits' = edits + 1
  /\ policy' = [policy EXCEPT ![c] = p]
  /\ feed' = [feed EXCEPT !.edited = TRUE]
  /\ UNCHANGED <<usage, envelope, cachedUse, reached, today>>

(* The endpoint resolves to an instance that runs.                         *)
Subscribe ==
  /\ feed.at = "idle"
  /\ feed' = [NotAsked EXCEPT !.at = "share"]
  /\ UNCHANGED <<policy, usage, envelope, cachedUse, reached, today, edits>>

(* POST /core/api/share: the links that are allowed now; a Core that does  *)
(* not answer makes the page 502.                                          *)
Share ==
  /\ feed.at = "share"
  /\ feed' = IF reached
             THEN [feed EXCEPT !.at = "quota", !.listed = {c \in Configs : Allowed(c)}]
             ELSE [feed EXCEPT !.at = "502"]
  /\ UNCHANGED <<policy, usage, envelope, cachedUse, reached, today, edits>>

HasEnvelope(q) == q.cap > 0 \/ q.until > 0

(* get_state: the lifetime total of the Core, which the row then caches, or*)
(* the cached figure.                                                      *)
Measured ==
  [cap |-> envelope.cap, until |-> envelope.until,
   used |-> IF reached THEN SumOf(usage, Configs) ELSE cachedUse]

(* What get_state raises leaves the quota unread.                          *)
ReadQuota(ok) ==
  /\ feed.at = "quota"
  /\ IF ok
     THEN /\ feed' = [feed EXCEPT !.quota = Measured,
                                  !.faulty = ~reached,
                                  !.at = IF HasEnvelope(Measured) THEN "links" ELSE "aggregate"]
          /\ cachedUse' = Measured.used
     ELSE /\ feed' = [feed EXCEPT !.at = "links", !.faulty = TRUE]
          /\ UNCHANGED cachedUse
  /\ UNCHANGED <<policy, usage, envelope, reached, today, edits>>

(* Mutant of Counted: every link of the instance counts.                   *)
CountedAll == Configs

(* The links whose caps the aggregate adds: active ones, even when expired.*)
Counted == {c \in Configs : policy[c].active}

(* aggregate_quota: the sum of the caps and the earliest expiry, over the  *)
(* use of the whole instance; nothing when no link sets a limit.           *)
Aggregate(ok) ==
  LET total == SumOf([c \in Configs |-> policy[c].cap], Counted)
      dates == {policy[c].until : c \in Counted} \ {0}
      first == IF dates = {} THEN 0 ELSE CHOOSE d \in dates : \A e \in dates : d <= e
  IN /\ feed.at = "aggregate"
     /\ feed' = IF ok
                THEN [feed EXCEPT !.at = "links",
                                  !.quota = [cap |-> total, until |-> first, used |-> @.used]]
                ELSE [feed EXCEPT !.at = "links", !.faulty = TRUE]
     /\ UNCHANGED <<policy, usage, envelope, cachedUse, reached, today, edits>>

(* _link_out: the status of a link, of which the first that holds is told. *)
StripOf(c) == IF ~policy[c].active THEN "disabled"
              ELSE IF Due(policy[c].until) THEN "expired"
              ELSE IF Full(policy[c].cap, usage[c]) THEN "limited" ELSE "active"

(* The exporters of sing-box and Clash refuse a document with any XHTTP.   *)
Refused(fmt) == fmt \in {"singbox", "clash"} /\ \E c \in feed.listed : KindOf[c] = "xhttp"

(* list_links, then the answer: 200 with the document, or 422.  The format *)
(* is that of ?fmt=, else it is chosen by the look of the client.          *)
Answer(fmt, ok) ==
  /\ feed.at = "links"
  /\ feed' = [feed EXCEPT !.at = IF Refused(fmt) THEN "422" ELSE "200",
                          !.strips = IF ok /\ reached THEN [c \in Configs |-> StripOf(c)] ELSE @,
                          !.faulty = @ \/ ~ok \/ ~reached]
  /\ UNCHANGED <<policy, usage, envelope, cachedUse, reached, today, edits>>

-----------------------------------------------------------------------------
(* What the answer tells.  The header: download, total and expire, 0 for   *)
(* unlimited.  The page: the state of the two cards and the status.        *)
Header == IF feed.quota = Unread THEN [download |-> 0, total |-> 0, expire |-> 0]
          ELSE [download |-> feed.quota.used, total |-> feed.quota.cap,
                expire |-> feed.quota.until]
StatusLine == IF feed.quota = Unread THEN "Active"
              ELSE IF Due(feed.quota.until) THEN "Expired"
              ELSE IF Full(feed.quota.cap, feed.quota.used) THEN "Limited" ELSE "Active"

Calm == feed.at = "200" /\ ~feed.edited /\ ~feed.faulty

(* A client is not told that it may use more, or for longer, than is left: *)
(* the cap and the expiry of the envelope are what it is told; without one,*)
(* it is told to be unlimited only when no active link has a limit, and the*)
(* subscription is not called active when none of the active links was     *)
(* allowed any more.  (docs/API.md: "honestly unlimited only when nothing  *)
(* anywhere sets a limit".)                                                *)
NothingTooGood ==
  Calm => /\ HasEnvelope(envelope) => Header.total = envelope.cap /\ Header.expire = envelope.until
          /\ Header.total = 0 /\ Header.expire = 0 =>
               \A c \in Configs : policy[c].active => policy[c].cap = 0 /\ policy[c].until = 0
          /\ ~HasEnvelope(envelope) /\ feed.listed = {} /\ (\E c \in Configs : policy[c].active)
             => StatusLine # "Active"

(* A page never shows as active a link that its document could not list    *)
(* when the Core was asked, nor lists one that is then shown as disabled.  *)
StripsAgree ==
  Calm => \A c \in Configs : /\ feed.strips[c] = "active" => c \in feed.listed
                             /\ feed.strips[c] = "disabled" => c \notin feed.listed

SubscriptionTypeOK ==
  /\ feed.listed \subseteq Configs
  /\ feed.at \in {"idle", "share", "quota", "aggregate", "links", "200", "422", "502"}
  /\ cachedUse <= SumOf(usage, Configs)

SubscriptionHolds == SubscriptionTypeOK /\ NothingTooGood /\ StripsAgree
=============================================================================
