------------------------------ MODULE MCConsole -----------------------------
(***************************************************************************)
(* The parts of the Console, and of the process it runs in, that share no  *)
(* variable, each explored on its own while the others rest in an initial  *)
(* state.  VolumeEnforcement is instantiated: its names are common ones.   *)
(***************************************************************************)
EXTENDS Accounts, RateLimiter, ConsoleBoot, ConfigBackup, WorkerFleet, Subscription,
        StaleWatch, Supervisor

CONSTANTS a1, g1, s1, n1, n2, c1, c2, o1
CONSTANTS Ops, Limits, FirstLimit, Margin, Resets, TimeEdits, Losses, OpsMayFail,
          LoopMayFail, MaxTotal, MaxSpent   \* those of VolumeEnforcement

RegionOfV == [n \in {n1, n2} |-> IF n = n1 THEN "a" ELSE "b"]
KindOfV   == [c \in {c1, c2} |-> IF c = c1 THEN "ws" ELSE "xhttp"]
RegionsAsked == {"any", "b"}
PoliciesSet == {[cap |-> 0, until |-> 0, active |-> FALSE], [cap |-> 1, until |-> 0, active |-> TRUE]}

\* Where placements are explored only the node that is not the default one is heard of.
Heard(n) == n = n2 \/ time < LastTick

VARIABLES
  focus,   \* the part this behaviour explores
  row, status, core, loop, op, lost, spent, granted, repaired, overtaken  \* of the volume

V == INSTANCE VolumeEnforcement

ASSUME ConsoleAssumption == V!VolumeAssumption

volumeVars == <<row, status, core, loop, op, lost, spent, granted, repaired, overtaken>>

consoleVars == <<accountVars, limiterVars, bootVars, backupDbVars, fleetVars, feedVars,
                 staleVars, supervisorVars, volumeVars, focus>>

In(part) ==
  /\ focus = part /\ UNCHANGED focus
  /\ IF part = "accounts" THEN TRUE ELSE UNCHANGED accountVars
  /\ IF part = "limits" THEN TRUE ELSE UNCHANGED limiterVars
  /\ IF part = "boot" THEN TRUE ELSE UNCHANGED bootVars
  /\ IF part = "rows" THEN TRUE ELSE UNCHANGED backupDbVars
  /\ IF part = "fleet" THEN TRUE ELSE UNCHANGED fleetVars
  /\ IF part = "feed" THEN TRUE ELSE UNCHANGED feedVars
  /\ IF part = "stale" THEN TRUE ELSE UNCHANGED staleVars
  /\ IF part = "process" THEN TRUE ELSE UNCHANGED supervisorVars
  /\ IF part = "volume" THEN TRUE ELSE UNCHANGED volumeVars

ConsoleInit ==
  /\ focus \in {"accounts", "limits", "boot", "rows", "fleet", "feed", "stale", "process",
               "volume"}
  /\ AccountsInit /\ LimiterInit /\ BootInit /\ ConfigInit /\ FleetInit /\ SubscriptionInit
  /\ StaleInit /\ SupervisorInit /\ V!Init
  /\ focus # "boot" => backend = "sqlite" /\ schema = {}
  /\ focus # "fleet" => time = 0
  /\ policy[c2].until = 0
  /\ focus # "feed" => /\ policy = [c \in Configs |-> [cap |-> 0, until |-> 0, active |-> TRUE]]
                       /\ envelope = [cap |-> 0, until |-> 0]
  /\ focus # "stale" => watched.limit = "cap"
  /\ focus # "process" => store["data"].ok /\ store["local"].ok

Next ==
  \/ \E v \in SignIns, u \in Locals : In("accounts") /\ PasswordSignIn(v, u)
  \/ \E s \in OauthStates : In("accounts") /\ BeginOauth(s)
  \/ \E v \in SignIns, s \in OauthStates : In("accounts") /\ Callback(v, s)
  \/ \E v \in SignIns : In("accounts") /\ ExchangeFails(v)
  \/ \E v \in SignIns, u \in Githubs : In("accounts") /\ Upsert(v, u)
  \/ \E v \in SignIns : In("accounts") /\ Promote(v)
  \/ \E v \in SignIns : In("accounts") /\ InsertSession(v)
  \/ \E v \in SignIns : In("accounts") /\ TrimSessions(v)
  \/ \E r \in rows : In("accounts") /\ Logout(r)
  \/ \E r \in rows, u \in Accounts : In("accounts") /\ DisableUser(r, u)
  \/ In("accounts") /\ SweepSessions
  \/ \E r \in rows, u \in Accounts : In("accounts") /\ EnableUser(r, u)
  \/ \E r \in rows, u \in Accounts, f \in BOOLEAN : In("accounts") /\ SetAdmin(r, u, f)
  \/ \E r \in Rules : In("limits") /\ Ask(r)
  \/ In("limits") /\ LimiterTick
  \/ In("boot") /\ BeginBoot
  \/ In("boot") /\ Connected
  \/ In("boot") /\ ConnectFails
  \/ In("boot") /\ Migrate
  \/ In("boot") /\ Migrated
  \/ In("boot") /\ RunScript
  \/ In("boot") /\ Patch
  \/ In("boot") /\ Patched
  \/ In("boot") /\ CountUsers
  \/ In("boot") /\ Seed
  \/ In("boot") /\ BootKilled
  \/ \E q \in Creates, c \in Consoles, s \in Slugs : In("rows") /\ CountInstances(q, c, s)
  \/ \E q \in Creates : In("rows") /\ FindName(q)
  \/ \E q \in Creates : In("rows") /\ InsertInstance(q)
  \/ \E q \in Creates : In("rows") /\ InsertConfig(q)
  \/ \E q \in Creates : In("rows") /\ InsertEndpoint(q)
  \/ \E c \in Consoles : In("rows") /\ ConsoleKilled(c)
  \/ \E c \in Consoles, s \in {"running", "deleted"} : In("rows") /\ \E r \in instances[c] : SetStatus(c, r, s)
  \/ In("rows") /\ Export
  \/ In("rows") /\ Restore
  \/ \E b \in Beats, n \in Workers : In("fleet") /\ Heard(n) /\ SendBeat(b, n)
  \/ \E b \in Beats : In("fleet") /\ BeatLost(b)
  \/ \E b \in Beats : In("fleet") /\ ReadWorker(b)
  \/ \E b \in Beats : In("fleet") /\ WriteWorker(b)
  \/ \E b \in Beats : In("fleet") /\ InsertFails(b)
  \/ \E b \in Beats : In("fleet") /\ Sweep(b)
  \/ \E n \in Workers, on \in BOOLEAN : In("fleet") /\ SetEnabled(n, on)
  \/ \E r \in RegionsAsked, n \in Workers : In("fleet") /\ Pick(r, n)
  \/ \E n \in Workers, ok \in BOOLEAN : In("fleet") /\ Placed(n, ok)
  \/ \E n \in Workers : In("fleet") /\ Unplaced(n)
  \/ In("fleet") /\ FleetTick
  \/ \E c \in Configs : In("feed") /\ FeedRelay(c)
  \/ In("feed") /\ FeedTick
  \/ In("feed") /\ CoreSilent
  \/ \E cap \in Caps : In("feed") /\ EditEnvelope(cap)
  \/ \E c \in Configs, p \in PoliciesSet : In("feed") /\ EditConfig(c, p)
  \/ In("feed") /\ Subscribe
  \/ In("feed") /\ Share
  \/ \E ok \in BOOLEAN : In("feed") /\ ReadQuota(ok)
  \/ \E ok \in BOOLEAN : In("feed") /\ Aggregate(ok)
  \/ \E f \in Formats, ok \in BOOLEAN : In("feed") /\ Answer(f, ok)
  \/ \E w \in [running : BOOLEAN, limit : {"cap", "time", "none"}] : In("stale") /\ OwnerEdits(w)
  \/ In("stale") /\ MinutePasses
  \/ In("stale") /\ LoopLooks
  \/ In("stale") /\ TimeIsOver
  \/ In("stale") /\ UsageRead
  \/ In("stale") /\ NoteStale
  \/ \E ok \in BOOLEAN : In("stale") /\ Alert(ok)
  \/ \E stopped \in BOOLEAN, told \in BOOLEAN : In("stale") /\ Judge(stopped, told)
  \/ \E b \in BOOLEAN : In("process") /\ SetupBegins(b)
  \/ In("process") /\ EnsureSecretKey
  \/ In("process") /\ StartWorker
  \/ In("process") /\ Serve
  \/ \E p \in embedded : In("process") /\ WorkerDies(p)
  \/ In("process") /\ Terminate
  \/ In("process") /\ ProcessKilled
  \/ In("process") /\ KilledInWrite
  \/ \E ok \in BOOLEAN, chmod \in BOOLEAN : In("process") /\ Redeploy(ok, chmod)
  \/ In("volume") /\ V!Next

Spec == ConsoleInit /\ [][Next]_consoleVars

\* Every variable of the parts that declare a type has it.
ConsoleTypeOK == AccountsTypeOK /\ BootTypeOK /\ ConfigTypeOK /\ FleetTypeOK /\ V!TypeOK

(* SessionsHold and NewestSurvives of Accounts.                            *)
SessionsKept == []SessionsHold /\ NewestSurvives

(* BootHolds of ConsoleBoot, SupervisorHolds of Supervisor, and the types. *)
PlatformBoots == BootHolds /\ SupervisorHolds /\ ConsoleTypeOK

(* OfflineMeansSilent and OvercommitIsBounded of WorkerFleet.              *)
FleetHolds == []OfflineMeansSilent /\ OvercommitIsBounded

(* QuotaIsNotRenewed and RepairOnlyAfterLoss of VolumeEnforcement, and     *)
(* StaleHolds of StaleWatch.                                               *)
EnforcementHolds ==
  [](V!QuotaIsNotRenewed /\ StaleHolds) /\ [][V!Rebase => lost \/ overtaken]_volumeVars
=============================================================================
