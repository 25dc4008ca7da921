# A verification project for EMUNEL

EMUNEL is a hosting platform for proxy instances. A **Console** (FastAPI, one process) keeps users, instances, their
links ("configs") and their limits in a database; a **Worker** on each node starts one **Core** process per instance;
a Core relays WebSocket and HTTP tunnels of five transports and counts every byte against the quota of a link and the
cap of the instance. An optional **Engines** layer wraps the Console and the Cores.

The modules here are translated from the code (paths below are relative to the repository), checked by TLC on small
instances, and in large part proved for every value of their constants with TLAPS. `PROJECT.json` maps every definition
to the lines it models and lists components, runs, mutants, hazards, findings and theorems.

Contents: 1 inventory, 2 modules, 3 runs, 4 proofs, 5 what the properties exclude, 6 disagreements with the
documentation, 7 plan, 8 not modelled.

## 1. Inventory

| component | code | state | operations | talks to |
|---|---|---|---|---|
| quota and pumps | `core/.../relay/base.py`, `vless.py`, `trojan.py`, `shadowsocks.py`, `vmess.py`, `state.py` | links (policy, `used_bytes`), `total_bytes`, `instance_cap_bytes`, one `QuotaGate` per tunnel | accept, first frame, connect, pump a frame, throttle, flush, tear down; create, patch, delete a link, set the cap | Console (management API), clients, upstreams |
| connection tracker | `state.py` 174-250 and its callers | live entries `(link, ip)` | register, remove, `ip_allowed` | every transport |
| Shadowsocks stream | `relay/shadowsocks.py` | key and salt of a stream, nonces, the undecrypted rest | feed, decrypt, find the link, encrypt | quota, tracker |
| XHTTP sessions | `relay/xhttp.py` | sessions by key: writer, pump task, reorder buffer, downlink queue, last use | upload, dial, deliver, pump, downlink, teardown, reap | clients, upstreams |
| VMess runtime | `relay/vmess.py` 53-169 | one external process per link with a count, a lock | acquire, start, release, close | VMess tunnels |
| speed limiter | `state.py` 253-317 | one token bucket per link | throttle, edit | all pumps |
| state store | `state.py` 358-429, `app.py`, `__main__.py` | `state.json`, a pending flag, a dirty flag, a lock | load, schedule, save, replace, shut down | the disk |
| volume and time limits | `console/.../services/volume.py`, `routers/instances.py` | `instance_volume` row, `_stale` watch | enforcement loop, set, reset, show, deploy check, alert and stop | Core through the Worker, deployments |
| deployments | `services/deployments.py`, `services/railway.py`, `routers/instances.py`, `routers/admin.py` | instance status, latest deployment, background pipelines, `provider_ref` | deploy, redeploy, stop, delete, restart, pipeline steps | Worker or Railway, volume, links |
| links service | `services/links.py` | `instance_links` rows beside the Core's links | list with import, create, update, delete, reconcile | Core through the Worker |
| gateway | `services/gateway.py`, `worker/main.py` | endpoint cache, slots of WebSocket relays, two HTTP pools | resolve, invalidate, bridge, stream, subscription | database, Worker, Core |
| worker | `worker/.../main.py`, `driver.py`, `registry.py` | handles, used ports, `registry.json`, Core processes or containers | launch, stop, restart, remove, relaunch at startup, heartbeat | Console, Cores, Docker |
| workers service | `services/workers.py`, `routers/internal.py`, `routers/admin.py` | the table of workers | heartbeat, sweep, enable, choose a node | Worker, deployments |
| accounts | `auth/`, `routers/auth.py`, `routers/admin.py` | users, session rows, OAuth states | sign in by password or GitHub, log out, disable, enable | GitHub |
| instances and backup | `routers/instances.py`, `services/backup.py` | instances, configurations, endpoints, links | create, export, validate, restore | another Console |
| rate limiter, subscription | `security/ratelimit.py`, `services/gateway.py` 500-640 | hits per address; nothing | check; build a document | database, Core |
| database layer, supervisor | `db.py`, `migrations_pg.py`, `main.py` | schema, first administrator; secret key, embedded database, a Worker child | boot, migrate, patch, seed; choose directories, start, terminate | the disk, the Worker |
| engines manager, bus, breaker | `engines/manager.py`, `base.py`, `bus.py`, `consolidated/`, `oom_guard.py` | active engines, pipelines, toggles, breakers, queues | boot, enable, disable, fall back, shed, publish, process | Console, Cores |
| engines: Chaos, FEC, Genetic, Mesh, PreConnect | `chaos/`, `engines/fec.py`, `genetic/`, `mesh/`, `engines/preconnect.py`, `core_host.py` | windows and records, parity groups, genomes and reports in SQLite, warm sockets | encode, decode, recover, evolve, report, warm, take | disk, sockets |
| engines: state, backup, middleware | `state.py`, `persistence/backup.py`, `middleware.py`, `http_compress.py` | payloads and copies; a downlink buffer; a response in progress | set, flush, back up, rotate; batch, flush, close; collect, replace, compress | disk, clients |
| panel and front end, other engines, scripts | `panel.py`, `frontend/`, `reality.py`, `sni_enhanced/`, `scripts/` | none that outlives a request, or heuristics | | |

What makes these correct, and what is hard about it:

* **quota** - no interleaving of pumps, tunnels, edits and caps lets a link or an instance use more than its limit and
  a bounded overshoot. Hard: counting is batched, two pumps share a gate across an await, edits arrive at any point.
* **tracker** - a link never has more addresses than its limit, and every relaying tunnel is listed.
  Hard: five transports register at different points, one after an await, one outside its `try`.
* **streams** - an upstream receives what was sent, in order, without gap or repetition, whatever the cuts, repeats and
  reorderings; sessions, upstreams and downlinks end. Hard: an await in every handler, teardown by key.
* **runtimes and rates** - a shared process lives as long as its tunnels, and no waiter starves. Hard: a lock held over
  a start; buckets replaced under sleeping waiters.
* **state store** - an answered edit reaches the disk, the file never goes back, a start resumes from the file only.
  Hard: requests collapse into one pending save; kills, failed writes and an unreadable file.
* **volume** - an accounting period relays no more than its limit, drift is repaired, an overdue instance is stopped.
  Hard: the loop works on rows it read before several calls, requests write the same row, the Core may lose its file.
* **deployments** - the status tells what the worker has, and nothing stays in progress; Railway keeps no forgotten
  service. Hard: no lock, background pipelines, failing and lost calls.
* **worker** - ports are exclusive, traffic reaches the right Core, one Core per instance. Hard: every operation awaits
  a process, requests overlap with the relaunch after a restart, ports leak, `docker` commands time out half done.
* **links service** - database and Core agree on the policy of a link, a wiped Core gives no quota back, a deleted link
  stays deleted. Hard: two stores and no transaction, snapshots used after awaits, lost answers, a lost state file.
* **gateway** - no answer stays wrong longer than its time to live, slots and connections come back, frames arrive in
  order and in time. Hard: awaits between read and put, capacity held across two processes, one buffer with four
  flushers.
* **fleet, accounts, instances, boot** - a worker is offline after a silence only; a disabled account has no session; a
  name is used once and a cap is passed by overlapping requests only; a Console that serves has its schema and
  its administrator. Hard: several statements without a transaction, and a kill between any two of them.
* **engines** - the kill switch wins and what is active is in the pipeline; breaker, bus and limiter keep their bounds; a
  warm socket has one owner; files survive kills. Hard: toggles that cross at awaits, a shared connection, pieces of
  records that cross a window.

Each hazard of the code, at its line and with the properties that watch it, is in `PROJECT.json`.

## 2. Modules and how they correspond to the code

All Python processes are asyncio event loops: a handler is interrupted only at an `await` that suspends. An action is
therefore the code from one suspension to the next, and what a handler keeps in local variables across an await is part
of the state (`call`, `op`, `loop`, `req`, `task`, ...). Locks whose critical sections hold no await are never contended
and are not modelled; the one of the Xray pool, which is held over awaits, is. Variables marked *history* exist for
properties only.

| module | models | notes |
|---|---|---|
| `QuotaGate` | links, lifetime total, cap, gates, pumps, VMess accounting, admin edits | `GateAdd` and `GateFlush` are `QuotaGate.add`/`flush`, one disjunct per way out; `Connected` is the dial with the first write and its drain; `Frame` is a pump up to the throttle, `Write`/`DeniedAfterThrottle` what follows it. The next batch size is any between its bounds (EWMA of the rate), a flush by time may happen at any frame. `Expire` and `PatchLink` stand for the clock and the API |
| `ConnectionTracker` | entries, IP limits and the callers' order | VMess checks, awaits and registers; Trojan may return with its entry left behind. `End` takes the entry away with the handler, although an XHTTP teardown takes it a moment before a late dial ends |
| `XhttpSession` | sessions, uploads, dials, pumps, downlinks, teardown, reaper | `Sessions` are the successive generations under ONE key, so that a teardown may meet the next one. The drain of the first bytes belongs to the dial (`Dialled`): the writer is set last (270) |
| `ShadowsocksStream` | one tunnel's sealed chunks, cut anywhere by messages | sender and receiver count halves of parts, so that a cut inside a part is a state |
| `XrayRuntime` | one process per link in use, its count, and the lock with its queue of waiters | a start or a stop holds the lock; a process may die; the Core may close meanwhile |
| `SpeedLimiter` | the bucket of one link, pumps that wait at it, edits | ticks of half a second, the longest sleep of a waiter |
| `StateStore`, `DurableState` | the debounced save, kills, failures; its abstract promise | `DurableState` has a live and a durable copy: a persist copies, a loss resumes from the durable one. `StateStore` implements it with `durable <- disk` if readable and a fresh state otherwise. `Start` sets every unreadable file aside, as the code does for what a torn write leaves (`JSONDecodeError`, `OSError`) |
| `VolumeEnforcement` | the loop, the requests, the deploy, the Core's counter and cap | calls may fail; a Core may lose its state file; a reset meets the loop and other requests at every await; amounts are small units, `Margin` stands for `_REGRESSION_MARGIN_BYTES` |
| `StaleWatch` | `_stale`: misses, alert and stop of an instance whose usage cannot be read | in memory only; its owner starts, stops and edits meanwhile |
| `LinkSync` | one instance's links in the table `instance_links` and in the Core; create, update, reset, delete, list, provision, reconcile as tasks that switch at each statement and call | `db` is a *set* of rows: nothing keeps a UUID unique, and a listing may import a link that its creation records again. `doubt`, `revived`, `gone` are history |
| `WorkerDriver` | requests, relaunch task, `ProcessDriver`, ports, registry, processes, pod restart | a request keeps the process it awaits and the port it was given. `PodRestart` is the restart of the container, which ends every process in it; a worker killed alone, outside a container, leaves its Cores (418) and is not modelled |
| `DockerDriver` | the same with containers | a command may fail, or time out and still be carried out, by the time of the timeout |
| `Deployment` | requests and pipelines on one instance, *composed with* `WorkerDriver` | every call of a pipeline runs the worker's own actions (`Launch`, `Stop`, `Remove`) on `Inst`, the only instance; a call may fail before it arrives or its answer may be lost |
| `RailwayPipeline` | the pipeline on Railway with the services it creates | a call may fail or lose its answer; the Console may restart. `Poll` raises at the first deployment Railway names (section 6): the health check is reached only when none is named in any attempt |
| `WorkerFleet` | heartbeats, the sweep, the administrator, the scheduler | a heartbeat is three statements and may be late or lost |
| `EndpointCache` | resolution, cache with two times to live, invalidation | the read of the database and the put are two steps; a lifecycle operation invalidates before it writes |
| `GatewayRelays` | both hops of a WebSocket and of an HTTP proxy connection: slots, pools, pumps, ways out | capacity is taken hop by hop and held for the life of the relay |
| `WsBatcher` | the downlink buffer with its flusher, size and close flushes | a flush may be suspended at each frame |
| `Subscription` | the four reads of one subscription document and what it tells of the quota | traffic, time and edits go on between them |
| `Accounts` | sign-in by password and GitHub, session rows, OAuth states, disabling | every statement of a request is a step |
| `ConfigBackup` | creation of instances in two Consoles, export, conflicts, restore | a restore is a transaction, a creation is not. `Conflicts` knows the keys of instances; the code refuses more restores (keys of users, workers, domains and links, another secret), so that the model has every restore the code has |
| `ConsoleBoot`, `Supervisor` | boot of the database (either backend); where `main.py` keeps the key and the database, and its child | kills between any two statements; directories that come and go |
| `RateLimiter` | the windows of an address | time in half seconds, since the announced wait is cut to whole ones |
| `EngineManager` | boot, toggles across their awaits, the merged module, fallback, emergency stop | an engine object is a pair of name and number |
| `EngineGuards` | circuit breaker, bounded queue of the bus, token buckets of the reports | idle buckets are forgotten when there are too many |
| `EngineCodecs` | the record layer of Chaos, the parity groups of FEC | a seed is what the code takes from the digest of its window; a block is a set of bits and a length |
| `LearningEngines` | Genetic and Mesh over one or two SQLite connections that fail | the commit of one commits what the other left open |
| `WarmPool` | the warm connections of PreConnect and the hook that takes them | |
| `EngineState` | payloads, flush, restart, rotating copies | a kill tears a file that is not replaced atomically |
| `ResponseRewrite` | feed collector, fake pages and compressor around a response | a body is the sequence of the application's chunks |

**Composition.** `Deployment` composes a Console with a worker action by action. The other `MC*` modules put side by
side parts that share no variable (`MCCoreSafety`, `MCCoreLiveness`, `MCGateway`, `MCConsole`, `MCFleet`, `MCEngines`): what
one part gives another (a resolved target, a frame, an admission) is chosen freely there. The variable `focus` picks the part a
behaviour explores while the others rest in an initial state, so that one run checks several components at the
sum, not the product, of their sizes. `MCCoreSafety` goes further and instantiates its parts over `QuotaGate`'s
variables, whatever their names say. `MC*` modules also hold symmetry sets and the conjunctions that runs check.

A `*Proofs` module holds the theorems about one `MC*` module (or one component) and extends it. `CodecProofs` holds the
lemmas about `EngineCodecs` and `ResponseRewrite` for themselves; `EnginesProofs` takes them into the behaviours of `MCEngines`.

## 3. Runs

| run | shows | instance and why it is enough |
|---|---|---|
| `QuotaGate_pumps` | overshoot of limit and cap, bytes the counters do not show, spend after an edit, finality of a refusal; under fairness a refused tunnel closes and an idle VMess tunnel is cut | one gated and one VMess tunnel on one link, batch 2, 6 bytes: both pumps can hold a frame each while a batch is pending and an edit arrives |
| `Core_safety` | quota of two tunnels, connection list and IP limit, packet order of XHTTP, a Shadowsocks stream | two tunnels that race to one limit and one cap; a tunnel of each kind on two links and two addresses; two uploads, three packets and two upstreams (gaps, repeats, a second dial that meets a teardown, an upstream that must end with its session); four chunks in at most two messages cut anywhere |
| `XhttpSession_sessions` | which upstreams outlive their session; teardowns and downlinks end | two generations of the key, two upstreams, so that both connect; uploads one at a time, which send packet 0, repeat it, and in the second session (`Chatty`) packet 1 too, before or after its turn (uploads that overlap are `Core_safety`'s); a downlink of the first generation (`Watched`) on a queue of one, which is full when the sentinel comes |
| `Core_liveness` | the debounced save (refinement of `DurableState`), the pool of runtimes, the bandwidth cap | 3 bytes, 3 edits, 3 save tasks: a save can be asked for before, while and after the saver sleeps; three tunnels on two links with one runtime; two pumps, chunks smaller and larger than the bucket, an edit of the speed |
| `VolumeEnforcement_repair` | drift is reconciled, overdue instances stop | one request with every edit and reset, a limit of one, failing requests |
| `VolumeEnforcement_wiped` | **violation**: a repair does not hold | the same with a lost state file and a limit of three; section 6 |
| `LinkSync_races` | policy and use agree in table and Core, a deleted link stays deleted | two operations of any kind on one link, limited or not, used or not, calls that fail or lose their answer, a Core wiped at any point: the code treats links one by one, and every race met while modelling (two rows, a stale refresh, a restore from old rows) needs two operations |
| `Gateway_path` | stale answers end, frames in order and by their deadline, slots and connections come back | two endpoints with one cache entry, `TtlPos` 3 above `TtlNeg` 1; two clients and one slot; two requests over pools of two and one; five frames, batches of two |
| `Console_parts` | boots, rate limiter, rows and backups, subscription, accounts, fleet, enforcement | three sign-ins under a cap of one session; three boots, each of which may be killed; three creations under a cap of one; two nodes and two heartbeats; two configs; six minutes of outage; three set-ups of directories; a volume request, resets included, beside the loop: a limit of one and three bytes are two periods and a byte too many |
| `Fleet_parts` | exclusive ports, own traffic, one Core per instance; the same with Docker; Railway's services | two requests and the relaunch on two instances; one Docker request beside the relaunch; two jobs and two services: two operations overlap, and a second service is one too many |
| `Deployment_pipelines` | status agrees with the worker, progress ends | two overlapping jobs, two ports, two processes, a pod restart at any point |
| `Engines_parts` | kill switch, toggles, guards, codecs, learning, warm pool, state, responses | two requests, or one beside the emergency stop, on every pair of an engine and its module; two batches and three reporters with two buckets; records of two windows in pieces; groups of three blocks; two targets and a pool of one |

Deadlock is checked except where the instance really comes to rest: a run of parts ends when the part explored has used up
its requests, and a key of `XhttpSession` that is used a bounded number of times may be left with a downlink nobody
ends (its sentinel did not fit).

**Bounds.** `Max*`, `Last*`, `*End`, `Watched` and `Pids` cap counters in guards of the actions that raise them, and nowhere
else. Symmetry is used in runs without liveness only.

**Fairness.** Each fairness formula asks for what the event loop gives: a task that can go on is resumed, a sleep ends, a
cancellation is delivered.

* `QuotaGate`: `policy_watch`, the pump that was refused, and the tunnel's `asyncio.wait`.
* `StateStore`: the save task, the end of its sleep and of its write. The disk may refuse every time.
* `XhttpSession`: cancelled pumps, teardowns, and a client that reads its open downlink.
* `XrayRuntime`: whoever has the lock lets go of it: a start ends within the connect timeout, a stop within three seconds.
* `SpeedLimiter`: time passes and a sleeping pump wakes.
* `VolumeEnforcement`: the endless loop and each request under way; the loop's own calls succeed in
  `VolumeEnforcement_repair` (a loop whose calls always fail reconciles nothing).
* `MCGateway`: the steps of both WebSocket handlers and their timeouts, of the batcher's tasks, and of both HTTP handlers.
  Nothing is assumed of a Core: it may keep an answer for ever, and neither hop has a deadline for it (`gateway.py` 414 and
  `worker/main.py` 80 set no read and no pool timeout; `xhttp.py` 463-468 keeps a busy downlink from the reaper).

No client, disk, upstream or operator is assumed to do anything else.

## 4. Proofs

All constants are arbitrary up to the assumption named in the module that declares them: numbers are naturals, windows
and batch sizes are in order, model values differ, sets that are counted are finite. `CoreAssumption`,
`ConsoleAssumption` and `MCEnginesAssumption` repeat or instantiate those of the parts. A theorem about an `MC*`
module is about its parts: `focus` never changes, and a step of one part leaves the variables of the others as they are.

| module | theorem | states the property | inductive invariant, and why it is needed |
|---|---|---|---|
| `CoreProofs` | `OvershootIsBounded`, `CoreOvershootIsBounded` (and `TypeCorrect`, `UncountedIsBounded`, `LinkOvershootIsBounded`, `CapOvershootIsBounded`) | `OvershootBounded`, `QuotaHolds` | `UncountedBounded` is not inductive: a frame that was admitted and not yet written counts as well. `TunnelInv` bounds relayed-minus-counted *plus frames on their way* by what is pending in an open gate, and by a batch less one once it is shut. `LinkInv` and `CapInv` relate counter and ceiling and need `TunnelInv` for the size of a flush. The cap is claimed of Cores without VMess tunnels, since `vmess.py` never asks for it |
| | `SpendIsBounded` | `SpendBounded` | a sum over tunnels, without a recursive definition: `SpendInv` gives every handler a weight, what it relayed of the link and has not charged, and covers the spent bytes by the used ones and the weights; each step moves one weight, and `SumIsBounded` (the least counterexample) bounds their sum by their number |
| | `RefusedStaysRefused` | safety half of `TunnelsEnd` | type correctness is enough |
| | `UpstreamsDie` | safety half of `SessionsEnd` | `DieKept`: an upstream that is open while its session closes or is gone was dialled late or is not the session's writer any more; with the invariant that orders the packets, for what a dial or a teardown holds across its awaits. Stated for `MCCoreSafety`, which leaves the downlinks out: they hold no upstream |
| | `ConnectedClientsAreListed` | `TrackerHolds` | an entry has a handler that made it, and the addresses of a link, a set, grow only by an admission below the limit (`Cardinality` needs finite `Ips`) |
| | `StreamIsReadInOrder` | `StreamsHold` | the nonce the receiver stands at is the number of parts it took off its buffer, or one more after a cut between a length and its payload, when the tunnel ends |
| | `UploadsReachUpstreamInOrder` | `UpstreamOrdered` | what an upstream got is 0, 1, ... up to its session's `next`, or to where it was displaced; what a handler or a pump holds across an await is a session or an upstream that was there, and a drain under way has taken the buffer. Its half about the end of an upstream is `UpstreamsDie` |
| `StateStoreProofs` | `StateStoreTypes`, `RequestsAreKept`, `FileOnlyAdvances`, `StateStoreIsDurable` | `NoRequestForgotten`, `RefinesDurableState` | while a save holds the loop its snapshot is the memory, and memory covers the file and what was asked to be saved. The refinement maps each step to a step of `DurableState` or a stutter |
| | `RuntimesAreCounted` | safety half of `RuntimesServe` | `LineInv`: only the first in the line at the lock starts or stops a process; `PoolInv`: an entry counts the tunnels that were given its process, while one is started or stopped there is room for it, and a living process has an entry or somebody about to stop it |
| | `RatesAreKept` | safety half of `SpeedHolds` | `AsIdeal`: what a refill would make of a bucket is what one filled at every tick holds (its age stands for the ticks it missed), so that both admit the same chunks; and the buckets made so far are no more than the edits and the current one |
| `FleetProofs` | `WorkerIsSafe` (and `WorkerTypes`, `PortsExclusive`, `TrafficIsOwn`, `CoresAreSingle`) | `WorkerSafe` | `CallInv` says what a waiting request knows; `OwnPort` protects the port of a living Core that may have lost its handle; `OneCore` says that a request alone on its instance waits for the one Core there is, or starts one when there is none |
| | `DockerIsSafe` | `DockerHolds` | `Owners`: a port in use has one owner, be it a handle or a `run` or `rm` that waits |
| | `RailwayIsTidy` | `RailwayHolds` | `OneService`: what the one operation under way knows of the service of the instance at each of its stages; `Progresses`: an instance in progress has a pipeline |
| | `DeploymentIsTrue`, `DeploymentUsesWorker` | `DeploymentHolds` | `CalmInv`, while nothing overlapped, got lost or restarted: one operation is under way at most, and at each of its stages it knows which Core its instance has; `AtRest` is what one operation leaves for the next. `Progressing`: an instance in progress has a pipeline that will write the outcome. A step of the composition is a step of `WorkerDriver` or leaves it as it is (`DeploymentSteps`), so its invariant is used as it is. Both say `Instances = {Inst}`, as the module is about one instance |
| `GatewayProofs` | `StaleAnswersAreShort` | `StaleAnswersEnd` | a stale answer on its way is as old as the change that made it stale; one in the cache has used up its life by that time, but for the time of its query |
| | `FramesAreKept` | `FramesKept` | what was sent, the running batch and the buffer are 1, 2, ... without a gap; only the holder of the flush has a batch |
| | `ConnectionsComeBack` | | a hop counts exactly the connections its requests hold |
| `LinkSyncProofs` | `DeletedLinksStayDeleted` | `DeletedStaysDeleted` | `Drawn`, `Forgotten`: nobody who may still write holds a link that is gone |
| | `UseIsNotForgotten` | `UseNotForgotten` | `UseInv`: what each operation carries of a link it has to itself is no more than the Core's use, or the Core does not have the link |
| | `RowsAndCoreAgree` | `PolicyHolds` | `PolicyInv`: of every link that is not in doubt there are one policy of all its rows and one of the Core, equal unless an operation at a known stage is between them; every copy in an operation's hands is one of the two. `CalmRows`: while a reconciliation goes on undisturbed, the rows it read are the rows. A reconciliation that had been disturbed on one link only must not settle another (`calm` is kept per link) |
| `ConsoleProofs` | `EnforcementIsKept` | `EnforcementHolds` | `VolumeKept`, while the Core has its file and nothing read before a reset was stored after it: the counter is the baseline of the row plus what the period relayed; what row, loop and requests hold is neither ahead of the counter nor of a baseline later than the row's; and a cap on its way is no more than the baseline plus what was granted, because baselines only grow. That is why a cap sent late is harmless and the loop never finds a healthy counter below the cached usage |
| | `FleetIsTold` | `FleetHolds` | what was heard of a node is no later than its row by more than `BeatTime`, and what is on its way to it is counted by row, heartbeat or `since` |
| | `SessionsAreKept` | `SessionsKept` | session rows are named for their sign-in and have times of their own, a used state is gone, and the cap is kept by counting the newest |
| | `ConfigIsKept` | `ConfigHolds` | a half-made instance has a request on its way or a dead one; the bound on rows needs the requests that have asked and not inserted: rows plus those are below the cap plus the largest overlap so far |
| | `LimitsAreKept` | `LimitsHold` | what was let through lately is the right end of the window it was counted in, entry by entry, so a window with room is a moment with room; and the oldest of a window that refused is too old when the announced wait is over |
| | `PlatformIsKept` | `PlatformBoots` | at each point of a boot the schema has what the record of migrations says and what the statements so far added |
| | `SubscriptionIsTrue` | `SubscriptionHolds` | `FeedInv`: what was listed was allowed and what was not is over and stays so (`FeedListed`); when nothing could be listed, a link is due or the caps together are spent (`FeedAsked`, `FeedTold`); the links shown are among those listed (`StripsAgree`). The totals are sums over links by a recursive function; `SumGrows` compares two of them link by link |
| `EnginesProofs` | `KillSwitchWins` | `KillSwitchHolds` | no object, no child and no request that awaits a start is of an engine that is switched off |
| | `TogglesAreKept` | `TogglesHold` | the same, with what is active and in the order is in the pipeline; and what a boot starts, computed from the recorded decisions |
| | `GuardsAreKept` | `GuardsKept` | an engine was entered no more often than it has errors and batches inside; a bucket idle for long enough to be forgotten is full, so that forgetting it gives nothing away |
| | `SocketsAreAccounted` | `SocketsAccounted` | two buckets, and two places of one, never name one socket; a socket leaves the pool only to one relay or to be closed |
| | `StoresAreKept` | `StoresKept` | numbers stay below the counter, what is open is the population until Genetic degrades, and the ranking, a choice by `Cardinality`, gives every genome one place (`InOrderIs`), so that survivors and doomed divide the population; the seconds of the copies rise and a rotation leaves the right end |
| | `RecordsAreDecoded`, `GroupsAreRecovered`, `ResponsesAreKept`, `CodecsAreKept` | `CodecsHold` | `ChaosInv`: the buffer and the wire are the datagrams of the records to come, and where each field of one lies. `FecInv`: what is received is the group less what was lost; that an exclusive or over a class does not depend on the order is shown by induction on the class. `ResponseInv`: what left and what is held back are what the application sent, in one shape for each of the ways of a response. The types have bounds that are not inductive alone: a table has no more genomes than were seeded (`LearningBound`), whichever connection commits |

Every invariant that a run checks is stated by a theorem. Only model-checked, and why:

* liveness, which the prover cannot reach under fairness: `DriftIsReconciled`, `OverdueIsStopped`, `RelaysEnd`, `PoolsServe`,
  `FramesAreFlushed`, `EditsLast`, and the liveness in `TunnelsEnd`, `SessionsEnd`, `RuntimesServe` and `SpeedHolds`, whose
  safety halves are theorems (above);
* `RepairHolds`, which is false.

The theorems about sums, exclusive ors and parsing do without induction over an operator: a fold of the community modules is
unfolded one element at a time as the recursive function it is, and what must hold of every size is shown by the least set or
number for which it fails.

## 5. What the properties exclude

A property that the code does not have in full is stated with its exceptions, so that whatever else breaks it is
found. The exceptions are facts about the code:

* `GatedIpsWithinLimit` leaves out VMess links: `vmess.py` 179 asks `ip_allowed`, awaits, and registers at 200.
  `OnlyTrojanLeaks` allows the entry that `trojan.py` 146 registers before the `try` that removes it.
* The cap of an instance is claimed for Cores without VMess tunnels (section 6).
* `UpstreamsDieWithSession` allows the upstream of an upload that dialled while its session was torn down
  (`xhttp.py` 254-270, 406). `DownlinkEnds` allows a downlink whose sentinel met a full queue (198) and the first of two
  downlinks of one key (464).
* `QuotaIsNotRenewed` and `RepairOnlyAfterLoss` are claimed for a Core that keeps its state file (for one that loses it
  `RepairHolds` is false), and until a usage or a counter that was read before a reset is stored after it (`overtaken`: the loop's
  `used_cache`, 466; the one `get_state` stores; a second reset). Section 6 says what the code does then. The bound is the
  largest limit so far, not of the period: a reset whose push fails leaves the cap of an earlier limit in the Core.
* `RoutesToOwnCore` and `OneCorePerInstance` except two overlapping launches of one instance, and a `remove` that has taken the handle
  off the table before it stops the process (`driver.py` 449): such a Core does answer on its old port when another instance is
  given it, which is the one way in which traffic reaches a Core of another instance. `DockerHolds` excepts a `docker run` that timed out.
* `StatusIsTrue` is claimed while no two operations on the instance overlapped and no answer was lost
  (`deployments.py` 295 writes whatever its pipeline saw). `ProgressEnds` leaves out a Console that restarts during a pipeline.
  `RailwayHolds` names the calls that failed, overlapped or were cut by a restart (`upset`). Statements of the Console's
  database succeed in pipelines; those of the `except` that writes `failed` (`deployments.py` 136-140) could fail, too.
* `PolicyAgrees` excepts a link whose operations crossed, an edit whose answer was lost, and a disabled link that
  reconciliation restores by a POST without `active` (`links.py` 526). `UseNotForgotten` excepts two rows of one link
  (338-361). `DeletedStaysDeleted` excepts operations that had read the link before, and a DELETE that did not reach the Core (477).
* `StaleAnswersEnd` bounds staleness by the time to live *and* the time of a query that was under way.
* `PoolsServe` says of a client that leaves a streaming answer that both its connections come back; that every request ends is
  claimed when no answer is kept for ever (`CoreKeeps`), since nothing else ends the wait for a connection: without that,
  TLC refutes `GatewayRelays!NobodyWaitsForEver`. A client that leaves while its request waits in `send` is noticed only after it.
* `FramesKept` says nothing of the tail that a close during a batch loses (section 6).
* `OvercommitIsBounded` counts against a worker what its row cannot know; the cap on instances is passed by as many as creations
  overlapped (`ConfigHolds`).
* `ResponseKept` leaves out feeds over the cap, `RecordsDecode` windows that take a record for one of their own, and
  `PopulationKept` two engines that share one database file.

## 6. Disagreements with the documentation

One is a finding that a run shows:

* `VolumeEnforcement_wiped`: the repair of a wiped Core does not hold, since `volume.py` 416 computes the next cap from
  the new baseline and the full limit (`tests/test_volume_hardening.py` 259, `docs/API.md` 220-221).

Each of the following is a definition of a module that quotes the statement, and that TLC refutes when it is given as
an invariant or a property; no run lists them:

| definition | statement | what the code does |
|---|---|---|
| `ShadowsocksStream!SplitsAreRead` | `shadowsocks.py` 57 "Streaming AEAD chunk codec" | 117-123 advance the nonce for a length whose payload has not arrived, and authenticate the same length again |
| `WsBatcher!TailIsDelivered` | `engines/middleware.py` 11-12 "the concatenated byte stream is preserved" | a close during a batch (285) loses what is in the buffer |
| `GatewayRelays!OverCapIsToldSo` | "over-cap clients get 1013 try-again-later" | refused at the second hop, the client sees another code |
| `EndpointCache!StopIsShortLived` | a stopped instance is cached "on the short negative TTL like a miss" | it is cached for the long one, without the id that invalidation looks for |
| `VolumeEnforcement!UsageIsOfThePeriod` | `volume.py` 303 "everything transferred so far moves below the baseline" | a usage read before a reset is stored after it (466): the next cycle takes a difference beyond the margin for a wiped Core and repairs it, and a reset that cannot reach the Core adds it to the baseline again (319), which grants more than the limit |
| `RailwayPipeline!HealthyReportGoesOn` | `deployments.py` 197 "Wait for Railway to report the deployment healthy" | 204 uses `STATUS_MAP`, which only `railway.py` 34 defines: the first deployment Railway names is a `NameError`, and the pipeline writes `failed` |
| `RailwayPipeline!HealthCheckSeesService` | "Real end-to-end health check through Railway's public edge" | with domains by path the host asked is the Console's |
| `DockerDriver!RelaunchIsIdempotent` | "an idempotent (re)launch" | a stopped container keeps its name and `docker run` conflicts |
| `ConfigBackup!DeletedStaysAway` | a deleted instance is gone | the export has the tombstones, and the import makes them stopped instances |
| `EngineManager!NoDoubleInstantiation` | `engines/manager.py` 432-433 "no double instantiation" | a module that fell back to its children and is enabled again builds them a second time, beside those that run |
| `EngineManager!DecisionsSurvive` | "so the next boot re-applies it" | an engine enabled inside its module is not started by a boot at which the module is off; `enable_child` records TRUE for a child that failed, too |
| `EngineCodecs!BoundaryDecodes` | "a record encoded right before a switch still decodes" | not when a window takes the record for one of its own |
| `ResponseRewrite!BigFeedUntouched` | `engines/middleware.py` 387 "emit what we hold, untouched" | a feed over the cap starts a second response without a status (397) |

Others were met while modelling:

* `relay/base.py` 66-68 says that the cap is checked before anything is counted; `vmess.py` 186 counts without asking for it.
* `README.md` 23 says that a spent quota stays spent whatever is wiped; an unreadable state file starts a fresh one (`state.py`
  414-429), and only the cap of the instance is repaired, for a cycle.
* `docs/API.md` 99-103 says that reconciliation restores links with the same policies; a disabled one is restored active, and
  an edit of the Core made by hand is imported when `COALESCE` finds no row to keep (`links.py` 319-333, 526).
* `links.py` 7-8 says that every change is written to the database first; `update_link` pushes to the Core first.
* `routers/instances.py` 543-545 says that `time_limit_days` alone leaves the volume limit; 557 clears it.
* `docs/SECURITY.md` 42-43 gives 10, 60 and 300 requests a minute; `ratelimit.py` has 30, 240 and 1200, one window for
  reads and writes, and no rule for `GET /auth/login` (`docs/API.md` 15).
* `docs/API.md` 63-66: the subscription header says `total=0` although configs have caps, when the instance has only
  a time limit.
* The gateway answers 503 for deleted instances (their row and domain stay) where its documentation has 404.
* `routers/domains.py` 50-81 (`create_domain`, "Regenerate the instance's public endpoint(s)") uses `settings` and `secrets`, which the
  module does not import: the request always ends in a `NameError`.
* `fec.decode_group` raises when every block is lost; its comment says that it returns `None`.

## 7. Plan

Done: the core (quota, tracker, streams, sessions, state store), the control plane, the gateway, the engines, and the
proofs of section 4. What could follow, in this order:

1. The worker's registry, whose file a kill may tear (the hazard without a property), as a module beside `WorkerDriver`.
2. Stream-up, the second way to send in `xhttp.py` (309-361), as further actions of `XhttpSession`.

Out of the prover's reach: liveness under fairness, `ENABLED`.

## 8. Not modelled

* Byte formats and cryptography (headers of VLESS, Trojan, VMess and Shadowsocks, AEAD, TLS): a chunk is authentic and in
  its place, or it is not.
* Rates as arithmetic (the EWMA of a batch size, tokens in floating point): the next size is any in its range; tokens
  are units.
* Stream-up uploads (`xhttp.py` 309-361).
* A drain of the first bytes that fails after the dial succeeded (`vless.py` 128-130, `trojan.py` 157-159,
  `shadowsocks.py` 273-279, `xhttp.py` 266-267): the tunnel ends as if the dial had failed.
* The external Xray process beyond starting, dying and stopping; Docker and Railway beyond the outcomes of their calls.
* The SQL adapters and schemas: a statement is one atomic step that succeeds or raises.
* The panel and the front end (they only call the API), the text of links, subscriptions and logs, the codec of endpoint tokens,
  reads of Railway's logs and metadata.
* Engines that are heuristics without shared state (Reality, SNI, packet shaping and similar), and scripts.
* A worker registry torn by a kill in the middle of its write (a hazard in `PROJECT.json`), and the loop that only logs
  what the worker uses.
