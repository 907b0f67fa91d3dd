# BCUK Bot 4: models, model checking and proofs

BCUK Bot 4 is one Node process: a Twitch and Discord bot with a web panel and a MySQL
database. Nothing in it runs in parallel, but every `await` lets other work in, and the database,
Twitch and Discord are reached over a network that loses replies. The modules here model the
parts where that interleaving decides whether the program is right, translated from the code under
`src/`. TLC checks them on small instances; TLAPS proves most of
their safety properties for every value of the constants (section 4).

A step of a model is what the code does between two awaits. A call or a statement that can fail has
one step per outcome: refused, done, and done with its reply lost where that matters. Durations are
left out (a timer may fire at any later moment) unless a property is about them; then time is
counted in ticks.

## 1. The system

| Component | State it keeps | Operations | Talks to | What is hard |
|---|---|---|---|---|
| Keyed mutation queue (`shared/mutationQueue.ts`, `userMutationQueue.ts`) | tail promise of each key | `run`, `runMany`, deadlines, `size` | pricing, login lock, membership, user and key mutations, transcoding | deadlines while holding some turns, cancellation, map entries replaced by later calls |
| Redemption pipeline (`twitch/eventsub/twitchEventSubRedemption*.ts`, `db/redemptionLedger.ts`, `db/redemptionCompanionAck.ts`) | in-memory claims and timers; ledger and confirmation rows | deliver, apply effects, acknowledge, time out, refund, sweep | EventSub, reconciliation, pricing, companion app, Twitch | redelivery, racing resolvers, failures between database and Twitch, restart |
| Reward pricing (`twitch/pricing/`, `db/rewardPricing.ts`) | demand, price and last pushed cost per reward; deferred pushes | redemption, revert, decay tick, save, reset | pipeline, Twitch | deferred push against ticks, Twitch and database disagreeing, demand arithmetic |
| Reconciliation (`twitchEventSubReconciliation*.ts`) | cursor and pin per reward | poll, replay, give up | Twitch, pipeline | failed fetches and handlers, lag cap, ledger retention |
| EventSub connection (`twitchEventSubConnection.ts`, `...SubscribePass.ts`, `...Subscriptions.ts`, `...Create.ts`) | session, migration, generation, subscriptions | connect, welcome, reconnect, reload, subscribe with retries | Twitch, monitor, pipeline | reload during a migration, passes of an older session, backoff |
| Stream monitor (`twitch/monitor/`) | live states, offline timers, login locks | event, poll, announce, offline grace, restart | Discord, database, mutation queue | timed-out operations that go on, announcing twice, restart inside the grace period |
| Chat membership (`twitch/twitchChannel*.ts`) | wanted and confirmed channels, connection generation | join, part, toggle, reconcile, reconnect | Twitch chat, database | results of an earlier connection |
| Send queue (`twitch/twitchSendQueue.ts`) | 30 s window, per-channel floor | send | membership (privilege) | privilege changes while waiting, limits |
| Tokens (`twitch/twitchBotAuthProvider.ts`, `db/twitchBotAuth.ts`, `twitchUserTokens.ts`) | the bot's token row, streamers' tokens | connect, refresh, clear, roll back, rebuild | database, Twitch | a late refresh or failure overwriting a newer token |
| Chat timers (`twitch/timers/`) | fire times, reservations, floors | tick, send, release, a streamer's own writes | send queue, database | releasing a reservation that is no longer one's own |
| Lookup caches (`db/lookupCache.ts`, the `*Cache.ts` and `*Writes.ts`, `db/withInvalidation.ts`) | cache, version, load in flight, backoff | `getCache`, `invalidate`, load | every command handler, every panel write | stale loads, concurrent cold reads, lost invalidations |
| Points, raffles, advanced commands (`db/loyaltyPoints.ts`, `db/advancedCommandUsage.ts`, `commands/advanced*`, `commands/raffle/`) | balances, usage rows, refund timers, active raffles | use, charge, acknowledge, refund, sweep, start, join, draw | companion app, send queue, database | check-then-set across awaits, refunds that race, clamping |
| Command writes (`db/commandWriteGuard.ts`, `db/commandLocks.ts`, `db/*Commands.ts`) | named MySQL locks | create, rename, assign, self-service, delete | database | partial acquisition and release, deadlock retries, snapshots |
| Voice and sound (`audio/`) | connection, attempt, reconnect backoff, sound | join, move, leave, play | Discord | events of an abandoned attempt |
| Discord gateway (`discord/discordBot.ts`, `discordGatewayWatchdog.ts`) | the client, retry, watchdog, recovery | log in, retry, recover | Discord | a login given up that answers later |
| Owner alerts (`discord/ownerAlerts.ts`) | episode per component | fail, alert, re-alert, recover | Discord, health store | deliveries that outlive their episode |
| Users, guilds, registry (`web/routes/admin*.ts`, `db/guildMembers.ts`, `discord/guildRegistry.ts`) | `guild_member`, `guild`, served set | add, update, toggle, remove, guildCreate, reload | mutation queue, membership | rights that change while a form waits, overlapping reloads |
| Passkeys (`web/routes/passkeys*.ts`, `db/webauthn*.ts`, `db/passkeyEnrollmentCodes.ts`) | code, challenges, credentials | send code, confirm, register, sign in, delete | Discord DM, database | requests side by side, guarded by single statements only |
| Stream Deck keys (`web/routes/streamdeckKeys.ts`, `db/streamdeck*.ts`) | key, status per guild, last rotation | request, rotate, approve, deny, revoke, authenticate | mutation queue | a re-request that rotates and fails, revokes between its steps |
| Uploads and overlay videos (`web/chunkedUpload*.ts`, `web/routes/overlay*.ts`) | files on disk, slots, conversion queue, rows | start, piece, finish, sweep; place, convert, delete | disk, ffmpeg, database | finish against sweep, slots of killed processes |
| Event streams (`web/routes/sse*.ts`, `companionEvents.ts`, `guildStatus*.ts`) | open streams, counts | open, push, ping, disconnect, clean up | panel, overlays, companion app | cleanup twice or not at all, access ending during a look-up |
| Companion app (`web/routes/companion*.ts`) | tokens, last issue | authorise, re-issue, revoke, acknowledge | event streams, pipeline, points | revocation against open streams |
| Commands and cooldowns (`commands/`) | cooldown maps | route, answer | caches, send queue | none of their own |
| Startup, shutdown (`index.ts`), migrations, pool, health, logging, configuration | - | - | all | the sweep before traffic |

`PROJECT.json` lists every component with its status and what is left out, and every hazard at its
line with the properties that cover it.

How they interact: EventSub, or the reconciliation poll when EventSub missed something, hands a
redemption to the pipeline. The pipeline moves the reward's price inside the reward's mutation
queue, records each effect in the ledger, arms a refund timer if the reward needs the companion
app's confirmation, and pushes to overlay and app over event streams. The app's acknowledgement,
the timer, the absence of an app, or the sweep at the next startup resolves it, and Twitch is told.
Stream events and a poll drive the monitor, which keeps one announcement in Discord. Command
handlers read commands, counters and points through the lookup caches and answer through the send
queue, into channels that membership has joined; panel writes go to the database, under named locks
or in the user's mutation queue, and invalidate the caches.

## 2. Modules

| Module | Models | State in the code |
|---|---|---|
| `KeyLock` | the promise of `mutationQueue.ts`: a first-come first-served lock on key sets, with giving up | - |
| `MutationQueue` | one `createMutationQueue()` instance and the `userMutationQueue` wrappers | `tail` is the `queues` map, `previous` the promise each acquisition chained on, `arrived`/`released` the flags of `acquireKey` |
| `RedemptionOutcome` | what a viewer who redeems is promised: effects once, one decision at a time, one answer on Twitch, the price taken back once | - |
| `RedemptionPipeline` | `handleRedemption`, dedup, ledger, confirmation rows, refund timers, acknowledgements, sweep, restart | `seen`/`claimed` are `seenRedemptionIds`/`pendingRedemptionIds`, `timer` is `pendingAcks`, `ledger` and `row` are the two tables, `handler` and `proc` the calls in flight |
| `LookupCache`, `MCLookupCache` | `CacheManager` and `withInvalidation`; an instance with symmetric callers | `cache`, `version`, `inFlight` are the private fields, `refreshAllowed` and `age` compare `refreshAllowedAt` and `loadedAt` with the clock, `load` the promises, `reader` the `getCache()` calls |
| `PricingMath`, `RewardPricing`, `MCRewardPricing` | demand, decay and price as functions; the service, its scheduler and the panel's routes on one reward; the instance's curve and forms | `row` is `reward_pricing`, `queue` the reward's mutation queue, `step`, `seen`, `result` the running operation, `push` its deferred push, `window` the rate limit, `twitch` the cost Twitch shows, `sched` the scheduler |
| `EventSubSession` | one streamer's connection, its subscribe chain, `twitchEventSub.ts`'s reloads, Twitch's side | `conn` is the connection object, `chain` its `subscribeChain` and `pass` the one that runs, `zombie` a pass of a stopped connection, `top` is `topReloadChain`, `sock` and `subs` what Twitch has, `db` and `grant` what is configured and authorised |
| `RedemptionCatchup` | the reconciliation of one reward, in units of time | `cursor` is `lastSeenRedeemedAt` with its pin, `lastSeenAt` is `uidLastSeenAt`, `ledger` is `redemption_handled`, `pass` the running poll, `redeemed` what Twitch lists |
| `StreamMonitor` | one streamer in one group | `state` is the `liveStates` entry, `row` the stored message, `board` the announcements in Discord, `waiting`, `running` and `late` the login lock's operations: queued, holding it, timed out and still going on |
| `ChannelMembership` | one channel | `activeChannel`, `confirmedJoined` are the two sets, `channelQueue` and `channelOp` the channel's turns, `lateJoins` joins nobody waits for, `toggle` the panel's request, `joined` Twitch's side |
| `SendQueue` | the queue of all channels, in ticks | `sentAges` is `sentTimestamps`, `floorAge` the per-channel floor, `sends` and `sending` the queue and the chunk that has the turn |
| `ChatTimers` | the timer scheduler and the writes to timers, in ticks | `sinceFire`, `sessionFire`, `floor` are the three maps of reservations, `timerRows` and `assignedTo` the tables, `ownWrite` a streamer's transaction |
| `BotTokens` | the bot's chat token | `botRow` is `twitch_bot_chat_token`, `connects` the OAuth callbacks, `chatClient` the running auth provider, `restartChain` the restarts, `outcomes` and `rebuilds` refreshes and the rebuilds after failed ones |
| `DiscordGateway` | the one Discord client | `gateway` holds the module variables of `discordBot.ts` and the watchdog, and what has become of each client |
| `OwnerAlerts` | one component's alert episode | `tracked` is its `componentStates` entry, `dms` the deliveries under way |
| `CommandWrites`, `MCCommandWrites` | three tables of commands, named locks, transactions of concurrent requests | `tables` are the rows, `worker` the requests, each with its locks, its snapshot and its step |
| `VoiceConnection` | one guild's voice | `voice` is `GuildVoiceState`, `attempt` and `staleCalls` the `connect()` calls, `linkStatus` the library's connections, `sound` what plays |
| `Uploads` | the store of uploads in pieces | a session is its files: `uploadFiles`; `uploadTask` are the requests |
| `OverlayVideos` | a video after its upload | `activeUploads`, `pendingTranscodes`, `transcodeQueue` as in the code, `overlayFiles` the disk, `videoRows` the table |
| `AdvancedUses` | one viewer's paid uses of a companion command | `balance` the row of `loyalty_points`, `uses` each use's handler, usage row, timer and calls |
| `Raffles` | one channel's raffles | `activeRaffle`, `entrants`, `drawTimer` as in `raffleHandler.ts`, `raffleStart` the calls |
| `EventStreams` | the four kinds of streams around one streamer | `streams` the requests and responses, `totalConnections` and `poolCount` the counts, `token` and `recentIssue` the companion token, `pushes` the guild's push queue |
| `StreamdeckKeys` | one user's key in every guild | `keyVersion` is the secret of `streamdeck_api_keys`, `approval` the status rows, `recentRotation` the in-memory map, `keyRequest` the request in its turn |
| `GuildMembers` | members, levels and served guilds | `memberLevel` and `guildRows` are the tables, `mutation` the forms and `guildCreate` events, `registry` and `reloadGeneration` as in `guildRegistry.ts` |
| `Passkeys` | one user's passkeys | `enrolmentCode`, `challenges`, `userHandle` and `signCount` are the three tables, `codeRequest`, `enrolment`, `verification`, `signIn` the requests |
| `BotServices` | the eight services towards Twitch and Discord: monitor, membership, queue, timer, tokens, catch-up, gateway, alerts | `service` |
| `PanelServices` | the ten services behind the panel: writes, voice, pieces, videos, points, raffle, events, keys, guilds, passkeys | `service` |
| `MutationQueueProofs`, `RedemptionProofs`, `LookupCacheProofs`, `RewardPricingProofs`, `EventSubSessionProofs`, `BotServicesProofs`, `PanelServicesProofs`, `AccessProofs` | the proofs | - |

Operators whose comment begins "Mistake:" are wrong versions of an operator after them, which no
specification uses. Each shows, put in its place, that some property notices.

Variables called history variables in their comment are written and never read by an action. They
serve two ends: to state a property about the past, and to name the races under which the code does
*not* keep a promise, so that the property can say "except then". Section 5 lists all of them.

Composition. Where two components share state they are in one module: the monitor and its lock, the
pipeline and its timers, the companion token and the streams opened with it. Where one only relies
on what another promises, the promise is taken: `RewardPricing`, `ChannelMembership` and
`GuildMembers` take the mutation queue as `KeyLock`, which `MutationQueue` is shown to implement;
`RedemptionPipeline` takes reconciliation as "what Twitch lists and the ledger does not record is
delivered again", which is `RedemptionCatchup`'s subject; there, handling a redemption is one step.
Services that share no modelled state are summed: `BotServices` and `PanelServices` choose one at
the start and leave the others at rest, so one run says of each what its own would say. `Init` and
`Next` name each service; there are no steps of two at once, which would only multiply states.

### MutationQueue

Promise callbacks are microtasks: `TurnArrives` (the `previous.then` callback) and
`StartOperation` (`acquireAll` has awaited every turn). `Call`, `OperationSettles` and the
deadlines are macrotasks and wait until no microtask is left (`Quiescent`), as the event loop
does. `Call` reserves all keys in one step because `runMany` reserves synchronously.
`DeadlineAbandons` is `acquireAll`'s timeout; `DeadlineRejectsCaller` is a timeout only the caller
sees, with the operation still running. `order` and `made` are history variables, for the
refinement.

### RedemptionPipeline

`Deliver` is the synchronous part of `handleRedemption` up to its first await;
`ReadProgress`, `RecordDashboard`, `ApplyPricing`, `PrepareConfirmation`, `MarkHandled` and
`PushToCompanion` are its awaits in order, each with success, failure and, where a step has two
statements, failure between them. A failed `ApplyPricing` may have committed: the transaction of
`syncRewardPrice` marks `pricing_applied` together with the increment. The handler's snapshot of
the ledger is not a variable: only the holder of the claim writes a redemption's ledger row, so the
snapshot is the row.

A `proc` is one call resolving a confirmation: the timer's refund, an acknowledgement, the
refund for a missing companion, or the sweep's. It claims the row, calls Twitch, and reverts the
price, releases the row or marks it `refund_failed`. `entry` is the `pendingAcks` entry it took
out, which decides in `resolveTracked` whether a failure re-arms the timer. `Crash` empties the
process's memory; `Restart`, `Sweep`, `SweepEnds` follow the order of `index.ts`: the sweep ends
before EventSub and the panel start, so deliveries and acknowledgements need phase `up`.

Pruning of old rows, texts and logging are left out. `extendRedemptionAck` changes only when a timer
fires, which is untimed here. `PushIsDue` keeps the timer from firing between arming and push,
which takes the handler seconds and the timer three minutes; a database that stalls longer is
outside the model. Twitch starts at UNFULFILLED: a reward that skips the request queue cannot
require confirmation. Whether a call on Twitch is refused for good is nondeterministic.

### LookupCache

The rows are the number of writes committed. A writer commits (`OperationCommits`), then either
its reply arrives and `Invalidate` runs, or the reply is lost and it does not
(`OperationThrows`). A load's promise goes loading, selected, resolved or failed;
`LoadResolves`/`LoadFails` include the first reaction (`applyRefreshSuccess`/`applyRefreshError`),
`ClearInFlight` is the `finally`, a later microtask. A caller's continuation after
`awaitCachePromise` (`Resume`) and the rest of `getCache` (`Return`, `Retry`) are separate, as in
the code. Unlike in `MutationQueue`, microtasks are not given priority here: the model allows more
interleavings than the event loop, and every property holds in all of them.

### RewardPricing and EventSubSession

Demand is counted in units of 1/`Full` and time in half-lives, so that decay is a halving; the
curve of the reward is a table. `Sync` is `syncRewardPrice` statement by statement: read, skip if
priced, compute, push (accepted, rejected, reply lost, unsupported), record (committed, reply lost,
failed). `PushTimerFires` is the deferred push of a redemption, `TickTimerFires` the decay tick,
`ProbeFires` the wait for a database that is shutting down. The queue's head is the operation
running; the panel's save writes the row outside the queue, as the code does.

A pass of `EventSubSession` lists what Twitch has, deletes what is not wanted, creates what is
missing and reports; each answer may be an error, an authorisation gone or a dead session.
`ZombieSteps` go on with the pass of a connection that has been stopped. `RunReload` is `doReload`,
`StopConnection` and `SelfStop` the two ways to end. A socket's id is used again once nothing refers
to it, so the number of sockets over a history is not bounded.

### The services

`StreamMonitor`: an operation that times out moves from `running` to `late` and takes its next steps
there, with the code's `isCurrent` checks. `ChannelMembership`: a join that times out goes to
`lateJoins` with its connection and may land at any time. `SendQueue`, `ChatTimers`,
`RedemptionCatchup`: a tick advances every age; gates a timer passes or not (live, message counts)
are open choices. The catch-up keeps a set where the code keeps a list that it sorts before use; the
monitor's teardown leaves an offline check in the queue as an operation of kind `none`, which starts
and does nothing, as the check finds its entry gone; `Expired(n)` is the send queue's `pruneExpired`. `BotTokens`: `TokenIsTheLastConnected` orders attempts by number. `CommandWrites`:
a transaction is its reads and its commit, `Isolation` says what the reads see; several locks are
taken in the code's order; a deadlock's victim is run again, except a delete, which the code does not
retry. `Uploads`, `OverlayVideos`: the file system survives a restart, memory
does not. `EventStreams`: a stream's look-ups, attachment, re-checks and cleanup are steps; a client
may go, stall or break at any of them. `GuildMembers`: all of a form's checks are one step, made with
both places held; `Submit` has only the middleware's check of the level. `Passkeys`: each guarded
statement is a step, and the history `matches` remembers which request was let through by which code.

## 3. Runs

| Run | Instance | States | Shows |
|---|---|---|---|
| `mutation_queue` | 3 calls, 2 keys | 133,321 | `TypeOK`, `MutualExclusion`, `SizeIsExact`; refines `KeyLock` (`ImplementsKeyLock`); a call is not held up by calls already given up (`NotHeldHostage`) |
| `redemption_pipeline` | 1 redemption, 2 resolving calls, 2 fulfil attempts, 2 failures, 1 restart, 1 settings change | 238,604 | `TypeOK`; effects run at most once (`EffectsOnce`); one resolver past the claim (`OneResolver`); refines `RedemptionOutcome` (`ImplementsOutcome`), so that Twitch is answered as the row stands; every redemption is handled (`EventuallyHandled`) and every pending one resolved (`PendingIsResolved`) |
| `redemption_late_ack` | same, 1 failure, no restart | violated | finding 1 |
| `redemption_stranded` | same, 1 failure, no restart | violated | finding 2 |
| `lookup_cache` | 2 callers (symmetric), 2 loads, 2 writes, 2 failures | 933,409 | `TypeOK`; read your writes (`ReadIsFresh`); one load per version (`SingleFlight`); installed rows never go back (`NeverGoesBack`); `getCache` rejects only after two invalidations (`RejectsAfterTwoInvalidations`) |
| `lookup_cache_live` | 2 callers, 2 loads, 1 write, 1 failure | 43,847 | every call settles (`CallsSettle`); the cache catches up with the table (`EventuallyFresh`) |
| `reward_pricing` | 2 redemptions, one refunded, 2 queued operations, 2 events | 503,526 | `TypeOK`; a redemption raises the demand once (`PricedOnce`); nothing raises the price on Twitch before a redemption's deferred push (`NoEarlyRaise`); the scheduler never dies (`SchedulerAlive`); the price ends up on Twitch (`EventuallyPriced`) |
| `eventsub_session` | 2 subscription types, 5 sockets at once, 3 events | 592,116 | `TypeOK`; one socket or one reconnect (`OneLink`); a connection stops itself only for cause (`SelfStopIsJustified`); the streamer ends up subscribed to what is configured (`EventuallySubscribed`) |
| `eventsub_reload` | same | violated | finding 3 |
| `bot_services` | see below | 613,523 | `TypeOK`; announcements and missed redemptions are not lost (`NothingIsLost`); limits, floors and spacing hold at every message (`ChatKeepsItsDistance`); one Discord client, and the owner is not left with a stale "down" (`OwnerHearsTheTruth`); `TokenIsTheLastConnected`; each service comes to agree with what it follows (`ServicesSettle`) |
| `panel_services` | see below | 511,706 | `TypeOK`; no two commands answer one message (`CommandsStayApart`); `VoiceHoldsTogether`; uploads whole, videos with their file, slots counted (`StoredFilesHold`); points come back once, raffles are fair (`PointsHold`); streams, keys, forms and passkeys end with what admitted them (`AccessEndsWhenRevoked`); what is under way ends (`ServicesSettle`) |
| `command_conflict` | `CommandWrites`, assignments against additions | violated | finding 4 |

A property of the two sums is the conjunction of what its services promise, each stated and
explained in the service's module; the wrong versions beside the operators ("Mistake:") show for
each conjunct that it can fail.

Bounds. Three calls and two keys give a call that waits on two others through different keys, one
of them given up: the shortest history in which a wrong `release` is visible. One redemption
suffices for TLC because redemptions share only the sweep's loop and the settings; the proofs are
for any number. Two failures allow a failure during the recovery from a failure, one restart a
restart at every point, one settings change a change at every point. The code's three fulfil
attempts are two: first, last. Two resolvers are the shortest race; a third waits for a free
`proc`. Two loads of the cache are one orphan and one current; two failures and two writes are what
a rejection takes.

Every other module counts what goes wrong and what is decided outside (failed calls, lost replies,
timeouts, disconnections, restarts, edits of the configuration) in one variable, bounded by a
constant named `Max...Upsets` or `MaxEvents`: with a bound of two or more, a second one may fall at
every point of the recovery from the first. What happens in the ordinary course (messages, ticks,
polls, requests) is not counted, but comes from small sets:

| Service | Instance |
|---|---|
| pricing | a demand of 0 to 2 units, time in half-lives, a redemption that is refunded and one that is not, two forms of the panel |
| EventSub | two types, so that one may exist and the other not; five sockets hold the live one, a migration's and those Twitch has still to tidy up; two attempts are first and last |
| monitor | two games, so that a stream may change without ending; four messages at once; two operations waiting behind one that holds the lock and one that is late; three upsets |
| membership | two waiting operations, the shortest queue with an order; four upsets: a toggle, a disconnection, a late join and a failure |
| send queue | a window of 3 ticks with limits 2 and 3, two channels, messages of up to two chunks, two waiting; the recheck limit 2 is reached |
| timers | one shared by two channels, one gated in one channel; spacing 2; two upsets |
| tokens | three attempts, the first already made: two that overlap on a row that has an owner |
| catch-up | two redemptions, six units of time, retention 2 and 4, lag cap 4, so that the cap and the pruning are reached; two upsets |
| gateway, alerts | three clients: the current one, its predecessor, a late one; four and three upsets |
| writes | two requests, each of any operation, three commands, two counters, three triggers, `REPEATABLE READ`; each request tried once (a retry starts from nothing) |
| voice | three connections, six upsets |
| pieces, videos | two uploads of two bytes, one upload allowed at a time, so that the limit is raced; two videos, one slot, two waiting conversions |
| points, raffle | two uses of one viewer with a balance of at most 2 and one-point bets, a rising price, one use per stream; two starts, two viewers, a prize that does not divide evenly |
| events | three streams of any kind, two connections in all, one in the pool, two per channel; two tokens, two statuses, one upset |
| keys | two guilds, four secrets, one upset |
| guilds | a bot owner, an admin and a manager, two servers, two forms or events, one upset |
| passkeys | two of each request, one attempt per code and one passkey per user, so that both limits are raced |

Deadlock is checked where the system cannot stop: in the cache runs and in `reward_pricing`.
Everywhere else all calls may have settled, all redemptions been answered, all requests made.

Fairness. The event loop runs queued microtasks and due timers, so those steps are weakly fair.
Awaited calls to the database, Twitch and Discord return, so the steps that follow them are weakly
fair; failures are bounded by the instance, which is "not for ever failing". In the queue nothing
says that an operation settles, and `NotHeldHostage` does not need it. `TimerFires` of the pipeline
is strongly fair only because `Procs` is bounded and a timer may find no free one; the code has no
such limit. `Replay` is the reconciliation poll, every minute, for what Twitch still lists and the
ledger does not record. `Startup` and the pricing scheduler's `Restart`: systemd restarts the
process. Nobody is obliged to read the cache: `EventuallyFresh` assumes reads in its premise.
Pricing adds the scheduler's timers and probe; EventSub the reconnect, watchdog and retry timers and
Twitch's own tidying up of sockets nobody uses. In `BotServices` whatever waits for the login lock,
a channel's turn or the restart chain gets it, because each holder settles or times out; login and
watchdog timers fire and Discord comes back. In `PanelServices` the voice library settles, ffmpeg
exits or is given up after its grace, each use's calls return, and a closed or unread socket is
noticed by its close event or by a ping. No fairness is assumed of people, of Twitch's or Discord's
events, or of failures.

## 4. Proofs

TLAPS proves, for any sets of calls, keys, redemptions, callers, loads, operations, attempts, messages,
games, channels, timers, tokens, requests, commands, words, users, connections, uploads, videos, uses,
raffles, guilds, people, forms, passkeys and streams, and any bounds:

| Module | Theorem | From |
|---|---|---|
| `MutationQueueProofs` | `TypeCorrect`, `MutualExclusionHolds`, `SizeIsExactHolds`, `QueueImplementsKeyLock` | `NoneAssumption` |
| `RedemptionProofs` | `TypeCorrect`, `OneResolverHolds`, `TwitchFollowsRowHolds`, `EffectsOnceHolds`, `PipelineImplementsOutcome` | `NoneAssumption`, `BoundsAssumption` |
| `LookupCacheProofs` | `TypeCorrect`, `ReadIsFreshHolds`, `SingleFlightHolds`, `ColdIsNeverBackedOffHolds`, `RejectsAfterTwoInvalidationsHolds`, `NeverGoesBackHolds` | `NoneAssumption` |
| `RewardPricingProofs` | `TypeCorrect`, `RedemptionsPricedOnce`, `SchedulerStaysAlive`, `NoDecayRaisesEarly` | `FullAssumption`, `CurveAssumption`, `IncrementAssumption`, `ConfigAssumption`, `EventsAssumption`, `PowersAssumption` |
| `EventSubSessionProofs` | `TypeCorrect`, `LinksAreOne`, `SelfStopsAreJustified` | `SocketsAssumption`, `BoundsAssumption`, `ReloadsAssumption`, `NoneAssumption` |
| `BotServicesProofs` | `TokenIsKept`, `OwnerIsToldTheTruth`, `NothingIsEverLost`, `ChatIsKeptAtADistance`, `ServicesAreTyped` | `MonitorAssumption`, `MembershipAssumption`, `SendAssumption`, `TimerAssumption`, `TokensAssumption`, `CatchupAssumption`, `GatewayAssumption` |
| `PanelServicesProofs` | `VoiceHolds`, `PointsAreKept`, `FilesAreKept`, `CommandsAreKeptApart` | `WritesAssumption`, `VoiceAssumption`, `UploadsAssumption`, `VideosAssumption`, `PointsAssumption`, `RaffleAssumption` |
| `AccessProofs` | `KeysStayRevokedHolds`, `RotationIsUsableHolds`, `WritesAreAllowedHolds`, `PlacesAreExclusive`, `RegistryFollowsHolds`, `AccessEnds`, `PanelIsTyped` | `GuildsAssumption`, `PasskeysAssumption`, `KeysAssumption`, `StreamsAssumption`, and those of `PanelServicesProofs` for the last |

Every assumption is that a constant has its type (a set of numbers, a bound, a price table) or that a
marker such as `None` is no member of a set, but for `PowersAssumption`, that the powers of two the decay
divides by are positive whole numbers: true of every number, and stated because the provers know
nothing of `^`. TLC evaluates each of them in the runs.

The arguments.

- *Queue.* Mutual exclusion says nothing about chains, so it is not inductive. The invariant adds
  that a call's predecessor on a key is an earlier call, that every unreleased acquisition of a key
  is reached from the key's tail along `previous`, and that a turn arrives only when everything
  before it on that key is released. Two running calls on one key would then each be before the other. The
  refinement maps `pc`, `keys` and `order` to themselves; the invariant gives `Grant` its guard.
- *Pipeline.* `ResolverInv`: a call past the claim has its redemption, and the row has the status
  it claimed, so a second claim, which needs a pending row, is impossible. `TwitchFollowsRow`
  follows at the Twitch call; no run checks it by itself, since `ImplementsOutcome` contains it.
  `DeliveryInv` orders the handler's program counter, the ledger and the counts: before an effect's
  step, its count is 0 unless the ledger has it, and `handled` blocks re-entry. `RevertInv` bounds the reversals through the claim: a final status is never
  claimed again. The refinement maps the tables and counts to themselves, `handled` to the ledger's
  mark and `deciding` to the redemptions with a call past its claim: `ResolverInv` says there is one such
  call, so its end ends the decision, and `RevertInv` that a refund which is withdrawn has not been reverted.
- *Cache.* `LoadInv`: loads of an older version are inert, and the one unfinished load of the
  current version is the one in flight and began after the last invalidation. `CacheInv`: the cache
  lies between the last invalidation and the table, and behind whatever the current load read.
  `CallerInv`: a call waits for a load no older than itself, and each failed wait costs an
  invalidation. TLC checked these invariants before the proofs were written.
  `ColdIsNeverBackedOff`, that a cache without rows never waits out a backoff, is proved and has no
  run of its own.
- *Pricing.* `PricedOnce` counts the history of increments. `QueueInv` gives the step under way to
  the queue's head; `PricedInv`: an increment that was recorded is in the ledger, and a redemption's
  operation past its check is not, since nothing else in the queue runs meanwhile. `DeferralInv` says
  the same of a decay: it found no push pending, and none can come. `SchedulerInv` is who will poll
  next in each phase. The demand's bounds go through decay, which divides by a power of two.
- *EventSub.* `ChainInv`: only the pass that runs may have skipped the refresh of its token. `TokenInv`:
  a pass whose data a reload replaced while it refreshed has that reload behind it. `PassInv`: with
  a valid token and authorisation, each wanted type is still to do, subscribed, or failed for the
  moment; so a pass that ends with nothing was entitled to nothing. `OneLink` needs besides only
  that a stopped connection leaves no chain.
- *Tokens.* Whoever holds the row's `connection_id` holds its token (`RowIsFollowed`), and an attempt
  that holds it is the last one started (`AttemptsInv`). A late refresh or rollback passes the
  statement's comparison only if its token, or its predecessor's, is the one to write.
- *Gateway and alerts.* `GatewayInv`: every living client is the one logging in or the one that is
  ready, never both, and without either a retry is due. `EpisodesInv`: a "down" on its way is of no
  later episode, and of the current one unless overtaken; `HeardInv`: a "down" the owner heard last is
  remembered, put right by a message on its way, or excused.
- *Monitor.* `NothingOrphaned` follows every message on the board: it is held by the state, by an operation
  in the queue or by what the restart has loaded; or it is what the row says; or it is the duty of an operation
  that runs or is late (`Duty`: what it has posted and not recorded, or taken out of the row and not deleted).
  The row in turn never names a message nobody answers for (`RowIsKept`, `RowSpokenFor`), and whoever clears
  one has first removed the message (`Removed`). Two operations may be at this at once, the one that timed out
  and its successor, so each duty is stated against the other operation's next write.
- *Catch-up.* `LedgerInv` says what has been handled; `CursorInv`: whatever is `Open`, made and neither
  handled, warned of nor excused, is not behind the cursor, but for what the pass holds (`PassInv`): a page
  that has been read lists everything open up to its cutoff, and the replay takes it oldest first, so the
  cursor stops at the first that fails. `SeededInv` is the first pass, which has no cursor, and the pin that
  every failure since the last good pass has left, so that what the lag cap then moves the cursor past is
  warned of and not excused; `MissedInv`
  ties a streamer's absence to the polls that missed them, which is when a cursor may be dropped.
- *Membership.* Its type invariant is inductive as it stands.
- *Send queue and timers.* `SendInv`: the window lists its sends oldest first, and what the head of the
  queue has waited for still holds when it sends (`HasWaited`), because only the head sends and time only
  ages. `TimerInv`: a reservation stands for the post being made or is given back (`OwnInv`, `SessionInv`),
  so between two posts of one timer lies the spacing (`SpacingInv`); `TickInv` ends a tick's picks with it.
- *Voice.* The attempt that waits holds the pending connection, the guild holds none meanwhile, and a
  drop is waited for only on the connection that is watched.
- *Points and raffles.* `UseIsSettled` relates what came back to the usage row and to the handler's
  place; whoever answers finds the row as the one statement left it. `RaffleOrder`: the open raffle is
  past its start and undrawn, and only the open one is scheduled, so a draw is its first.
- *Uploads.* `PiecesInv`: of two requests for one upload the later waits (`InTurn`); a file is a prefix of
  the declared bytes, the whole of them once it is renamed (`FilesInv`); what a request has checked still holds
  when it acts (`ChecksStillHold`), which is what the turns are for; and a start past its checks keeps the room
  it found, because starts take turns too (`RoomIsKept`). A rollback therefore cuts off what the failed
  piece had left (`RollbackBytesStay`), and what was confirmed before it stays until the session is ended.
- *Overlay videos.* `VideosInv`: each upload's place in its handler decides which files and whether a row are
  there (`VideoInPlace`); the conversion that runs is the head of the queue; the counters are the sizes of the
  sets they stand for, which FiniteSetTheorems carries through each step.
- *Command writes.* `CommandsInv`: a request holds and still needs its locks in one order, and has all that its
  kind of write calls for (`WorkerFits`); the locks of two requests are disjoint; and what its checks found
  holds until the commit (`Claim`). The last is the point of the locks: a commit of another request
  changes nothing on the words and rows whose lock this one holds (`Quiet`, `Recedes`: elsewhere words may
  only go away). The one exception is an assignment that reads rows of the past, as `CommandsStayApart` says. A
  circle of waiting requests is impossible because whoever waits for the greatest of the locks that are waited
  for waits for a request that waits for none.
- *Stream Deck keys.* `RevokedInv`: a guild that is pending or approved has a later secret than it
  has revoked, and none has revoked a secret of the future. `RequestInv` carries this over the
  awaits of a request: before it asks, it has rotated past what the guild revoked.
- *Users and guilds.* Two forms past their checks share no person (`Exclusive`). A check reads only
  the ranks of its form's actor and target, and only guilds where the target is a member
  (`SameRanks`), so another form's write and a new guild's row leave it true; nothing of this holds without
  `Exclusive`, which is why it is proved beside `WritesAreAllowed`. For the registry, `GenerationInv`:
  reloads are numbered without repetition; and `RegistryInv`: the newest one under way has yet to
  read or has read the table as it is, and without one the registry is the table.
- *Passkeys.* `SentInv`: a code that is sent or about to be dropped is one request's alone, so a drop
  never takes a later one. `AttemptsPay`: the guesses made at a code and those paid for and not made
  yet are no more than the attempts its row has counted; an attempt is paid before it is compared,
  so enrolments that overlap cannot guess past the limit. `ChallengeInv`: whoever registers a passkey
  has taken its challenge, and nobody else has. That a counter only rises, and a delivered code
  stays, is proved of each step from these.
- *Event streams.* `ConnectionsInv`: `Becomes` adds what came and takes off what went, so each count
  stays the size of its set. `CredentialInv`: an open stream's credential is good, or whoever ended it
  has yet to disconnect, or its end was committed and not heard of. `PagesInv`: a page that reads
  also listens and was told what is so; one that listens without being registered was dropped by a ping.
  `StatusInv`: no dashboard knows more than the snapshot being read, and one is read at a time, so
  a push only goes forward.
- *Types of the panel.* The invariants above leave some numbers without a bound, which no proof of theirs
  needs. `BoundsHold` adds them beside the invariants (versions no later than the secrets and tokens there
  may be, attempts within the limit because the UPDATE that counts one asks for less, no more pushes waiting
  than the status has changed); with the typed part of every service's invariant it gives `TypeOK`.

`BotServicesProofs` and `PanelServicesProofs` are about the compositions' `Spec`, as the runs are:
one invariant has a part per service, and a step of one service leaves the parts of the others as
they are. `AccessProofs` ends the same way, with the four services behind `AccessEndsWhenRevoked`; before
that it states what it proves of two of them by themselves: Stream Deck keys from `Keys!KeysSpec`, and the
guilds' steps from any table of members (`MembersBehaviour`), where the run starts from one.

Every invariant and every action property a passing run checks is stated by one of these theorems. Only
model-checked are the liveness properties (`NotHeldHostage`, `EventuallyHandled`, `PendingIsResolved`,
`CallsSettle`, `EventuallyFresh`, `EventuallyPriced`, `EventuallySubscribed` and the two `ServicesSettle`):
they rest on fairness and so on `ENABLED`, which TLAPS does not reason about.

TLC and the proofs use the same definitions; no configuration replaces one.

## 5. Findings

1. `twitchEventSubRedemptionAcks.ts:278`, run `redemption_late_ack`. The refund timer fires; before
   its refund claims the row, a failing acknowledgement does; the refund finds the row taken and
   ends; the acknowledgement's Twitch call fails for a moment and releases the row. The
   acknowledgement took no timer out, so it arms none: the row stays pending until the next
   restart. Lines 329-330 promise that the timeout is re-armed. `PendingIsResolved` is checked
   without late acknowledgements for this reason.
2. `redemptionCompanionAck.ts:116`, run `redemption_stranded`. The claim's UPDATE commits and
   its SELECT fails (or releasing the row, or marking it `refund_failed`, fails): the row says
   `refunded`, nothing claims it again, and Twitch still holds the points. Lines 232-234 of
   `twitchEventSubRedemptionAcks.ts` say a transient error never strands the points.
3. `twitchEventSubConnection.ts:160`, run `eventsub_reload`. `reload()` stores the new data and
   queues `doReload` behind the running pass. That pass, working from the data before, finds nothing
   to subscribe to and stops the connection; the queued reload finds it stopped and returns. The
   streamer stays disconnected until another reload, although `twitchEventSub.ts:42-43` says that
   connections are re-synced with the current configuration. `EventuallySubscribed` excepts it.
4. `commandAssignments.ts:157`, run `command_conflict`. The trigger is read with a plain SELECT
   before the trigger's named lock is awaited; under `REPEATABLE READ`, which nothing changes, that
   SELECT fixes the snapshot, and the conflict check made with the lock held does not see what the
   lock's last holder committed. Two commands answer one trigger in one channel, although line 183
   promises a `CommandConflictError`. The sum's `CommandsStayApart` names this history (`clashed`).

Met while modelling. Each is a history the models contain and the properties except by name; none
contradicts something the repository states firmly enough to be checked as its promise, or a run
of its own would say no more than these sentences.

*Redemptions.* A refund whose reply was lost is retried, refused, and recorded `refund_failed`
although Twitch refunded it. Pricing switched on between a redemption and its refund takes off an
increment that was never added. Confirmation switched off between two attempts of the handler pushes
a redemption whose row is still pending, with no timer armed.

*Caches.* A write whose reply is lost leaves its cache stale until the TTL.

*Pricing.* A refund while another redemption's push is deferred raises the price at once, unlike
`rewardPricingService.ts:114-115` says; `NoEarlyRaise` is about ticks, resyncs and deferred pushes.

*Reconciliation.* A redemption fulfilled between a pass's two requests can be overtaken by the
cursor; a pass longer than the hour's window floors past it silently; a failed first poll leaves no
cursor. The cursor is lost at a restart, by design. Only these are excused: when a request or a handler
has failed since, a cursor that is moved on must have given its warning.

*EventSub.* After a failed listing a 409 is taken as "already subscribed", also when the
subscription is a dead session's. A token that fails to load at a reload can stop a healthy
connection. A stale pass can delete the new connection's subscription. Retries end after the
attempt limit.

*Monitor.* The immediate check is never superseded (`twitchMonitor.ts`, about line 97), so one that
times out may post beside the next operation. The startup pass does not look whether an immediate
check has posted (`twitchMonitorStartup.ts`, about 170-175), and its edit's write is not guarded by
`isCurrent`. A failed `getStreams` or delete at startup abandons the old message; a timed-out post
whose write is skipped is lost at a restart; a superseded offline check that has deleted the message
leaves the stream without one; one that never settles keeps `offlineTimer` set.

*Membership.* The rollback of a failed toggle can leave the flag and the wish apart
(`adminUserMutations.ts`, about 251), and so can a start that reads the table before a disabling and
adds the channel after it.

*Tokens.* In `saveBotChatTokenIfLatestAttempt` the SELECT after the upsert may fail: the owner is
told that the token was not saved, and it was. A rollback restores the token read before the save. A
clearing during a failed restart makes the rollback decline. `twitchUserTokens.ts:74` may clear the
token a streamer has just replaced.

*Timers.* A timer that is always due can starve another (`timerCommandCooldowns.ts:53-55`). A failed
repeat deletes the floor its predecessor's successful post had set.

*Gateway and alerts.* A late `shardError` or `shardDisconnect` of a replaced client marks the
gateway down or replaces the current client. A recovery while the "down" message is being delivered
(`ownerAlerts.ts:225`), a "recovered" that fails, or a component dropped after its "down" leaves the
owner with a stale "down"; a late "recovered" may overtake the next "down" until the re-alert.

*Commands.* Enabling a user's bot is not checked against conflicts. An addition whose commit's reply
is lost leaves a command without assignments.

*Voice.* After `forgetGuild` with an attempt waiting, a new join is given the same library
connection, and the orphan destroys it (`audioPlayer.ts:369`). A recovering connection stuck in
Signalling is never given up. A permanently wrong channel is not retried.

*Files.* A piece being written when its session expires revives the session beside a new one. A
client that leaves frees its slot while its conversion goes on (`overlayAdminMutations.ts:30-33`). A
crash between placing a video and its INSERT leaves a file without a row; a commit whose reply is
lost leaves a row without a file.

*Points.* Two uses at once both pass the per-stream cap (`DATABASE-SCHEMA.md:533` against
`advancedCommandHandler.ts:113-116`) and the cooldown. An INSERT that committed and was reported
failed is credited at once and again by the next sweep. A stop between charge and row, a lost reply
of the charge or a failed compensation loses the points. A refund at `MAX_BALANCE` is clipped.

*Event streams and the companion app.* `startKeepalive` calls the cleanup it was given, not the one
chained later: a ping that fails without a close event leaks the status subscription
(`sseChannel.ts`, about 330). The OAuth exchange and the app's own logout are not in the token's
mutation queue, so a re-issue may show a plaintext already replaced. A revocation whose reply is
lost disconnects nobody. The late disconnect of one issue may close the next token's streams.

*Stream Deck keys.* A revoke between a re-request's rotation and its write is undone, without
effect: the new secret was never approved. A rotation committed and reported failed leaves a
remembered plaintext that no longer works.

*Users and guilds.* `POST /users/update` (`admin.ts:222`) inserts a membership and does not reload
the registry: an update queued behind the removal of a guild's last member gives the guild a member
the bot does not serve until another reload, unlike `guildRegistry.ts:28-29` asks. So do a lost reply,
a provisioning that times out, and a failed newest reload. Checks compare ranks only: an actor
demoted below Manager while waiting may still set a level below their own. Two `guildCreate` events of a new
server may both grant.

*Passkeys.* Two registrations of a user without passkeys that both list before either inserts choose
different handles, unlike `passkeysShared.ts:22-24` says. An attempt paid for one code may be spent
on comparing its replacement.

## 6. Not modelled

The components marked not modelled in `PROJECT.json`: command routing and cooldowns, each handler
one turn between a message and its answer; migrations, run once and alone before everything else;
pool, health, logging, configuration, deployment scripts.

Of the modelled components: a database call that never returns; contents of messages, caches and
files; several streamers, rewards, guilds, viewers or users at once where they share nothing (every
module's header says what one instance is). In particular:

- pricing: the simulation page and the price history; EventSub: duplicate and stale messages,
  dropped before the handlers; catch-up: more than one redemption per unit of time.
- monitor: MultiTwitch links and title edits, `shutdownTwitchMonitor`, which nobody calls;
  membership: renames; timers: changes of an interval, posts the send queue holds back.
- tokens: re-encryption at a change of key; gateway: shutdown and the dispatch of messages. An
  answer is assumed to arrive before the next timer of its kind (`AnswerIsDue`).
- writes: the uniqueness of advanced commands per streamer, a lock's release as several steps.
- files: progress display; reward videos, alert assets and sound uploads, which take the same steps
  for one file; points: Stream Deck uses, progress pings, the second per-user count.
- streams: price, health, event-log and alert streams, which share the lifecycle; a failed handshake.
- users: changes of `is_owner`, people without a `user` row; the edits of global fields are one step,
  `ChannelMembership` has their own. Passkeys: authenticators without counters, sessions, Discord's
  OAuth login, signature verification, which are the libraries'.

## 7. Plan

Done in the order the system needs: the queue and the pipeline, the caches, pricing, EventSub, the bot's
services, the panel's, then the proofs of what their runs check. What is left, in the order of its worth:

1. `Uploads` and `OverlayVideos` composed: a video that arrives in pieces and goes on to its conversion;
2. command routing and cooldowns, should handlers come to share state between their turns.
