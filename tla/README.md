# NovaStreams Panel: a verification project

TLA+ specifications of the parts of this panel where order matters, their model
checking with TLC and their proofs with TLAPS. The panel is a Node.js server that
keeps one FFmpeg process per live channel, starts channels for viewers on demand,
fans MPEG-TS out to them, recovers what crashes, sells lines, steers agents on other
machines and keeps everything in a MySQL database. Its hard part is the order in which
handlers, timers, promises, queries and process events run: every handler is atomic up
to its next `await`, and everything else interleaves.

Source locations below are relative to `src/`. The table from definitions to lines is
"map" in `PROJECT.json`; so is the list of hazards, each at its line with the
properties that watch it.

## 1. Inventory

| Part | Where | State | Module |
|---|---|---|---|
| Live engine | `server.js` 2437-3010 | maps `channels`, `processes`, `shadowProcesses`, `runControllers`, one closure per `startChannel` | `ChannelRuntime` |
| On-demand start | `lib/on-demand-live.js` | `pendingStarts` | `OnDemandLive`, `EngineSlot` |
| Stream manager | `services/streamManager.js` | retries and cooldowns, the engine's maps | `StreamManager` |
| MPEG-TS fan-out | `server.js` 337-650, `lib/ts-prebuffer.js` | broadcasts: consumers, idle timer | `TsFanout` |
| Buffered HLS | `lib/hls-delay-playlist.js`, `server.js` 380-430 | FFmpeg's sliding playlist | `HlsDelay` |
| Channel administration | `server.js`, `routes/drm.js`, `routes/channels.js` | channel objects, `transcode_profiles` | `ChannelOptions`, `FfmpegCommand` |
| Stability monitor | `lib/stability-monitor.js`, `server.js` | scores, streaks, settings put aside | `Stability` |
| Streaming settings | `lib/streaming-settings.js`, `public/js` | rows and their cache | `StreamingSettings` |
| Remote commands | `routes/agent.js`, `agent/index.js`, `lib/db.js` | `server_commands` | `CommandQueue` |
| Server registry | `services/serverService.js` | `streaming_servers` | `ServerRegistry` |
| Server selection | `services/serverService.js`, `routes/stream.js` | none of its own | `ServerSelection` |
| Provisioning | `services/provisionService.js` | jobs, server row, agent | `Provisioning` |
| Lines, connections | `services/lineService.js`, `routes/stream.js`, `lib/crons.js`, line pages | Redis set and keys; rows of `lines` | `LineConnections`, `LineLifecycle` |
| Reseller credits | `routes/reseller.js`, `routes/admin.js` | balance and log | `ResellerCredits` |
| Imports | `services/importService.js` | jobs in memory, rows, bouquets | `Imports` |
| Titles, bouquets | `routes/admin.js`, `services/bouquetService.js`, `services/tmdbService.js` | rows, lists of ids | `Catalog`, `TitleMetadata` |
| Playlists, player API | `services/playlistService.js`, `services/xtreamService.js`, `routes/stream.js` | none of its own | `Listing` |
| Backups | `services/backupService.js` | dump files and their rows | `Backups` |
| Users of the panel | `server.js`, `routes/portal.js`, `services/sessionService.js`, `routes/playback.js` | cookie sessions, access codes, play tokens | `PanelAccess`, `PlaySessions` |
| Web interface | `public/js` | forms, modals | `PanelForms` and the line and settings pages in other modules |
| Boot | `lib/db.js` `seedDefaults`, `scripts/` | schema, seeds | `SchemaBoot` |
| Health, repair, placements, access control, notifications, reports | see `PROJECT.json` | - | not modelled, section 5 |

What makes each correct, and what is hard about it:

* Engine: a stop is final for the run it stops; no FFmpeg is forgotten; a map entry
  names a process of its channel; "starting" always ends; promises settle; limits on
  processes and retries hold. Hard: late events of replaced processes, timers that
  outlive what armed them, restarts that sleep, awaits of up to 12 s.
* Fan-out: a viewer is fed while its channel runs, a channel nobody watches is
  stopped. Hard: two awaits between a request's arrival and its close listener.
* Stream manager: a second owner of the same maps, with its own start.
* Rows (servers, lines, credits, bouquets, backups, jobs, forms): read in one
  statement, written in another, with another actor's statements in between.
* Agents: requests and answers are lost, late or repeated; the agent restarts.
* Boots: every statement may be the last one before a crash, and the next boot, or a
  second one beside it, starts at the first statement again.

## 2. Modules

Definitions commented "Faulty variant" precede the definition they vary; they are bugs
the properties must notice and are used in no specification. The `MC...` modules are
instances for TLC. Most of them join components that share nothing in the model: a
behaviour is one of the components, chosen at its start (variable `part`), while the
others rest in an initial state. Modules that build on others:
`OnDemandLive` and `StreamManager` on `ChannelRuntime`, `ServerSelection` on
`ServerRegistry`, `ChannelOptions` on `FfmpegCommand`.

### ChannelRuntime

One JavaScript turn is one action. `channels`, `processes`, `shadowProcesses` and
`runControllers` are the maps of `lib/state.js`. A *run* is the closure of one
`startChannel` call: its `controller.cancelled`, `settled`, its promise
(`outcome`), `reconnectDone`, `movieSourceFailCount` and its two timers. `settled`
and `outcome` differ: when the promise executor throws, the promise rejects and
`settled` stays false. A *proc* is a child object and the operating-system process
behind it: alive, signalled, exited with its close event to come, gone. Kinds:

* `engine`: launched by `spawnOnce`, all handlers attached;
* `bare`: the same for an HLS output. There `stdio[1]` is `ignore`, `ffmpeg.stdout`
  is null and `ffmpeg.stdout.on` throws after `processes.set`; the start rejects,
  the process stays, no handler is attached, and the readiness interval armed
  before the spawn later reports the channel running;
* `shadow`: the second process of a seamless switch;
* `manager`: launched by the stream manager.

`StartChannel`, `SpawnOnce`, `StopChannel` and the helpers are operators that take
the maps as their caller left them, because restarts and switches stop and start
within one turn. `delayed` counts stop-sleep-start restarts in their sleep,
`detecting` and `armed` the source inspections and the restarts they arm.
Identities of runs and processes are reused when `RunOver` or `FreeProc` says that
nothing can reach the old one any more.
### OnDemandLive and EngineSlot

`caller` says where each request stands inside `ensureChannelStarted`: joined to a
pending start, owner of it, polling, answered. The continuation of an `await` on a
settled promise is a microtask, so `Continue` comes before any other turn
(`OdNext`). `Administrators` says whether start and restart routes act as well.
`EngineSlot` is what playback promises about processes; `OnDemandLive` is shown to
implement it by counting the alive and the signalled engine processes of a channel.
### StreamManager

The health loop, `handleCrashRecovery` with its cooldown timer, and the module's
own `startChannel`, on the engine's maps. Translated as they are: the recovery
start ignores stops and `MAX_FFMPEG_PROCESSES` and puts a deleted channel back;
the exit handler deletes whichever process the channel's entry names by then, takes
an FFmpeg that answers SIGTERM for a crash, and throws when the channel is gone,
which shuts the panel down (`down`). Its stop and restart functions are not
exported and not modelled.
### TsFanout

One on-demand channel without pre-warm. A request awaits the start (`ensuring`),
takes the broadcast and clears its idle timer (`Attach`), awaits the prebuffer, and
only then adds its consumer and listens for its connection to close (`Register`). A
connection that closed earlier emits nothing afterwards; its consumer is `stray`.
The idle timer belongs to the broadcast it was armed on and acts on the one in the
map when it fires. A stop deletes the broadcast but ends no response, so a request
can stay attached to an object out of the map. `abandoned` is a history variable.
`Ready`, `Falter` and `GiveUp` are what `ChannelRuntime` does to a status on its own.
### CommandQueue

The rows of one server, heartbeats that lease up to `Limit` of them, the response,
the agent's loop and its acknowledgements. Requests may fail for the agent and still
arrive, before or after; the agent may restart anywhere. Heartbeats in flight are
merged into the awaited one and "an older one", acknowledgements into a set: a
duplicate acknowledgement writes what the first wrote. Leasing happens before the
response is sent and `expireStaleLeases` has no caller, so a lost response leaves
its rows leased for good: the queue is at most once, not at least once.
### HlsDelay

FFmpeg's sliding window of segments of any length between the clamped segment time and the
next keyframe, and the playlist without its newest segments that `hls-delay-playlist.js`
serves. `window` holds, for each segment, the seconds from its start to the end of the
newest: the sums the code's loop builds from the newest on. `TrailsWhenFull`: once the
window is full, what is served ends at least the configured delay before the newest
segment, and is not empty. Before that the undelayed playlist is served, on purpose. A
transcode profile with segments of one second is never clamped, and a channel that uses it
does not trail; `hlsPlaylistSize` 0 counts as 10.

### ChannelOptions and FfmpegCommand

`FfmpegCommand` is the FFmpeg command as a function of the channel: option names, filter
graph, maps and the playlist the caller is told. `ChannelOptions` is every request that
creates or edits a channel, and the transcode profiles, edited and deleted meanwhile: a
request that names a profile waits for its row between merging the options and checking
them. `StoredChannelsRun` says that what is stored gives a well-formed command. Named
exceptions stand in the property: routes of movie channels skip the check of
multi-bitrate MPEG-TS output, the import checks the URL only, a profile may be gone.

### Stability

One channel: what a scan finds, score, verdict and streak, automatic and manual fixes,
recovery, saves, restarts of the panel. `SettingsComeBack`: what an administrator chose
is in the row or was put aside. Left as they are in the model: a channel with `lag_fix`
and nothing put aside "recovers" at every scan; an edit during a fix is lost at recovery
(the property excludes it by name); a delayed restart runs though the channel was
stopped meanwhile.

### StreamingSettings

Rows, the cache that streams read, and refreshes that read eight rows one await at a
time. A failing read counts as an empty row, so the cache holds the environment's
default until the next refresh. A refused PUT leaves the keys before the refused one
stored without a refresh; the raw route stores anything; the page shows whole megabytes,
so half a megabyte becomes one at the next save.

### ServerRegistry, ServerSelection, Provisioning

Rows of `streaming_servers` under administrators, jobs, heartbeats that merge what they
read before, and the installer. Creating a server from the panel always fails (49 columns,
51 placeholders, `serverService.js:157-242`) and is modelled as that; its roles therefore
change by updates only. A crash or a failing query may end an update between the UPDATE of
a role and the demotion of the other main servers, or a heartbeat before its merge
(`BreakOff`, `MergeFails`): `OneMain` holds for rows no such update touched (`brokenOff`),
because nothing repairs the others. `ServerSelection` adds the viewer's request, one query
per step. `Provisioning` has jobs whose progress writes are not awaited, the agent they
deploy, and restarts of the panel.

### LineConnections, LineLifecycle, PlaySessions

The Redis set of a line, its keys and their two lifetimes, one Redis command per step:
`canConnect` only looks, so the limit can be passed by the requests admitted at the same
time, and by no more (`OvershootBounded`). The movie and series routes open connections
on the same set and never ask `canConnect` (`routes/stream.js` 459-468, 493-502, 564,
573, 625, 632). They are left out because no request reaches these calls today: the lookup
of proxies before them fails (`movies_unanswered`). With that repaired they would have to
be added, and `OvershootBounded` would not hold.

`LineLifecycle` has dates, bans, extensions, edits from stale pages and the minutely
sweeps, of which a slow one overlaps the next, and which disable what they listed as
expired without looking again. `redated` are the lines whose expiry was changed since they
were listed: `SweptAreDue` says that listed and swept lines are overdue but for these, and
`SweepDisablesExpired`, without the exception, is refuted.

`PlaySessions` has the play tokens of panel users and the three books kept on them.
An expired token is dropped without its count; a start over the limit ends exactly one
older session.

### ResellerCredits, Backups, Imports, Catalog, TitleMetadata, Listing

Database actors statement by statement. `ResellerCredits`: the balance is read, compared
and overwritten by different statements, and administrators set it to any number. Amounts
are hundredths of a credit, signed, as the column is. A purchase compares with a balance
that may be gone when it writes, but it writes what remains of the one it saw, so a debt
is never a purchase's work (`PurchasesLeaveNoDebt`; `setter` is who wrote the balance
last); for the same reason lines need not be paid for (`LinesArePaid`, refuted).
`Backups`: inserting the row and choosing what to prune are steps of their own; the table
that lists the dumps is part of the dump, so a restore brings rows back and gives ids
twice. `Imports`: jobs compare with a snapshot and merge
whole bouquets from it, with workers in parallel. `Catalog`: membership is lists of ids
that are rewritten whole. `TitleMetadata`: the sync takes 20 rows in no order, skips
nothing it could not fill, and writes what it looked up before. `Listing`: playlists and
answers of the player API, read batch by batch, against what the play routes check.

### PanelAccess, PanelForms, SchemaBoot

`PanelAccess`: the session is in the cookie, every request works on its copy, a late
answer brings an older session back. `PanelForms`: the opening functions of the forms
await reference data, their row and the list of servers; rows opened one after the other
finish in any order, and Save reads whatever the form holds. The opening of a stream
(`app.js` 3474-3632, which overrides the one at 2793) has the most waits: reference data
(`refs`), the list of servers (`first`), transcode profiles (`profiles`), guide sources,
of which the stream's is selected as soon as they come (`guides`), then the list of
servers twice more while its cache is empty, for the server and for the timeshift server
(`servers`, `timeshift`), and only then the id and the fields (`FillStream`). The content
of a form is abstracted to the row it came from, and `NoForeignWrites` says that no row is
overwritten with another's, outside the named exceptions: Save between the guide and the
id writes one stream's guide into another, and the property says so (`late`).
`SchemaBoot`: the statements of `seedDefaults` as a program of small instructions, run by
any number of boots that may crash at any of them; `ServingIsReady`: who serves finds the
tables and columns it reads, outside two named exceptions (two overlapping boots and a
crash can leave `series.stream_server_id` out; a line whose password cannot be recovered
is skipped, `lib/db.js:535`).

## 3. Runs

| Run | Instance | Shows |
|---|---|---|
| `pipe_channel` | one MPEG-TS movie channel, 2 sources, 3 processes, 2 runs, 1 reconnect, spawns that succeed, fail or are invalid; segments of 2 to 5 s | `CancelledRunsInert`, `PipeEntriesAreLive`, `StartingIsUnderWay`; `TrailsWhenFull` |
| `capacity` | 2 MPEG-TS channels, limit 1, 1 reconnect each; 2 users, 2 codes, 3 requests; 1 play user, 3 tokens | `OnlyReconnectsExceed`; `ServedOnOwnPortal`; `SessionsBounded` |
| `on_demand` | 2 requests, 1 channel, 3 processes, 1 reconnect | `NoOrphan`, `EveryTimerCancellable`, refinement of `EngineSlot` (`OneEngine`) |
| `requests_and_settings` | 2 requests, routes acting, 2 runs; 1 save, 1 failing read | liveness: `RequestsAnswered`, `StartSettles`; `SettingsTakeEffect` |
| `panel` | 1 HLS channel, 2 processes, 1 restart asleep, 2 cooldowns; 1 line, 1 saved key; 2 rows of each kind, 2 clicks, 1 change elsewhere | `ShadowEntriesAreLive`, liveness `PhantomsCleared`; `ServingIsReady`, `SettingsKept`; `NoForeignWrites` |
| `delivery` | 3 viewers, 2 broadcasts, 2 idle timers; 1 channel, 2 movies, 1 series, batches of 1, 2 edits; 2 titles, 1 failure | `OutputHasTaker`, `ViewersAreFed`, liveness `AbandonedIsReaped`; `ListedPlays`, `NothingMissed`; liveness `EveryTitleIsFilled` |
| `lines_and_commands` | 3 commands in batches of 2; 3 viewers, limit 1, 2 at once | `AtMostOnce`, `ReportsEarned`, liveness `QueuedGetsLeased`; `OvershootBounded`, liveness `FullLineFrees` |
| `operations` | 2 servers, 2 administrators; 2 jobs; 2 tasks, 4 dumps, 1 kept; 2 purchases, 1 correction; 2 kinds of trouble | `LiveGoesToEnabled`, `EnabledIsEarned`, `PruneSparesNewest`, `PurchasesLeaveNoDebt`, `SettingsComeBack` |
| `records` | 2 servers; 2 import jobs, 2 entries of one URL, 2 workers; 2 titles, 2 saves; 1 line, 2 pages, 2 sweeps; 2 kinds of URL, 1 profile, 1 edit | `OneMain`, `NoNeedlessCopies`, `ImportsReachBouquet`, `MembershipKept`, `SweptAreDue`, `StoredChannelsRun` |
| `stop_leaves_process` | 1 MPEG-TS channel | violated: `StopLeavesNothing` |
| `movies_unanswered` | 1 server | violated: `MoviesAnswered` |
| `extended_line` | 1 line, 1 page | violated: `ExtendedLinePlays` |

### Bounds

Named and in the guards: `MaxDelayed` (sleeping restarts), `MaxDetect` (inspections in
flight), `MaxCooldowns`, `MaxRequests`, `MaxEdits`, `MaxClicks`, `MaxElsewhere`,
`MaxClock`, `MaxStarts`, `MaxSaves`, `MaxErrors`, `MaxTimers`, `MaxPending`,
`MaxBackups`, `MaxChanges`, `MaxFailures`, `MaxEntries`, `MaxTime`, `Concurrent`, and the
sizes of the sets of identities. Two runs let one be cancelled while its successor works;
three processes are an old one fading, its successor, and a shadow or a second successor.
Two sources and one reconnect reach each branch of the close handler. Three viewers are
one leaving, one joining and one that arrives between; two idle timers are one armed and
one overwritten. Two jobs, requests, pages, forms or tasks are what it takes to overtake
one another; three requests of a browser are a login, one that is overtaken and one that
profits. Batches of one make every row a boundary. Three commands with batches of two are
a batch and a remainder. Where identities are interchangeable and no temporal property is
checked they are symmetric. Deadlock is not checked where the system may really stop
(all children dead, nobody asks); the property checks of the database components do not
depend on it.

`MAX_FFMPEG_PROCESSES` is looked at when a run begins and at no other time: a reconnect, a
retry and the promotion of a shadow register a process without it. So `CapacityHeld`,
which `ChannelRuntime` states, is refuted, with reconnects alone; `OnlyReconnectsExceed` is what holds with all of them at
work: the live channels served by the first process of their start fit. It needs that the
place of a process is free whenever a start is admitted over it, over all that happens
between the admission, the spawn timer and the exit. The run has no restart asleep
(`MaxDelayed`): a start deferred by a restart counts as a start, and the theorem
`FirstLaunchesFit` has any number of them.

In `panel`, the opening of a stream takes up to eight answers; there two streams are
opened, or one is while something is done elsewhere, and the first of the two rows that
is touched is always the same, since they are alike (`FormsBound`).

### Fairness

Only what the event loop, the schedules and the agent's loop guarantee: timers fire,
continuations of settled promises run, polling reaches its deadline, intervals and cron
schedules fire for ever and their queries end, keys of Redis expire, a request that is
being served ends, the agent comes round to its next heartbeat. Nothing makes FFmpeg
print or end, a viewer come or leave, or an administrator act. `QueuedGetsLeased` alone
takes strong fairness, of "an awaited heartbeat reaches the panel": the network does not
lose every one of them. `EveryTitleIsFilled` is about titles TMDb knows and has an
overview for, and where there is room: titles it does not know are picked again at every
sync and may use up its limit.

### Disagreements found

Three have a run of their own:

1. A second start while the first is "starting" overwrites the map entry
   (`server.js:2739`); stop then leaves the first FFmpeg running (`stop_leaves_process`).
2. A movie request whose server has a public address is never answered: the list of
   proxies is read with a placeholder and no parameter (`lib/db.js:2847-2860`), the
   handler's rejection is only logged (`movies_unanswered`).
3. The sweep disables an expired line, and an extension does not enable it again: the
   line stays DISABLED until someone uses the toggle of the line list
   (`public/js/modules/lines.js:231-239`, run `extended_line`).

Three more are stated in the modules and kept by no run, because the code does not keep
them; a run of TLC that names one ends with a short trace:

* The sweep disables what it listed without looking again, so a line renewed between the
  list and its UPDATE is disabled though it has not expired (`lib/crons.js:137-144`,
  `SweepDisablesExpired` in `LineLifecycle`).
* Two purchases at once write what remains of the same balance: two lines for the price
  of one (`routes/reseller.js:67-72`, `LinesArePaid` in `ResellerCredits`).
* A channel that waits to reconnect holds no place, and comes back over the limit past
  the one admitted meanwhile (`server.js:2471`, `CapacityHeld` in `ChannelRuntime`).

Others that the models reproduce or that reading showed, without a run:

* Starting an HLS channel launches FFmpeg and then rejects (`server.js:2736-2743`); a
  first spawn that dies leaves the readiness interval armed, which reports a running
  channel without a process (2618); a viewer that leaves while its request waits for the
  start or the prebuffer leaves a consumer behind (617).
* `POST /servers` and the installer's server row can never be inserted; `PUT
  /servers/reorder` is shadowed by `PUT /servers/:id` (`routes/admin.js` 1481, 1505).
* Heartbeats of a freshly deployed agent are refused (`routes/agent.js:22-46`); a late
  progress write can follow the final one.
* Deleting a DRM channel leaves its row (`routes/drm.js`, `deleteChannelRow` without the
  user); a PUT that awaits lists a deleted channel again; concurrent PUTs lose updates.
* Radios listed from `bouquet_radios` are checked against `bouquet_channels`; a line
  without bouquets may play everything (`routes/stream.js:68`); filters after LIMIT give
  empty pages of the player API; titles are skipped or repeated when rows go or come
  between two batches.
* `/register` puts new users into the first group, administrators; `requireAuth` looks at
  neither row nor role; the last administrator can be removed; a logged-out session comes
  back with a late answer.
* The edit forms mix rows when opened in quick succession (the exceptions named in
  `NoForeignWrites`); a partial failure of stop, PUT, start leaves a stream stopped.
* The settings seed in `lib/db.js:2336-2352` never runs; a password changed while another
  boot had read the old row is overwritten; a duplicate INSERT aborts a boot.
* Import truncates channel ids; workers check, await and add without exclusion; cancelled
  jobs still merge. A restore reverts the table of backups; an overtaken prune can remove
  the newest.

## 4. Proofs

All theorems hold for every value of the constants that satisfies the `ASSUME`s of the
modules, which TLC evaluates in the runs, and under the hypotheses named below. Each
strengthened invariant was checked by TLC before it was proved. Each proof has a lemma
per action, lemmas for operators that several actions share, a step theorem
`Inv /\ [Next]_vars => Inv'`, and a last step that reads the property off.

**Engine** (`ChannelRuntimeProofs`). `TypeCorrect` is inductive alone, except for the
reconnect counter, which is bounded along two paths. The other properties are not:
`CancelledRunsInert` needs that a child whose handlers act for a run belongs to its
channel, that a channel's controller is a run of that channel, and so on. `CInv` joins
`TypeOK` with the matching of identities (`ControllersMatch`, `EntriesMatch`,
`EnginesMatch`, `SwitchingMatch`), three of the properties, and `DeletedIsQuiet`: a
channel out of the map is not starting and has no engine process registered. `IInv` adds
`PipeEntriesAreLive` and `StartingIsUnderWay`. `OnlyLaunchesOrphan` says which
steps leave an FFmpeg behind, whatever routes are used: a process that comes to run is
`Known` (of a channel, or a shadow some switch waits for), and while it runs it is
forgotten only when its channel is launched again over it, which overlapping starts do;
`ShadowsAwaited` adds that the shadow map holds no running process `Known` leaves out.

**On demand** (`OnDemandProofs`). Under `OnDemandOnly` (no start or restart route is used,
every output is MPEG-TS; both are false of the system as a whole, and the run
`stop_leaves_process` shows what the routes do) `OdInv` adds to `IInv`: `NoShadows`,
`TimersOwned` (an armed spawn timer belongs to the run `stopChannel` would find, on a
channel without a process), `EntriesControlled` and `AliveRegistered` (a living process is
registered or signalled). `NothingIsOrphaned` needs that no process is overwritten in the
map, which rests on which timers may be armed, and that on whose entry a process is.
`OneEngineImplemented` is the refinement: initial states map to initial states, each step
to a launch, a dismissal, an end, an exchange or a stutter of `EngineSlot`, by counting
the alive and the signalled processes of each channel; it needs finitely many processes.
`FirstLaunchesFit` is about `Spec` with all routes, reconnects, retries and switches, for a
finite set of channels. Its invariant `CapInv` adds that an armed spawn timer of a live
channel belongs to a run that has already reconnected, so what a timer registers is no
first launch; a step either keeps or shrinks the set of first launches, or launches the
one that `AtCapacity` has just let in.

**Stream manager** (`StreamManagerProofs`). `CInv` is separate because it holds with the
manager as well; the two properties of `IInv` do not: the manager registers processes of
its own and drops the entry of a channel that is starting. All the manager does is
`Manages`: drop entries, spawn on a free identity, reap its own. In place of
`PipeEntriesAreLive` stands `PhantomsAreManaged`: a dead process that the entry of an
MPEG-TS channel names is one of the manager's, which registers it although the spawn
failed; `PhantomsCleared` says that the health loop then frees the entry.

**Fan-out** (`DeliveryProofs`). `FanInv` adds `HoldersHaveIt`: exactly the requests past
`Attach` hold a broadcast. It makes a broadcast newly put in the map one that no request
holds, which `ViewersAreFed` needs; `IdleIsTimed` is inductive with it.

**Lists** (`DeliveryProofs`), for finite sets of ids and any size of a batch. `ListedPlays`
rests on `Witnessed` (the sets the reader notes bound what is allowed, there and offered
now), `AllowedWere` and `OutWas` (what an allowed set holds was allowed, what is out was
allowed and there). `NothingMissed` needs where the cursor stands: `Clean` (no offset or
batch is left for another stage), `AllowedKept`, `Found` (unless a title was deleted, what
was offered all the time is out or still ahead: beyond the offset, or its series in the
batch under way) and `Once` (unless one was created, what is out lies before the offset).
That a batch which is not full is the last one is `FullBatch`: the ranks of the rows of a
finite table are 0, 1, 2, ... without a gap, shown by counting, not by induction.

**Delayed playlist** (`DeliveryProofs`), for any segment times within the clamp, delays,
keyframe distances and list sizes below the limit (`HdAssumption`). `Cut`: the newest n
segments make up at least n segment times, and the window's lags differ from one segment
to the next by one segment. A full window is long enough for the delay and one segment
more (`ListIsLong`), so some n makes up the delay; the least such n,
from the well-foundedness of the naturals, is the one the loop stops at.

**Commands** (`OperationsProofs`). `AtMostOnce` needs `OnTheWay` (a command that was
executed is in no response and no batch, and a row still queued was not executed) and
`OneBatch` (one response per request, to an agent that awaits it). `ReportsEarned` needs
`AcksEarned`. Each restart or lost message only empties these places.

**Records** (`RecordsProofs`). `OneMain` rests on `MainsExist`: no role stays behind where
a row was deleted. `SweptAreDue` needs that no sweep or dialog knows an id before its line
is made (`UnusedUntouched`); every writer of an expiry notes it, and time only grows.
`MembershipKept` rests on each save's snapshot being true of the lists it has not yet
rewritten unless the save was overtaken (`SaveKept`). The imports rest on `ImInv`: a
worker's entries are being inserted (`HandsBusy`), what a job counts is stored
(`MineStored`), a merge knows the bouquet as it is unless another writer came between
(`MergesKnow`), the set of known URLs is complete while jobs follow one another
(`SetsComplete`), and rows of a URL and workers about to insert it are together no more
than the workers (`RoomLeft`).

**Stored channels** (`RecordsProofs`). `StoredAlwaysRun` needs `CoInv`. `Good`: what a
channel that is no movie was checked for when it was stored stays true of it. `EditsFit`:
what a request that waits for a profile was admitted with still fits, because a channel
stays in the map and keeps its class. The rest is about commands, for any number of
renditions: the option names of each input command come from disjoint sets, so none is
given twice, and each pad of the filter graph is taken once.

**Operations** (`OperationsProofs`). Credits: what a purchase is going to write is not
below zero (`ChargesAreCovered`), whatever becomes of the balance until it does, for any
signed amounts. Stability: what the property says of memory holds of the saved row as well
(`Protected`), because a restart begins with it. Provisioning: what a job did is recorded
while it is at a stage that implies it (`JobsKeepTrack`). Selection: a server enabled now
was noted during the request. Backups: names are given once (`ComingAreNew`,
`UsedAreGiven`), tables kept in dumps are sound, a restore has a target.

**Access** (`AccessProofs`). The overshoot: members and requests under way together never
exceed limit and concurrency; every way into the set leads through a request, so the
lemmas are about cardinalities of subsets of the viewers. Play sessions: the three books
agree (`BooksAgree`), with lemmas on removing an element from a sequence and on the first
index of one, proved from the well-foundedness of the naturals because induction over data
is out of reach.

**Panel** (`PanelProofs`). `ServedWhereLoggedIn`: every copy of a session on its way, in
the cookie, in a request or in an answer, is of a user that logged in with that role
(`Honest`, `Grounded`). `OnlyOwnWrites`: each waiting call, the form and the save under
way hold rows that are their own (`CallOwn`, `FormOwn`, `SaveOwn`), the guide of a form
with the exception the property names. `ServesWhenReady`:
whatever a boot is past is accomplished (`Behind`), and nothing that was accomplished is
ever undone; the program of statements is a constant, its facts are lemmas over its
indices. `SavedSettingsStay` is an action property.

**Only model-checked.** All liveness properties (`PhantomsCleared`, `RequestsAnswered`,
`StartSettles`, `SettingsTakeEffect`, `AbandonedIsReaped`, `EveryTitleIsFilled`,
`QueuedGetsLeased`, `FullLineFrees`): liveness under fairness is outside what the prover
does here.

## 5. Not modelled

Changes of a channel's output format or sources while it runs; shutdown of the panel;
pre-warm toggled with viewers attached; the conditional stop of DRM routes; a limit
changed by `PUT /api/settings/ffmpeg-limits` (`server.js` 2056-2069) while channels run;
the movie and series routes' opening of connections (section 2); the bytes of the
prebuffer; nginx mode's second idle mechanism; the sweep over last accesses, which is an
arbitrary stop in the engine.

Runtime sessions and placements (`lib/db.js` 2483-2840) cannot be reached as the code is:
`createPlacement` writes a status the column's ENUM does not have and the error is
swallowed; the node's report binds the string `NOW()`; sessions are tracked only with a
`serverId` that is never set; the cleaning compares a unix time with a DATETIME.
`expireStaleLeases` has no caller, and neither have `assignPackage` and the cache
middleware.

The health monitor and the stream repair probe sources and show the result; access
control is checks of one request and counters of heuristics; events, WebSocket, webhooks,
Telegram, dashboard and metrics report what the modelled parts do and change nothing of
it. Bulk creation of lines, searches, guides (their refresh clears first and inserts
then, and overlapping refreshes double rows), permissions of resellers by page, and the
rendering of playlists were read and left out. Remote live streaming is de-scoped in the
repository's own documents and only its command transport is modelled.

## 6. Plan

Every safety property of the runs is proved. What is left:

1. The parts of section 5 that change state: edits of a running channel, pre-warm toggled
   with viewers attached, a changed `MAX_FFMPEG_PROCESSES`.
2. The readiness interval and the late progress write among the hazards, which no
   property states yet: the first by telling apart why a start settled, the second by
   keeping writes of a provisioning job in flight.
