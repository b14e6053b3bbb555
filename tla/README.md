# Verification of tally-ho

tally-ho listens to the SondeHub telemetry stream, follows radiosondes from launch to
landing, predicts where they will come down and pushes alerts to people who watch a
place. This directory holds TLA+ models of its core, TLC runs that check them on small
instances, and proofs checked by TLAPS. Paths below are relative to `src/`.

## The system

Threads: one **consumer** thread (`App.run`) does all parsing, tracking, predicting,
committing and pushing; the MQTT thread only enqueues raw messages; a **worker** fetches
flight histories; up to three **downloader** threads fetch winds and terrain; the **web**
thread serves the dashboard and changes settings, subscribers and histories. They share
the SQLite store (one connection behind a lock) and a few events and queues.

| part | state it keeps | operations | what is hard | what makes it correct |
|---|---|---|---|---|
| de-duplication and reordering (`src/tallyho/dedup.py`) | per sonde: heap, watermark, last emitted, keys seen | push, flush | repeats, any arrival order, expiring keys | output in order, no repeat within the TTL, nothing held or refused too long or too early |
| flight tracker (`predictor/src/windfall/tracker.py`) | per flight: state, extremes, counters, close-out marks | update, check_timeouts, drop, forget, load_active | three ways of being LANDED, silences, serial reuse, restart with only the row | follows its life cycle, no false burst, landing or relaunch, silent flights close |
| daemon (`src/tallyho/app.py`) | throttles, subscribers, backfill bookkeeping | process_frame, tick, apply_backfills, predict_active | several commits per call, keys (serial, day) reused or shifting, crashes | rows, truth and alerts agree with the flights |
| alerts (`src/tallyho/notify.py`, `geofence.py`) | the alerts table | handle_prediction, handle_landed | read, write, push with another thread clearing; requests that fail | no request twice, who can be reached knows the point, the landing is told |
| history backfill (`src/tallyho/backfill.py`, `app.py`) | queues, frames kept, holds, marks of what was asked | request, drain, worker loop, rebuild | slow, failing or wedged worker, full queue, flights that change meanwhile | one fetch each, rebuilds lose nothing, holds end |
| store (`src/tallyho/store.py`) | tables; batch depth, deferred names | upserts, deletes, retract, clear, batch | failures in a batch | rows consistent with memory |
| change events (`src/tallyho/events.py`, `web.py`) | pending names, clients, loop | publish, flush, register, close | threads against an event loop, shutdown | every change reaches every client |
| ingest (`src/tallyho/ingest.py`, `App.run`) | bounded queue, timers | enqueue, consume, reconnect | backlog, drops, deferred maintenance | a backlog longer than is tolerated never looks like silence |
| downloaders, terrain (`App.*_loop`, `windfall/dem.py`) | kick and stop events, ground model | loops, reload | lost wake-ups, model swapped under a lookup | new regions are served, new tiles are used |
| wind cache (`windfall/gfs.py`, `hrrr.py`) | files, decoded fields | select, download, prune | files coming and going under readers | a pair that brackets the time |
| web API, settings, setup, accounts | config file and its copies, tokens, users, sessions | requests | check-then-act across requests, a file truncated before it is filled, death midway | what is saved is in force or announced, an account implies a configuration |
| prediction (`windfall/predictor.py`, `integrator.py`, `profile.py`, `ensemble.py`) | wind profile, cached ensemble offsets | predict by phase, climb, fall, ensemble | several looks at files that come and go, thinned paths, cached answers | a sound path, enough known winds, a recent offset |
| dashboard (`src/tallyho/static/js`, read queries) | what each view shows | fetch, show, event stream, timers | answers of several queries, overtaking answers, lost events | a page left alone shows the store |
| physics, replay, parsing | none, or data only | pure computations | floating point | outside the models |

Interactions: the stream feeds the buffer, the buffer feeds `process_frame`, which calls
the tracker and then commits what the tracker's events ask for; `tick` drops, requests
recoveries and sweeps; `apply_backfills` replays histories through the tracker; the web
thread reaches the rest only through the store.

## Modules

| module | models | state and actions |
|---|---|---|
| `ReorderBuffer` | `ReorderBuffer` | heap, watermark, last, seen per sonde; `PushDuplicate`, `PushLate`, `PushAccepted` are the three outcomes of `push`, `Flush` is `flush` of one or all. `emitted`, `late`, `flushedTo` are history |
| `ReorderBufferProofs`, `FlightTrackerProofs`, `AlertManagerProofs`, `TallyHoProofs`, `HistoryBackfillProofs` | theorems about the module of that name | - |
| `WebProofs` | theorems about what the web server's threads share: `EventBus` and `Settings` | - |
| `ServicesProofs` | theorems about `Downloads`, `WindCache` and `MCServices`, which joins the four services | - |
| `PipelineProofs` | theorems about `Ingest`, `Prediction`, `Dashboard` and `MCPipeline`, which joins them with the buffer | - |
| `FlightStates` | what a frame, the sweep and a restart can make of a flight | operators only, shared by the next three |
| `FlightLifecycle` | the abstract specification of one serial's flight | the flight's state, how it was closed out, the events announced |
| `FlightTracker` | `FlightTracker` for one serial | the flight record with its counters; `Hear...` are the branches of `update`, `Sweep...` those of `check_timeouts`, `DropOrForget`, `Restart`, and `Tick` for time. Whether a frame is `later` than the one before it is an input, as `_is_glitch` asks for it first |
| `AlertManager` | `AlertManager`, the alerts table and `clear_alerts` | `Decide...` (read), `Record` (commit) and `Send(ok)` (one request, which may fail and is not repeated) are separate steps of the consumer thread; clearing, closing out, resuming, relaunching and crashing come in between. `told`, `unsent`, `landing`, `inherited` are history: what reached whom, and whose LANDED row is an earlier flight's |
| `TallyHo` | the handlers of `App` for one serial and one subscriber | a handler moves the flight and its row (`Frame`, `Sweep`, `Drop`, `RebuildDone`, `RebuildBreaks`, `RebuildLoses`) and leaves the rest of its commits in `todo`; `Retract`, `RecordLanding`, `NotifyLanded`, `NotifyInbound`, `Refine`, `Rerecord` commit them one by one |
| `HistoryBackfill` | `HistoryFetcher` and its bookkeeping in `App` | `HearNew`, `HearTracked`, `ApplyBackfills`, `Tick` of the consumer; `Take`, `Return` of the worker |
| `EventBus` | `EventBus`, the ringing in `Store` and its batches, the SSE generator, the watcher, the lifespan | `Commit` leaves names to ring; `Ring` ends with `publish`'s lock, `Arm` is `call_soon_threadsafe`; `LoopCall`, `Flush`, `Poll`, `Wake`, `Send` run on the loop; `Detach`, `LoopEnds`, `ProcessEnds` at any time |
| `Settings` | `load_config`, `write_config_values`, `put_settings`, the wizard's `complete`, `ensure_setup` | the file, the `Config` object, the values captured at start; a request is `ReadFile`, `Truncate`, `Fill`, then `Apply` or `AddUser`; `Stop` at any of them |
| `Downloads` | reload of subscribers, the two downloader loops, one pass over terrain tiles, the ground model | `ReloadSubscribers`, `Kick`; `TestStop`, `ClearKick`, `Begin`, `Sleep...`, `Awake` are the lines of a loop; `Got`, `NoSuchTile`, `TileFails`, `NotWritable` of the pass; `LookForTile`, `IndexTiles` of a lookup |
| `WindCache` | `gfs.py` and `hrrr.py`: `download_gfs_cycle`, `download_hrrr_cycle`, `prune_grib_cache`, `select_bracketing`, the inventory and the cache of `_cube` | `Write`, `WriteEnds`, `HourFails`, `NotPublished` per forecast hour; `Publish` of the agency; `Predict(past)` reads the files as they are, on the hour or past it by a part of one; everything is told in ages |
| `Ingest` | `enqueue`, the consumer loop of `App.run`, the reconnecting client | the raw queue with one sonde's frames by age; `Pass` is a unit of time, `Take`, `Drained`, `Tick`, `NoTick` the loop, `StreamFails`, `ConnectFails` the backoff. `after` and `flood` are history: what came in behind a frame of the sonde |
| `Prediction` | `predict_for_flight`, `predict`, `predict_preburst`, `integrate_descent`, `integrate_ascent`, `_decimate`, edge fill, `_ensemble_offset` | one prediction at a time as a run of steps; `FilesChange` between any two of them |
| `Dashboard` | the read side: the store's queries, the views' fetches, `EVENT_REFETCH`, history panel and timers of the front end | commits of the daemon and the web thread (`Rebuild` is one batch, the truth of a rebuilt landing a commit of its own), `Query` one query of an answer, `Show`, `FetchFails`, `GoDown`, `ComeUp`, `Timer` |

`FlightTracker` implements `FlightLifecycle` (property `FollowsLifecycle`), and `TallyHo`
moves its flights by the same outcomes: what TLC finds for `TallyHo` holds for a tracker
that keeps to the life cycle. In the same way `TallyHo` reduces the alerts to which
rows exist; `AlertManager` has the details. `Dashboard` reduces the event bus to a set of
names on their way to the page, which is what `EventBus` shows of it (each is told, none
before its commit).

`MCServices` and `MCPipeline` put together parts that share no state: a behaviour picks one
and the others stand still, so that one run covers them side by side, each in full. That
each joined specification implements every one of its parts is proved
(`ServicesImplementParts`, `PipelineImplementsStages`).

Abstractions: altitudes are coarse units; the regression's vertical rate, the ground under
a fix and the teleport test are inputs of a frame, so the models allow any lag of the rate;
landing points lie on a line; a flight's frames in `HistoryBackfill` are the instants
they were transmitted at. The integrator's position and speeds are left out: a trajectory is
its heights and its times, and a wind is known at a level or guessed. Errors of the
database itself (a full disk) are not modelled: a call either commits, or the process dies
between two commits; rebuilds may raise. Errors of the other files are: a write of the
configuration, a wind file or a tile may fail at its start or midway.

## Runs

| run | instance | shows |
|---|---|---|
| `tracker` | altitudes 0..3 over ground 0..1, two frames per sustained condition, four ordered timeouts, one restart | safety, action and liveness properties, and the refinement |
| `alerts` | 3 subscribers (both points in reach, one in reach, watch-only), 2 points, clock 0..2, one crash, any request may fail, any number of flights under the key | nothing twice (once per row, INBOUND once), kept posted, updates are news, landing told |
| `tallyho` | 2 days, 2 crashes, 2 rebuilds | store and memory agree in every order of commits, crashes and clearing; a landing is retracted when the flight goes on |
| `backfill` | 2 sondes, queue of 1, 5 instants, one restart | bookkeeping, hold and rebuild |
| `pipeline` | buffer: 2 sondes, 2 keys, times 0..4, hold 1, TTL 2, 5 calls; queue of 6 with 4 tolerated as backlog, 1 or 2 frames per unit; levels 0..3, 9 steps; each view of the page, 3 commits, 2 fetches | what lies before the tracker and behind it: order and repeats, when a backlog is taken for silence, sound predictions, a page that catches up |
| `services` | one browser, one handler, 2 datasets; 2 request threads, 3 settings; 2 locations sharing a tile; a run of forecasts every hour, fetched every 2 hours up to its hour 4, 2 hours kept, 2 files in the cache | every change is told, settings are live or announced, no kick is missed, tiles and winds come into use |

Six more runs each show a place where the code does not do what its comments say, as the
shortest behaviour TLC finds:

| run | property | what happens |
|---|---|---|
| `ghost` | `ResumedExpiredNeverRecorded` | a later flight under the key of a landed one expires and is heard again; the retraction, said to be a no-op, deletes the earlier landing truth and alert |
| `dayshift` | `RebuildKeepsInbound` | a rebuild moves a falling flight to the day before; INBOUND is pushed again |
| `rehydrate` | `BurstWasWatched` | a restart in the first frames of a sonde first heard falling gives it a burst altitude nobody watched |
| `cleared` | `ClearingResendsNothing` | alerts cleared while a flight is closed out in mid-air are sent again when it is heard again |
| `overlap` | `HeardMeanwhileIsKept` | the first frame of a flight that starts while a fetch for the serial runs is not kept for the rebuild |
| `horizon` | `TightPair` | with the defaults (6-hour cycles and cadence, forecasts to 12 hours) and nothing failing, the newest run is up to 16 hours old before the next one is fetched, and the pair no longer brackets the present: the far end of the field is clamped. Forecasts must reach beyond `Period + Late + Cadence` for the promise to hold |

The passing runs state the same promises with exactly these cases excepted, by history
variables (`reused`, `shifted`, `wiped`, `cleared`, `skipped`, or `first` being known), or,
for `horizon`, with forecasts that reach far enough.

### Bounds, and why they are enough

- Buffer: a repeat past the TTL needs three calls after the first copy, and a reordering
  across a flush four; times must span more than TTL plus hold.
- Tracker: each sustained condition needs two frames and each timeout its own gap, all of
  which occur with four altitudes; time and counters are capped where the code stops
  telling values apart, so behaviours are unbounded.
- Alerts: a moved point, a throttle that ends and one that does not fit into three instants.
- `TallyHo`: a rebuild can move a flight back one day and leave an older flight there, and a
  second crash can cut the recovery from the first; frames, sweeps and clearing are
  unbounded.
- Backfill: one request waits, one is being fetched, and a silence outlives both the
  timeout and the hold.
- `Ingest`: the queue fills and drops, is longer than what is tolerated as backlog, and
  shorter; ages are capped just past the timeout. `flood` is, when the flight is closed out,
  the sonde's frame that is just short of the timeout and all that came in behind it, counted
  only if all of it was put in the queue. If the other sonde sends nothing in that time it is 4,
  which is tolerated (`Shed` 4), and the flight is closed out with its frames queued; with
  frames of the other it is more, and the sweep is put off: both sides of the line occur. The
  defaults are 5,000 frames (`app.py:42`) in a queue of 200,000 (`app.py:575`), and 180 seconds
  for a landing (`config.py:55` of `windfall`). `MaxAttempt` caps the
  exponent of the backoff where the delay is already at its maximum.
- `Prediction`: `MaxSteps` is the code's own iteration guard, small enough to be hit by the
  slowest climb and fall; with `ClimbPoints` 2 and `FallPoints` 3 a path is thinned twice.
  `Top` and the bursts are levels, one burst far beyond what the steps can reach.
- `Dashboard`: three commits are enough for a daemon's job to be interrupted between its
  halves and for a commit between each two queries; two fetches for one to overtake
  another. `Relevant` leaves out commits that the view cannot show and is not told of,
  `OneMap` one fetch of the map at a time (its six queries alone give the interleavings
  with commits), `NeededTimer` timers with nothing to heal.
- `EventBus`: one client and one handler beside the daemon: clients do not touch each
  other, and two writers are what `publish` has to arbitrate between.
- `Settings`: an ordinary setting of the wizard, one whose default removes its line, and one
  that the environment overrides; two threads overlap in every way. `NoSaveAfterDamage`: the
  properties are lifted once a history flag says that a write broke off, so no further
  save is begun then.
- `Downloads` is run twice: `kicks` with passes that have nothing to fetch (`NoTiles`,
  `EmptyPasses`), for the interleavings of the two loops with reloads and shutdown; `tiles`
  with the wind loop standing still and one watched location at a time (`TilesOnly`), for
  the interleavings of a pass with lookups. The loops share only the stop event.
- `WindCache`: runs every hour, passes every two, so a run is used on the hour it was fetched
  and on the next, past the hour in both; with two files in the cache a pair just fits. An
  hour is given up once, the second of the only run on disk (`OneGap`), and the newest run is
  not found out only before that, or after a failure still to be made good: the gap then
  is there for a whole sleep and is mended. `UsefulKick` leaves out kicks with no newer run;
  `UsefulLook` has predictions read while the first hours are written or the loop sleeps,
  and lets the inventory expire when it is no longer what is on disk. `Cap` is the age from
  which all are alike. `horizon` has the default hours and, instead of these bounds,
  no failures and no kicks (`Smooth`).

`CHECK_DEADLOCK FALSE` stands only where a bound stops the model: `pipeline` (calls of the
buffer) and `backfill` (clock).

### Fairness

`SilentFlightCloses` (run `tracker`) assumes that time passes and that the sweep runs (weak
fairness of `Tick` and `Sweep`): `App.run` calls `tick()` every `tick_seconds` whether or
not frames come, and puts it off only while a backlog lasts. Nothing is assumed of
receivers, of the worker or of the web thread; `GhostsAreReleased` bounds the hold without
assuming that the worker ever answers.

`EveryChangeIsTold` (run `services`) assumes `BusFairness`: a thread that has begun to ring
goes on (weak fairness of `Ring` and `Arm`: there is no wait in them but short locks), the
event loop runs what is due (`LoopCall`, `Flush`, and the generators' `Wake` and `Send`),
and the watcher gets the store's lock now and then. The last is strong fairness of `Poll`:
the lock is free again and again, never for good, while the daemon writes; the watcher tries
every two seconds, and a batch is short. Nothing is assumed of commits, of connections or of
shutdown: each may come at any time, or never.

## Proofs

`ReorderBufferProofs` proves, for all sets of sondes and keys, any times, hold and TTL and
any number of calls (`BufferAssumption` says only that they are naturals), every property
of the buffer that the run `pipeline` checks:

| theorem | property |
|---|---|
| `TypeCorrect` | `TypeOK`, the buffer's part of `PipelineTypeOK` |
| `OrderCorrect` | `EmittedInOrder` |
| `RepeatCorrect` | `RepeatsOnlyPastTtl` |
| `RefusalCorrect` | `RefusedOnlyBeyondHold` |
| `HeldCorrect` | `HeldIsRecent` |

None but the type invariant is inductive alone. The inductive invariant `IInv` adds:
`Ordered` (nothing emitted is newer than `last`, neither `last` nor anything held is newer
than the watermark, and no batch has the number of a later call), `Remembered` (the key of every frame held or
emitted is still in `seen`, unless the watermark is past it by more than the TTL),
`RepeatsAccepted` (the TTL property for frames still held, so that
it survives their emission), and `LastWithinHold` (the last one emitted is the hold behind the
watermark, unless a flush forced it out). One lemma per action shows that it keeps `IInv`, `StepKeeps`
collects them, and each theorem follows with `Spec => []IInv`. `HeldIsRecent` holds whether a
frame is released when another is the hold ahead (the code) or more than that (the comments):
no held frame is more than the hold behind the newest, or older than the last one emitted.

`FlightTrackerProofs` proves of `FlightTracker`, for any altitudes and grounds, any number of
restarts and any thresholds (`TrackerAssumption`: they are naturals, what counts consecutive
frames is positive, and the silences come in the order the configuration gives them):

| theorem | property |
|---|---|
| `FlightTypeCorrect` | `TypeOK` |
| `FallsCorrect` | `FallsFromHigh` |
| `CloseOutCorrect` | `CloseOutsAreUndone` |
| `LifecycleCorrect` | `FollowsLifecycle`, the refinement of `FlightLifecycle` |
| `TouchdownCorrect` | `TouchdownIsFinal` |
| `BurstCorrect` | `BurstRecordedRight` |
| `ReopeningCorrect` | `ReopeningIsSustained` |

The argument has two halves. `FrameOutcome` says what the pipeline of `_apply_frame` can make
of a flight (six outcomes, with their events): among others that a burst called by a frame is
not taken back by the same frame, because a flight on its way up has no burst altitude yet.
`IInv` says of a tracked flight that it is `Sound`: in the air it carries no flag of a close-out,
closed out it has a landing altitude or the state it expired from, on the way up (or expired
from there) it has no burst altitude, and in any other state it was high above ground; and
`TouchedIsDown`, that a landing heard by telemetry is neither provisional nor expired. One
lemma per branch of `update` and of `check_timeouts` shows that it keeps `IInv` and is an
outcome `FlightLifecycle` allows; `StepKeeps` collects them. `TouchdownIsFinal` is then read off
the life cycle: from `Down` it has no step to a reopening.

The last two need a second invariant, `Witnessed`, about what the counters mean. `Gated`: an
ascent counts as watched, and a burst altitude is on record, only with the gain over the
first altitude that the configuration asks for. `Recorded`: the events of the last frame had
their effect. `Counts`: while a flight is landed, `reascent` and `redescent` are just the
length of the run of frames since the close-out that end the history above (below) the
landing altitude, and short of what reopens it; at all other times they are 0, which is
what a close-out after a resumption relies on.

`AlertManagerProofs` proves of `AlertManager`, for any subscribers, points and radii, any
clock and any number of crashes (`AlertAssumption`):

| theorem | property |
|---|---|
| `AlertTypeCorrect` | `TypeOK` |
| `AlertsCorrect` | `NothingTwice` |
| `SubscribersKeptPosted` | `KeptPosted`, if `UpdateMove` is positive |
| `UpdatesNews` | `UpdatesAreNews` |
| `LandedCorrectsInbound` | `LandedCorrects` |

`NothingTwice` counts pushes; what keeps the counts down are rows. `IInv` adds that a call in
the middle of a row knows its point, its subscriber and its kind (`JobTyped`), that only a row
that exists has been pushed, and not the one about to be (`PushedRowsExist`), and that a
flight announced INBOUND still has that row (`AnnouncedRowsExist`), except after rows were
cleared while it was closed out, the case the property excepts as well.

The other three are about what reached a subscriber, and the code decides by rows alone; a
request may fail, or its process die before it, and is not made again. `Told` says when
rows tell the truth: `RowsTell` (the rows have the point and time that reached the subscriber
last, except for `unsent` ones, whose request is still owed, failed, or was an earlier flight's;
and who was told a point has the row, unless rows were cleared after a close-out),
`WritingFits` (the row being written or pushed was chosen for what the rows said at the
decision, though other calls of the web thread came in between), `RowsInherited` (a LANDED row is
an earlier flight's until this landing is recorded), and `CallFits` (a call's kind of row, and the
state of its flight). `KeptPosted` is carried along as `PostedFits`: with `UpdateMove` 0, which
turns updates off, it cannot be kept.

What the theorems do not promise is what the code does not do: a subscriber whose request
failed learns nothing until the point has moved from the one in their row (`KeptPosted`), nor of a
landing whose request failed; and who has the LANDED row of an earlier flight under the same
key is not told of the next landing (`LandedCorrects`).

`TallyHoProofs` proves of `TallyHo`, for any number of days, crashes and rebuilds, every
invariant that the run `tallyho` checks, and an action property:

| theorem | property |
|---|---|
| `TypeCorrect` | `TypeOK` |
| `Agreement` | `FlightsAgree` |
| `RetractionIsExact` | `LandingsAreRetracted` |
| `TruthStaysOwn` | `TruthIsOwn` |
| `LandedFollowsInbound` | `InboundGetsLanded` |
| `OneInbound` | `InboundOncePerKey` |
| `FollowsTheRules` | `PresentFollowsLifecycle` |

The properties speak of the time between calls; `IInv` has to speak of every commit. Its
core is `WorkFits`: what a call has left in `todo` is one of a few sequences (`Rest`), fits the
state of the flight it is about (a landing is only recorded of a flight that is down, an
INBOUND only announced of one that falls), and has a retraction only in front of all else.
`AirIsClean`, `TruthFits` and `InboundTold` are the properties with that debt allowed for: no
truth and no LANDED row of a flight in the air but for what the next commit retracts, and so
on. `InboundOnce` counts the pushes against the row that prevents the next. One lemma for
each commit, frame, sweep, drop, rebuild and crash shows that the six parts are kept.

`FollowsTheRules` says in what sense the daemon keeps to the life cycle of `FlightLifecycle`:
the flight that the next frame of the serial meets (`Present`) moves by an outcome that a
frame, the sweep, a drop or a restart has there (the events aside), and only a rebuild
replaces it. The clause about crashes is the one with content: memory is gone, the rows may
hold flights of several days, and yet the restart brings back the flight that was in the
air, or none if none was. It rests on `FlightsAgree`, in every state between two commits.
TLC finds it to hold on the instance of the run `tallyho`, which does not list it.

`HistoryBackfillProofs` proves of `HistoryBackfill`, for any sondes (`Serials` is finite), any
capacity, timeouts, holds and times of launch and landing, everything the run `backfill` checks:

| theorem | property |
|---|---|
| `TypeCorrect` | `TypeOK` |
| `OneFetch` | `OneFetchEach` |
| `GhostsLetGo` | `GhostsAreReleased` |
| `RebuildSafe` | `RebuildKeepsHeard` |
| `SweepWaits` | `SweepWaitsForHistory` |

`Queues`: a sonde is in at most one of the request queue, the worker's hands and the result
queue, once; the fetcher's `inFlight` and the consumer's `buffered` are just the sondes there.
`Holds`: a hold dates from the flight's one recovery, whose fetch is under way; one that is no
longer waited for is overdue. `Caught`: the latest frame of a flight is within the history
that is being fetched, or kept to be merged with it, which is what makes a rebuild safe; it
needs `Aired` (frames lie in the flight's own time and not in the future).
`GhostsAreReleased` is inductive beside these: time passes only from one tick to the next.

`ServicesProofs` proves of `DownloadsSpec`, for all sets of locations and tiles and every
coast (`DownloadsAssumption` says that the tiles of a location and those upstream are tiles),
and without the bounds of the run `services`:

| theorem | property |
|---|---|
| `DownloadsTypeCorrect` | `DownloadsTypeOK` |
| `KickCorrect` | `NoMissedKick` |
| `GroundCorrect` | `TilesAreSeen` |

`TilesAreSeen` is not inductive: a pass that begins must not inherit what another one
fetched, so `PassInv` adds `NewsOfPass` (outside a pass there is nothing new).

The same module proves of `WindSpec`, for any hours of period, latency, cadence, pruning and
forecasts, and any size of the cache (`WindAssumption`):

| theorem | property |
|---|---|
| `WindTypeCorrect` | `WindTypeOK`, a part of `MCServices.TypeOK` |
| `PairCorrect` | `TightPair` |
| `ReadsRecover` | `WindsComeBack` |

The last two under two hypotheses on the configuration: `ForecastsReach`
(`Late + Period + Cadence < MaxFxx`; the file after the last hour slept through is needed past
that hour) and `NewestIsKept` (`Keep = 0 \/ Late + Period < Keep`: pruning spares the newest run). Run
`services` has them hold; the first fails for the defaults, which is just what the run
`horizon` shows. The invariant: nothing on disk, in the inventory or in the cache is of a newer
run than the one fetched last (`NothingNewer`); unless an hour of it failed, that run is on
disk up to the hour being fetched, without gaps, and is as old as the loop has slept
(`InSequence`); and a file of it that was read midway was at most the upper one of its hour
(`CubesFit`: it is for no later hour than the one after the run's age less what the loop has slept).
So `WindsComeBack`: such a file denies winds in the hour it was read in, as the upper file
of the pair, and in the next, as the lower; from then on both files are later ones, and
those were read whole if at all.

The module closes with the specification that the run `services` checks:

| theorem | states |
|---|---|
| `ServicesImplementParts` | `MCServices.Spec => BusSpec /\ SettingsSpec /\ DownloadsSpec /\ WindSpec` |
| `ServicesTypeCorrect` | `MCServices.TypeOK` |

Each step of it is a step of one part and leaves the variables of the others alone, so a
theorem about a part is one about what the run checks; the types are collected that way.

`WebProofs` proves of `SettingsSpec`, for all sets of threads, settings, values and
accounts (`SettingsAssumption`: the wizard asks for something, what it asks for has no
optional default, and `Absent` is no value), again without the run's bounds:

| theorem | property |
|---|---|
| `SettingsTypeCorrect` | `SettingsTypeOK` |
| `SetupCorrect` | `AccountImpliesConfigured` |
| `SettingsCorrect` | `SavedIsLiveOrAnnounced` |

`IInv` says which requests there are in which state of the process (`Phases`), that a save
of the settings page starts from a configured file (`SavesKeep`: its document was read while no
other write was in the middle, or the loss was noted), and that the file is configured, or
just being written, once an account is there or a request is about to add one (`FileKept`).
`LiveInv` adds what a lone save still owes (`Owed`): until it writes, the file and the
document that will replace it agree with what is in force; after that all but its own values.

`WebProofs` proves of `BusSpec`, for any browsers, writing threads and datasets
(`EventBusAssumption`: the name that stands for any change is no dataset) and without
fairness:

| theorem | property |
|---|---|
| `BusTypeCorrect` | `BusTypeOK`, a part of `MCServices.TypeOK` |
| `FlushCorrect` | `OneFlush` |
| `NewsIsKept` | `NothingIsLost` |
| `CloseCorrect` | `NoneLeftWaiting`, `LockIsGivenBack` |

The last three are the safety half of `EveryChangeIsTold`, which the run `services` checks and
the prover cannot state: fairness moves the news along, and these say that it is there to
be moved. `OneFlush`: while the loop runs, `_flush_scheduled` is set just when one flush is on
its way, and there is only one - held by a thread between `publish`'s lock and
`call_soon_threadsafe`, by a callback of the loop, or by the timer. `NothingIsLost` lists where
the news of a commit can be for a browser that was not told of it: a thread has yet to ring
it, the watcher has yet to see it, it is pending with a flush scheduled, it is in the dirty
set of a client that was woken, or in what its generator is sending. Each step of the bus
hands it from one place to the next or tells it. The invariant (`BusInv`) adds to these that
who is about to arm a flush has its name among the pending (`ArmedFits`), which names are
pending and which calls queued in each state of the loop (`LoopFits`), and what a client has
in each state of its connection (`ClientsFit`). TLC finds `BusInv` to hold with one browser and
two handlers; the run lists only `EveryChangeIsTold`.

`PipelineProofs` proves of `IngestSpec`, for any queue, batch, timers, tolerated backlog and
stream (`IngestAssumption`), of `PredictSpec`, for any levels, rates,
grounds, path and step bounds, coverage and ensemble (`PredictionAssumption`), and of
`DashSpec`, for any number of fetches, commits and versions (`DashboardAssumption`), without
the bounds of the run `pipeline`:

| theorem | property |
|---|---|
| `IngestTypeCorrect` | `IngestTypeOK`, a part of `PipelineTypeOK` |
| `BacklogIsNoSilence` | `NotSilencedByBacklog` |
| `PredictTypeCorrect` | `PredictTypeOK`, a part of `PipelineTypeOK` |
| `SoundPublished` | `PublishedIsSound` |
| `DashTypeCorrect` | `DashTypeOK`, a part of `PipelineTypeOK` |
| `PageCorrect` | `PageCatchesUp` |

For the queue: older frames of the sonde are handled before newer ones (`Fifo`); each frame
sent since the queue last dropped one is still queued, unless it or a newer one was handled
(`Waiting`); and behind a queued frame of age `a` lies all that came in after it (`Behind`). So if
the newest handled frame is older than the timeout, one that is just short of it is queued
with all that followed behind it, and the sweep runs only if that is no more than is tolerated.
Nothing is assumed of the rate of the stream, which the code does not know either: with a
tolerated backlog of 5,000 and a timeout of 180 seconds, a stream of fewer than 28 frames a second
can be so far behind that a flight is closed out with its frames queued.

For the predictions: a path being drawn keeps its first point, has no gap longer than its
stride allows, and ends no longer ago than the steps since it was last sampled (`Trail`). The
step that samples a full path also thins it; that this keeps the first point, drops the
remainder of the step count to that of the doubled stride, and at most doubles the gaps are
lemmas about `%` and about dropping every second point. The fall remembers how the climb
ended (`Begun`), and the landing is joined to a path that is otherwise still steady
(`Landing`). A level is only ever guessed outside the measured column, and only when the
column covers enough of the levels (`Guesses`), so the guessed ones are at most what the
coverage leaves (`GuessesAreFew`). The files may come and go between the steps; nothing in
the argument reads them after the fill was decided. The proof put the bound on a path's
length right: with a limit of one point, thinning keeps two.

For the page: answers of a fetch so far are what the store would answer now, as long as no
name the view is fetched for is on its way (`UpToDate`); that holds of the youngest fetch
only, and if a younger one was shown before it nothing older counts (`Overtaken`). Every
commit either rings a name of the view or changes nothing that the view shows (`Untold`),
for which the state of a landing must fit the row (`Landings`).

Every invariant and action property of a passing run is stated by a theorem. Only
model-checked are the two liveness properties (`EveryChangeIsTold`, `SilentFlightCloses`):
liveness under fairness and `ENABLED` are beyond the prover, as is induction over data. The
modules use no recursive operators, so proofs about them stay possible.

## Seen in the code, not claimed by a run

Read while modelling; each is as the model has it, and no line of the repository promises
otherwise in a way a run could refute.

- The history panel takes a landed flight with a landing as final (`history.js:13-15`); a
  provisional landing that is resumed leaves the panel behind. `PageCatchesUp` excepts it.
- `EVENT_REFETCH.accuracy` does not refresh the history panel, so a landing recorded after
  the flight's last row shows with the next row, or when the panel is opened again.
- Answers of two fetches of a view may overtake each other; the older one is then shown until
  the next event or timer.
- The step that crosses the ground is sampled before the landing is interpolated, so the last
  point but one of a drawn path may lie beyond the landing.
- A climb cut off by the iteration guard falls from the burst altitude all the same.
- `_preburst_winds_known` asks for coverage above the lowest level measured; the fall below
  that level is flown on clamped winds in any case.
- On a fresh install outside the container no wind source is made until the next start.
- Two setup requests that race with different names both succeed.
- `dedup.py:11-13` speaks of a frame released once another is more than the hold ahead; the code releases at exactly the hold. `HeldIsRecent` holds of both.
- The tolerated backlog is a number of frames, the timeout a time (`app.py:621-631`): on a quieter
  stream a flight is swept whose frames are queued. `NotSilencedByBacklog` says how many may be.
- A request to the push server that fails is logged and never repeated; its row counts as told
  (`notify.py:104-109,148,177`).
- The LANDED row of an earlier flight under the same serial and day makes `record_alert` ignore
  the next landing: nobody who has it is told, INBOUND or not.
- A crash between the commits of a landing leaves it without truth or alert: the flight's row
  is LANDED and is not reloaded (`app.py:180`).
- A refinement of a landing whose truth row was cleared meanwhile can bring the row back
  (`app.py:420`).
- When the queue of requests is full, a flight is marked as asked for and neither held nor
  asked for again (`app.py:229`).
- A wind file read while it is written denies winds in that hour and, as the lower file, in the
  next (`gfs.py:750-777`).
- The last `hold_seconds` of a sonde that falls silent stay in the buffer: only the tests call
  `flush()`.

## Plan

Done: the core (`ReorderBuffer` to `HistoryBackfill`), the services (`EventBus`, `Settings`,
`Downloads`, `WindCache`), and the ends of the pipeline (`Ingest`, `Prediction`, `Dashboard`).

Proved: all safety and action properties that the passing runs check, and that the joined
specifications implement their parts.

Next: tokens (the check and the deletion are two requests; no property depends on
it), the HRRR loop beside the GFS loop, a login limiter.

## Not modelled

- The numerics: descent model, densities, wind interpolation, terrain interpolation, the
  ensembles' sampling and their vectorised twin (`ensemble_vec.py`), accuracy metrics. They
  are floating point without state; the tests compare them with references.
- Telemetry parsing, message texts, rendering, geocoding of names, push transports: pure
  conversions and I/O.
- Configuration fields and command lines: parameters, here CONSTANTS; `Settings` models how
  they are loaded and saved, not each of them.
- Replay, corpus and benchmarks: offline tools that run the tracker and the predictor over
  files.
- Login, sessions and tokens; schema migrations; tables the properties do not read.
