# stemd in TLA+

A verification project for `stemd`, a server that separates music into stems: TLA+ models of the
program from the command line to the last stem on disk, the TLC configurations that check them on small
instances, and theorems that TLAPS proves for every instance: every safety property of the passing runs is one.

Contents: [the system](#the-system), [modules](#modules), [from code to model](#from-code-to-model),
[runs](#runs), [fairness](#fairness), [proofs](#proofs),
[disagreements](#where-the-code-and-its-words-disagree), [hazards without a property](#hazards-without-a-property),
[not modelled](#what-is-not-modelled), [plan](#plan).

## The system

A deck (or the command-line client) uploads a track with `POST /v1/jobs`, polls
`GET /v1/jobs/{id}`, downloads the stems and may send `DELETE` when it loses interest. One worker
thread owns the model and separates one track at a time. Stems land in a cache on disk keyed by a
hash of the upload, the formats and the model, and handles to them live in a job store. A window in
the same process shows what happens, accepts dropped files and can change the model. The weights are
downloaded once and shared by every launch on the machine, as is the settings file. Paths below
are under `crates/stemd-server/src/` unless another crate is named.

### Components

| component | source | state it keeps | operations |
|---|---|---|---|
| job queue and worker | `queue.rs` | the line (`pending`), the job in hand and its flag (`running`), `shutdown`, the staged model (`incoming`), what the model says of itself (`info`), the worker's `JoinHandle` | `submit`, `cancel`, `install`, `stop`; the loop: take, build, separate, publish |
| job store | `jobs.rs` | jobs by id and by key; per job: stage, waiters, entry, error | `claim`, `join`, `release`, `remove`, `prune`, `complete`, `fail` |
| HTTP handlers | `api.rs` | none of their own | `create_job`, `get_job`, `delete_job`, `get_stem`, health, logs |
| dropped files | `drops.rs`, `ui/{mod,recents}.rs` | the window's list of drops, the folders of stems beside the files | drop, decode, `separate`, copy, write `stems.json`, forget, delete |
| stem cache | `cache.rs` | `entries` and their directories; per entry: last use, unpulled stems, the tombstone | `publish`, `get`, `reap`, `clear`; `get_stem` reads beside it |
| model switcher | `switch.rs` | `state`, `current`; one thread per switch | `request`, `run`, `dismiss_error`, `identity` |
| separating a track | `stemd-mlx/src/apply.rs`, `stemd-core/src/{hybrid,mlx,mixture,progress}.rs` | the accumulated output and weights | `over_track` per half, the fold, the remainder, the shared bar, cancellation |
| formats and resampling | `stemd-core/src/{pcm,stemfmt,stems}.rs`, `resample/` | none | parse, decode, convert, fit, encode |
| command-line client, audio decoding | `stemd-cli`, `stemd-audio` | none that is shared | find a server, check, decode, upload, wait, download, rebuild, write |
| process lifecycle | `main.rs`, `serve.rs`, `shutdown.rs`, `panics.rs`, `ui/quit.rs` | the listener, the runtime, the quit guard | bind, serve, signal, close, `shutdown::now` |
| startup and reaper | `startup.rs` | the reaper's count of idle sweeps | prepare, resolve and load a model, sweep, release the allocator |
| settings file | `settings.rs` | what is saved, what this run uses, which flags are pinned | `open`, `pin`, the setters, `write`, `save` |
| model files, CUDA libraries | `models/`, `cuda.rs` | files in the search path and the download cache | `locate`, `verify`, `fetch`, unpack |
| identities and precision | `ident.rs`, `precision.rs`, `cli.rs` | none | the cache key's identity, the id a client stores |
| discovery | `discovery.rs` | the mDNS registration | `start`, `withdraw` |
| log buffer | `logbuf.rs` | the last 2000 lines | `push`, `recent`, `clear` |
| window | `ui/` | what is drawn | calls into the components above |
| neural network | `stemd-mlx/src/` | weights | one forward pass per chunk |

### How they interact, and what is hard

*A request* claims its key in the store, asks the cache, decodes, submits to the queue and answers.
The store, the cache's index, the line and each job have a lock of their own and a handler holds at
most one of them from call to call, so anything may happen between two calls: another deck joins,
the last waiter leaves, the sweep takes the entry, the connection closes during the decode.

*The worker* meets `submit`, `cancel`, `install` and `stop` at one mutex and one condition variable.
The hard parts are lost wakeups, a job between the line and the worker's hands, a cancel that lands on
the next job, a blocked `install()` caller displaced by a second one or overtaken by a shutdown, and
work begun when the process is about to be torn down.

*The cache* ranks entries by their last use under one lock, but writes and reads files outside it:
publishing, hits and downloads race with the sweep and with each other on the disk.

*A switch* is a thread that stages files, blocks in `install()` until the worker has swapped, and only
then changes the name that jobs are keyed by and the settings file, while other clicks, jobs and a
shutdown go on.

*An upload* passes three checks in three units, is resampled twice, may be served from an entry made for
another request, has a part left out that somebody else rebuilds, and has gains taken at four places that
somebody has to give back. All of it is sequential; what is hard is that two places must agree.

*A separation* is arithmetic with edges: a last chunk shorter than the window, an
unchecked overlap, two models that share one progress bar, a flag read between chunks.

*A launch* shares a port, a data directory, a download cache and a responder with the other launches of the
machine, any of which may be half way through something or die there; it ends through two callers that may
overlap (the window and the signal).

Every hazard is listed in `PROJECT.json` at its line, with the properties that are about it.

### What makes each component correct

| component | properties |
|---|---|
| queue | a job is in one place, is begun in order, ends exactly once and for a reason; no wakeup is lost; every `install()` and `stop()` returns and says the truth; nothing begins after shutdown; together: a serial first-come-first-served service |
| store, handlers, `separate` | one live job per key, the one the next request finds; every live job is somebody's to end; the count of waiters is exact; no track is separated while its stems are in the cache; handles live as long as stems; every caller is answered |
| cache | what is on disk is counted and bounded after every publish; every indexed entry is on disk; a sweep never takes what is wanted; what nobody came for is collected |
| switcher | between switches that did not cross, the named, keyed, saved and loaded models are one; every switch ends |
| upload, formats, client | what the door admits is served, and served as asked; the parts sum to the mix at both ends; every gain is given back |
| separation | every chunk lands on its own samples; no sample is left without weight; the bar only advances; a cancel takes in the half it falls in |
| dropped files | a row that says done has its stems whole beside the file, with their gains |
| settings | no half-written file is ever read, no flag is saved, the format and rate always make a pair that can be encoded, the last change is the one on disk |
| model files | what is loaded is what the digests pin; a whole file is never deleted where it cannot be replaced; identities differ when the audio does |
| lifecycle, discovery | a launch that loses the port touches nothing; the record withdrawn is the launch's own; nothing is given up unasked |

## Modules

```
SerialService      what the queue promises, without threads or locks
   ^ refinement (ImplementsService)
Queue  <----EXTENDS---- Server            requests, drops, store, a view of the cache
   ^                       |  index, evicted
   |                       v
   +----EXTENDS---- Switch      StemStore  what Server assumes of the cache
                                   ^ refinement (StoreService)
                                 Cache     the cache on its own

Formats <-- AudioFile <--+
   ^                     |
Track <-- Pipeline <-- Client <-- Drops    one track, from a file or a request to its files

CommandLine <-- Staged <-- Settings  <--+
     ^             ^------ Artefacts <--+-- Boot <-- Host     the launches of one machine
     +-------------------- Discovery <--+
Models  <-- Settings, Artefacts
```

| module | what it holds |
|---|---|
| `Queue` | `queue.rs`, and the stages of a job that the worker sets |
| `SerialService` | the abstract service `Queue` implements |
| `QueueProperties`, `QueueProofs` | its properties; theorems for any jobs, callers, depth and chunk count, among them that it is `SerialService` |
| `Server` | `jobs.rs`, `create_job`, `get_job`, `delete_job`, `drops::separate`, the client's wait, composed with the whole of `Queue` |
| `ServerProperties`, `ServerProofs` | its properties; theorems, among them that all of `QueueProofs` holds of it |
| `Cache` | `cache.rs` and `get_stem` |
| `StemStore` | the abstract store that `Server` uses as its cache |
| `CacheProperties`, `CacheProofs` | the cache's properties; theorems, among them that it is `StemStore` |
| `Switch` | `switch.rs` and the identity of a job's key, composed with the whole of `Queue` |
| `SwitchProperties`, `SwitchProofs` | its properties; theorems, among them that all of `QueueProofs` holds beside a switch |
| `Track` | `over_track`, the halves of `HybridSeparator` and `MlxSeparator`, the bar |
| `TrackProperties`, `TrackProofs` | its properties; theorems for tracks, chunks and overlaps of every size |
| `Formats` | the sample and stem formats, the rates and the two filters, what each conversion does to frames, samples and level |
| `Pipeline` | an upload through `parse`, the key, decoding, the separators' arrangement, conversion, encoding and publication, and a second upload after it |
| `AudioFile` | `stemd-audio`: packets to a stereo pair |
| `Client` | `stemd-cli` on top of `Pipeline` |
| `Drops` | the window's list of dropped files, their threads and folders |
| `PipelineProperties`, `PipelineProofs` | their properties; theorems for any requests, settings, tracks and limits |
| `Models` | the catalogue, precision, and the two identities |
| `CommandLine`, `Staged` | how each launch is started; files written to a sibling and renamed, the operating system's part |
| `Settings`, `Artefacts`, `Discovery` | `settings.rs`; `models/` and `cuda.rs`; `discovery.rs` |
| `Boot`, `Host`, `HostProperties` | how a launch boots, serves and ends, two of them on one machine, and the properties |
| `HostProofs`, `FileProofs` | theorems for any number of launches and any plans: format and rate, port and cache directory, the end of a launch; the settings file, the weights, the libraries and the identities |
| `MCQueue`, `MCServer`, `MCCache`, `MCSwitch`, `MCPipeline`, `MCHost` | symmetry sets, sizes, uploads, files and plans for TLC |

A definition named `X_Something` just above `X` is a wrong version of `X` that a bug could have
produced; the mutants of `PROJECT.json` put it in place of `X` to show that a property notices.

## From code to model

*Steps.* An action is one critical section of the code, or what a thread does between two of them, so
every interleaving the locks allow is a behaviour of the model. Where one handler takes a lock twice it is
two actions (`CancelWaiting`, `CancelRunning`; `RequestCheck`, `RequestSpawn`). The condition variable of
`queue.rs` is modelled by the worker's place: it holds `pending` from its first check until it is parked,
so `parking` is the only state in which another thread finds the lock taken, and `PendingFree` is the
guard of each caller that needs it. `Pipeline`, `Client` and the chunk loop are sequential: a step there
is one function, and the only other actor is whoever cancels.

| model | code |
|---|---|
| `Queue`: `Submit`, `Cancel`, `Install`, `Stop` | the sections of `Queue::submit`, `cancel`, `install`, `stop`, in the order of the statements |
| `Queue`: `Look`, `Build`, `RunJob` | `Inner::next`, `build_here`, `run`, and `publish`/`complete`/`fail` as the worker calls them |
| a model, a `Staged` and its channel | the `install()` call that staged it; `reply` is what its channel holds, `ousted` the `Staged` it displaced |
| a panic of the separator or of a build | the same step as its error: `catch_unwind` turns one into the other |
| `Server`: `PostClaim` ... `PostEnqueue` | `create_job` from claim to submit, one action per lock or await |
| a cache entry in `Server` | the job that made it; `index` and `evicted` are all that is left of the cache, and `Evict` may happen at any time |
| `Server`: `GrowsOld`, `Prune` | the clock of `retain_failed`, and `JobStore::prune` with its retain condition |
| `Cache`: time | an order: `order` lists entries by `last_used`, `idle` holds those past `unfetched_ttl`. Two entries never share a stamp, which `Instant` does not promise; `enforce_cap` then takes either |
| `Cache::delete` | the tombstone and the removal of the directory in one step, under the lock as in the code. The removal may fail (`RemoveDirs`): some of the directories stay, whole or in part (`Present`) |
| `Cache`: `Faults` | what may go wrong: a write that fails, a directory that will not go, a second instance that clears them all, a publication of a key that is already indexed; at most one of these in a behaviour (`struck`) |
| `Switch`: `RequestCheck`, `RequestSpawn`, `Settle` | a request looks at `state`, which the thread it starts writes only in its first step; so a second click may overlook the first switch (`Overlooks`), and of two that run side by side the one that ends first says `Idle` or `Failed` over the other. `crossed` holds those switches |
| `Switch`: `StageArtefact`, `SwitchFails` | offline check, download and digest of the model file: one step, which may fail. Its steps are in `Artefacts` |
| `Track`: samples | the index of each; the model gives back what it was fed, so a place of the result shows which samples were added there. Sums are sets, f32 rounding is left out, weights stay numbers because the code compares them with zero |
| `Track`: `overlap`, `bar` | hundredths of a chunk and ten-thousandths of the bar |
| `Formats`: a buffer | frames, rate, channels; what its samples are made of (a coefficient for each thing that sounds), the filters they went through, and a peak in hundredths of full scale |
| `Pipeline`: a model | gives the part of its input it is named for: how well it separates is not here |
| `Drops`: a separation | ends with an entry or without; how it waits among decks is `Server`'s. One file is copied in one step |
| `Drops`: `Discard` | `remove_dir_all` takes the folder, nothing, or any part of what is in it (`HalfDeleted`) |
| `Client`: `Assemble`, `WritePart`, `ReportNull` | `write_parts`: the folder, the files one after another in the order of the entry, the report. Each may fail: a file cut short and the whole ones before it stay. The folder is taken to hold nothing of an earlier run, whose files the code writes over one by one |
| `Discovery`: `told` | whether Windows reports success with the instance it registered; without one the name that was asked for is the one withdrawn, and logged |
| `Staged`: a file | a sequence of cells; a handle stays with the file it was opened on, so after a rename it writes into the published one |
| `Artefacts`: a digest | the content it was taken of |
| `Host`: `plan`, `troubles`, `left` | how the launches are started, how many things may go wrong (a cut download, a corrupt one, a full disk, a crash, a refused registration), how much the users still do |

*Ghosts.* `raced`, `failed`, `committed`, `lost`, `cleared`, `mingled`, `spilt`, `unread` and `misled` of the host,
`crossed` of a switch and `disturbed` of a drop record what happened for the properties; no guard reads them.

*Callers are bounded.* Each installer, stopper, deck and drop of a run makes its call once (a `Retrier`
may send its `DELETE` again), and each job is submitted at most once, so a run comes to rest when all
calls are made: every configuration says `CHECK_DEADLOCK FALSE`. That a caller is not stuck half way is
checked as liveness instead.

## Runs

Twelve: seven that pass, and one for each disagreement between the code and its own words.

| run | instance | what it shows |
|---|---|---|
| `queue` | 2 jobs, 2 installs, 2 stops, any four of them, depth 1 | the line, the job in hand and the terminal stages; lost wakeups, displaced and orphaned `install()` calls, what `stop()` answers; that the queue is `SerialService` |
| `server` | 2 decks that leave, leave again or hang up, 1 drop, 1 track, 3 jobs, evictions and sweeps at any time | one live job per track, no separation beside the stems, handles live as long as stems |
| `server_live` | 2 decks that may leave, 2 tracks, depth 1 | every live job is owned, the count of waiters is exact, every caller is answered |
| `cache` | 3 entries under 2 keys, one as large as the budget, a reader, at most one failed write, directory that will not go, or wiped cache | the index, the disk and the budget agree; a sweep spares what is wanted and collects what nobody came for; the cache is the store `Server` assumes |
| `switch_live` | 2 switches among 3 presets, one after another or side by side, 1 job, 1 stop | the named, keyed, saved and loaded models agree between switches that did not cross; every switch and stop ends |
| `pipeline` | see below | what is admitted is served as asked, sums, and keeps its level, in the server, the client and the window's folders; every chunk in place, every sample covered, the bar, a cancel |
| `host` | 2 launches, six families of plans, see below | the settings file, the weights, the identities, the stem cache and the record on the network come to no harm |
| `server_drop_full` | 1 deck, 1 drop, depth 1 | **violated**: a refused drop strands its job |
| `server_hang_up` | 2 decks, one hangs up | **violated**: a closed connection strands its job |
| `switch_stems` | 1 switch, 1 job | **violated**: stems filed under another model's key |
| `client_rebuild` | as `pipeline` | **violated**: a part rebuilt from buffers that went through different filters |
| `settings_race` | a window and a switch thread saving | **violated**: an older document is the one left on disk |

*Why the bounds are enough.* In `queue`, a line of one is full with one job behind the one in hand; two
installs are one building and one staged, or one staged and one that displaces it; two stops are the one
that takes the `JoinHandle` and the one that finds it gone. `BoundedSpec` lets four of the six calls begin
(`MaxCalls`): two jobs with two installs, two jobs with an install and a stop, a job with two installs and
a stop, and so on. The theorems of `QueueProofs` have no such bound. In `server`, two decks are an owner and a joiner, or one that comes when the other's
job is over; three jobs are one for each of them and one for the drop. In `server_live`, two tracks let a deck
find the line full of another's. In `cache`, entries of half the budget and of all of it give each rule of the
sweep something to take and something to leave. In `switch_live`, two switches are one in flight and one that
has to be refused, one after the other, or two side by side because the second click came before the first
thread's first step. `OrderedSwitchSpec` takes one behaviour of each set that differ in what decides nothing
here: threads and unloaded presets are named in the order they are asked for (`InOrder`), the job is keyed
before the first click (`KeyedFirst`; `switch_stems` keys it at any time), and a download is
called a verification (`OneLabel`), which only the window's label tells apart.

*Cases of `pipeline`.* `Tracks`: one to nine frames, chunks of one to five, six overlaps (negative and
100 % among them, which the program does not check), one or two halves, a cancel at any time: odd and even
shortfalls, tracks shorter than a chunk, unequal halves. `Requests`: a plain upload with up to two fields
changed (bytes, channels, rates, encodings, format, filter, a sample that is no number), under the settings
and presets there are. `Seconds`: a second upload that differs from the first in at most one field, so that it
hits exactly when it should. `Clients`: files that differ in up to two ways (no packets, corrupt ones, a broken
end, one or six channels, other rates, edit lists) and argument lists in up to two. `Window`: two
drops of four files (two of one title, one silent, one not audio), with the format menu, a change of model,
discards and deletions in between, a row limit of two. Sizes are scaled: `MaxTrack = 20` frames stands for
`--max-track-minutes`, full scale is 100, and a stem may peak up to as much again above it (`Loudness`).

*Plans of `host`.* `Fetches` and `Chained`: nothing installed, a file missing, rotten or the operator's own, a file missing beside a rotten one, with
downloads allowed or not, a second launch fetching the same file. `MCMenus`: menus beside a
switch that saves its own choice, flags, an old or retired saved model, a crash at any step. `Network`: two servers of one
name, on one port or two, both kinds of responder, a window and a signal. `Alike`: one model in two ways and
models with names alike, on each device. `Installs`: the CUDA runtime beside a server. Each plan says how many
things may go wrong (at most two) and how much its users do (at most two changes, a switch, a job).

`Segments` is 1 in all runs of the queue: a cancel can still fall before the chunk, after it and once the
separation is over, and further chunks repeat the same step. Each run takes from a few seconds
to about three minutes with two workers. Symmetry is used only in runs without liveness, over
callers, jobs and keys that no constant tells apart.

## Fairness

The safety runs assume none. The liveness properties assume only that threads which have something to do go on:

- the worker (`Separate`, `PublishStems \/ WorkerOther`): one OS thread in an endless loop, weak
  fairness on its steps as a whole. A model's forward pass is taken to return;
- a call that has begun: a handler on the runtime, a switch's thread, a `stop()`. Weak fairness for each,
  and never on the step that makes the call: nobody has to send a request, leave, click or quit;
- a client polls while its job is not over (`client.rs` loops), and a drop likewise;
- the reaper (`startup.rs` sweeps at an interval for as long as the process runs): weak fairness of
  `Reap` in `FairCacheSpec`. Downloads, hits and publishes owe nothing;
- `Pipeline`: the upload's own steps go on (`FairDropsSpec`); the client, the window, its menus and whoever
  cancels owe nothing.

Strong fairness is nowhere needed. `host` has none: a download may hang and a process may stop anywhere.

## Proofs

TLAPS proves the following for every set of jobs, callers, keys and sizes the `ASSUME`s of the modules
allow; TLC evaluates those assumptions in each run.

*Queue* (`QueueProofs`). `Inv` is preserved by every step. The properties of the run are not
inductive as they stand; what they lean on is

- `WorkerPhase`: what the worker's place says of the job and the `Staged` in its hands. `OnePlace` needs
  it, as the job taken from the line must not be one that was there already;
- `FlagIsAskedFor`: the flag of the job in hand is up only when a cancel or a shutdown raised it
  (`CancelledOnlyIfAsked`, a part of `EndsForAReason`);
- `StopPhase`: how far a `stop()` has got, and that the flag of the shutdown stays up behind it
  (`StopReachesTheWorker` and `WaiterSeesWorkerOut`, the parts of `StopIsHonest`).

There is one lemma for each conjunct, with one step per action. `RemoveAtProperties` says what taking a job
out of the middle of the line leaves behind. From the same invariant come two action properties:
`ShutdownIsFinal` (nothing is begun once shutdown is up, the worker between two looks included) and
`NobodyIsOvertaken` (no step lets a job past another that is in the line before it).

*The service* (`QueueProofs`). `QueueIsTheService` maps the state of the queue to that of `SerialService`:
a job is being served while the worker is between taking it and its end (`separate`, `publish`,
`complete`), and its outcome is its terminal stage. One lemma per action of the service says which step
of the queue it is; every other step, the sleeping and waking of the worker, the staging of models and
the steps of `stop()`, is a stutter. The argument needs `OnePlace` and `WorkerPhase` of `Inv`. As
`ServerSpec => Spec` and `SwitchSpec => Spec`, the server and a queue beside a switch are that service too.

*Server* (`ServerProofs`). `ServerStepsAreQueueSteps` shows that each step of the composed system is a
step of `Queue` or leaves it alone, so `ServerSpec => Spec` and all of `Inv` holds of the server.
`ServerInv` adds `StoreShape` (which key each job, handle and index entry belongs to), from which
`OneLiveJobPerKey` and `DoneHasStems` follow. `NoJobIsStranded` assumes `Drops = {}` and `Hangers = {}`:
`server_drop_full` and `server_hang_up` show that it fails without either assumption. `LastOneCancels`
assumes `Drops = {}` and `Retriers = {}`: a drop that joins is counted twice and a repeated `DELETE`
counts off twice (both are listed below). `NoTrackIsSeparatedTwice` and
`HandlesLiveWithTheirStems` assume nothing and rest on `HandlesInv`: a job has one owner until it is
submitted (`OneOwner`), the sweep takes no live job, so one the store hides was let go of (`NoneIsSweptAlive`),
stems in the index are of a job separated to the end (`StemsAreMade`), and a job that is decoding, in line
or on the worker has none there but of a job let go of (`PursuedOnce`): a publish for its track by a job the
store shows would be a second live job of that track. A dozen `Who...` lemmas say which actions can touch
each variable at all, so that a proof visits only those.

*Switch* (`SwitchProofs`). `SwitchSpec => Spec`, as for the server. `SwitchInv` is `CrossedOrAlone` (two threads
run side by side only where a request overlooked one, and then both are `crossed`), `HeldOnce` (a call that is
staged, being built or displaced is so once and has no answer yet), `CallsAreTheThreads` (a thread calls
`install()` while it is loading, and the model that runs is of a call that was told so) and `NamesFollow` (what is
named, keyed and saved follows the model of a switch that ran alone, one step of its thread at a time).
`NamesMatchTheModel` assumes nothing of how fast a thread or the next click is. What it cannot say, because the
code does not see to it, is that the names are those of the model when that model's switch ran beside another;
`crossed` marks those, and the property holds again with the next switch that runs alone.

*Cache* (`CacheProofs`). `CacheInv` is the shape of the state, `KeysAgree` (an entry is indexed under its
own key) and `FilesAreThere` (what the index names is on disk until the directory is wiped); `DirsGo` says what a
removal that stopped half way leaves: directories of entries with the tombstone. Both theorems
assume that nothing is published over an indexed key (`again`), for which they are false. So do
`DiskStaysBounded` and `SweepSparesWanted`, whose `DiskInv` adds `Budget` (what is indexed fits, or is one
track by itself), `OrderAgrees`, `DiskAgrees` and `PartsAgree`. `BytesOf` folds over a set in an order that a
`CHOOSE` fixes, and the induction rules of the library cannot be used here, so its lemmas go by
least counterexample: of the sets for which an equation fails one is smallest, and the equation for a smaller set
refutes it. `SumsAgree`, `SumExists` and `BytesUnchosen` say that the fold is a sum, whichever entry it takes first;
`FewerBytes`, that a part of the index weighs no more than the whole. What rule 2 leaves is then within the
budget because each entry it keeps still fitted (`Rotated`), and after rule 1 it finds nothing, which is `SweepSparesWanted`.

*Track* (`TrackProofs`). `TrackInv` is the shape of the state, `Aligned`, and `CoveredBehind`: behind
the next chunk every sample has a weight. The step needs `StrideWithinChunk` (a chunk reaches at least as far as
the next one begins, when the overlap is not negative) and `PieceInPlace` (the window is shifted by
as much as its output is trimmed). `BarOnlyGrows` rests on `BarInv`, which says how much of which half
the last report was of, and on `QuotientsGrow`: a rounded share does not shrink when what is done grows,
and the first half's whole share is where the second begins. `SeparationsEnd` counts: what a separation has before
it (the frames its half has left, a whole half more while one waits, the flag that may still go up) shrinks with every
step, because a stride below one frame never reaches the chunk loop (`Shape`). That is termination without fairness,
and what `CancelEndsIt` needs besides a thread that goes on.

*Host* (`HostProofs`, `FileProofs`), for any set of launches, finite as `LaunchesAssumption` says, and any plans.

- `EveryPairIsCarried`: both copies of the settings are records, and what comes out of `Reconciled` is
  carried, as there is a rate for every format (`HighestIsCarried`).
- `PortComesFirst`: two launches that hold a port hold different ones (`PortsApart`), and a launch clears a
  directory only between taking its port and serving on it.
- `LaunchesLeaveCleanly`: `QuitInv` follows the guard of the window and the callers of `shutdown::now`,
  `AdvertInv` each record from its registration to the withdrawal, for as long as no launch was renamed without
  being told (`misled`), which no step takes back (`MisledForGood`). The name the responder grants is free
  (`GrantedIsFree`): there are more names than launches.
- `TheFileSurvives`: `SaveInv` says of each thread that it saves or fetches and never both
  (`ThreadsInv`), that what it fetches is not the settings file, and, while no two threads have been in
  `save()` at once, that the temporary is as far as its one writer is and the file as it was last replaced
  (`Alone`). One lemma per way of fetching shows that it leaves the file and its temporary alone (`Leaves`);
  every other step waits, changes, saves or dies (`SaveStepwise`). It assumes that a plan's menus offer presets and that no
  artefact is named for the settings file (`BootAssumption`).
- `FlagsAreForOneRun`: every cell of the file and of its temporary is a document, and each document has a
  format the file or a menu named (`FormatsInv`). That holds of any number of threads in `save()` at once,
  as a handle that writes at its start leaves cells of two documents and no hole.
- `FilesAreAsShipped` and `NothingWholeIsLost`: two threads want one file only if it is mingled (`Apart`), so what
  is not mingled has one thread at it, and `ThreadFiles` says of that thread that the temporary is what has been hashed
  (`StreamOf`, `CopyOf`), that a file it fetches is not there, that those it is to delete are still bad, and that what
  it has gone past is whole (`PresetOf`). One lemma per group of steps shows what the step does to its own
  files (`Own`) and one that nobody else's are touched (`OthersKeep`). `BootAssumption` also says that a library
  which is there before any launch is whole.
- `AudioIsToldApart`: what is loaded is a preset's file or one that was named (`NamesInv`), and among those a
  name, shortened to what the C client's buffer holds, still has its digest behind it. It rests on
  `SpelledAssumption`: a preset's name leaves room for the digest, which the tests of `ident.rs` see to.
- `HostTypes` collects from these what each variable holds.

*An upload* (`PipelineProofs`), for any cases, lengths, limits and loudness that the `ASSUME`s allow. Every step
of `DropsSpec` is one of `Track` or leaves it alone (`UploadsAreTracks`), so what is proved of a track holds of
one that arrived from outside. `UploadsKeepTheirShape` is the invariant the properties follow from:

- `PipeInv` says in each phase what has been made of the current request: it is as `parse` left it
  (`Parsing`), the audio is its decoding and the track has that many frames (`Decoding`), the
  stems are the preset's arrangement of the mix (`Separation`) and the shipped parts their conversion
  (`Conversion`). Each entry is what its key alone says (`AsKeyed`), whoever asked for it; that is why a hit needs no
  look at the request that made the entry.
- `ClientInv` follows the client: it has one request or none, its copy of the audio is the file's decoding, what
  it has fetched is the server's parts with their gain undone, the parts it writes are those and the one it
  rebuilt (`WholeSet`), and each file it has begun is of one of them under their one divisor, whole but for the
  last of a client that gave up (`FilesInv`).
- `DropsInv` says of a drop that copies, or is done, alone in its folder, that what it has copied is there and is its own.
  A second drop of that title marks it on opening the folder, and is marked too if the first is still copying
  (`Apart`, `Disturbs`); nobody else writes there, and a cross that deletes only a part of it marks each drop of that
  folder (`HalfDeletedStep`).

From it follow five theorems, one for each property of the run. `DoorsAgree` compares the body limit, `parse`'s limit and the
client's: a body over the one is a track over the others as long as its frames are whole and its rate is one the limit
was computed for (`TooManyFrames`, `LimitsMeet`). That frames must be whole came out of the proof: a body that is
over the limit by part of a frame is refused for its size, and would have been for being torn.
`AskedIsServed` has two parts: `AsKeyed`, and `SlicesPlace`, which shows that a resampler's slices put each frame where one
thread does, for every length: `Carried` carries a place on exactly (`NextPlace`, by the uniqueness of quotients), and
`Fill`, a recursive function, goes by least counterexample (`FillPlaces`). `NothingIsLost` is an algebra of buffers (`Difference`,
`ThroughFilter`, `SourceIsPart`): what each preset's halves return is a part of the mix with no statistics left on it, so
the remainder and the faders add up sample by sample; the sums over parts and sources are folds again (`IsTally`, for
up to three terms). `GainsAreGivenBack` needs that a gain in whole hundredths undoes exactly (`GainUndone`) and that one
divisor, the same before and after each file, keeps two levels in proportion (`OneScale`, `FilesAgree`), for which `PipelineAssumption` has `Loudness` divide what it is fitted into.
`DoneRowsAreTrue` is `DropsInv` when a row reads done.

*Assumptions.* `PipelineAssumption` and `ClientAssumption` say that the sizes of a case are natural numbers, that a
case with a client has no other request, and that decoding a file gives a stereo pair with frames at some
rate or a refusal. `DropsAssumption` and `BootAssumption` give the sets that plans choose from. TLC evaluates all of them.

*Only model-checked*: liveness, which is out of the prover's reach under fairness (`EveryCallerAnswered`, `EverySwitchEnds`,
`WorkerLeaves`, `AbandonedIsCollected`, `CancelEndsIt`); and that the five disagreements below are real, which is a
matter of one counterexample each. What folds and recursive functions compute is proved where a property needs it
and not in general: the recursive operators of no module are part of a theorem.

## Where the code and its words disagree

Five disagreements have a run each whose counterexample TLC prints (`PROJECT.json` quotes both sides):

1. `server_drop_full`. A dropped file whose `submit` is refused leaves its claimed job registered and
   queued for ever (`drops.rs:298`), although `jobs.rs:230` says the owner "must drive [it] to a terminal
   stage". Later requests for that track join it and wait for ever.
2. `server_hang_up`. The same when a connection closes while its upload is decoded (`api.rs:422`): the
   handler's future is dropped between claim and submit.
3. `switch_stems`. The key of a job names the model of the moment it was posted; the worker
   publishes what the model of the moment it runs made (`api.rs:451`). A switch in between files stems
   under the wrong model, against `docs/internals.md:11`.
4. `client_rebuild`. The client rebuilds the part that was not sent whenever the rates agree
   (`stemd-cli/src/main.rs:271`). A file at 48 kHz asked for at 48 kHz agrees, but its stems went down to
   the model's rate and up again, so what is subtracted does not correspond to what it is subtracted from.
5. `settings_race`. `write()` saves after it has let go of the lock (`settings.rs:261`): of two changes at
   once the older document can be the one left on disk, and one of the two is not saved.

These were met while modelling and are in the models, but have no run of their own; where one of them
would break a property, the property or its run excepts it, as said here:

- a second `stop()` returns true at once, the worker still running (`queue.rs:198` against 165-171); the
  part `WaiterSeesWorkerOut` of `StopIsHonest` therefore speaks of the stop that holds the `JoinHandle`;
- `submit` still accepts a job once shutdown is up (`queue.rs:216`), which nobody will then end or cancel;
- a drop asks the cache before it claims (`drops.rs:287`), the order `docs/internals.md:33` warns of;
  `NothingSeparatedTwice` is checked of decks only;
- a drop that joins a job counts itself in twice (`drops.rs:307` after `jobs.rs:107`), so the last deck's
  `DELETE` never stops it; `WaitersAreCounted` is checked of decks only;
- a drop polls the job it holds and not the store, so one joined to a job that is cancelled in line by the
  last deck polls for ever (`queue.rs:240`, `jobs.rs:155-157`);
- a request that joins between the last waiter's release and the cancel loses its job (`api.rs:535`);
  `HandlesFollowStems` excepts decks that held a job with one that left;
- a repeated `DELETE` counts twice (`jobs.rs:132`) and so speaks for somebody else;
- an entry replaced under its key gets no tombstone (`cache.rs:399`): handles to it stay for ever, although
  `docs/internals.md:53` promises "one lifecycle rather than two that can disagree". A drop gets a track separated beside its stems, and so do decks
  alone: two that leave one after the other, each past its job's last segment, have it published twice, and a
  third that hit the first entry keeps it. That takes three decks, one more than `server` has, and came out
  of the proof; `HandlesFollowStems` excepts the tracks `MadeTwice`;
- publishing over an indexed key removes the files the index still names (`cache.rs:678`); the fault
  `again` of `Cache` lets it happen and `IndexIsOnDisk` then fails, so no run has it;
- a publish that fails leaves its `.part` directory until the next start (`cache.rs:375`), and the bytes in
  it are not counted; `DiskIsBounded` allows that one directory, of an entry that was never stamped, indexed or put in place;
- a directory that cannot be removed stays on disk and out of the count (`cache.rs:511`), although `cache.rs:6` says
  "`max_bytes` bounds the disk"; `DiskIsBounded` allows it for entries with the tombstone;
- the first rule of the sweep works only under pressure (`cache.rs:435`), `docs/internals.md:39` says
  always; `AbandonedIsCollected` speaks of a cache more than half full;
- a new entry's stamp is taken before the lock (`cache.rs:394`), so a hit in between is fresher and the
  new entry may be rotated out as it is inserted;
- two quick clicks can start two switches (`switch.rs:178`), although `request` "Returns false if a switch is
  already in flight" (`switch.rs:174`), and the server may end up naming a model it does not run;
  `NamedModelIsLoaded` excepts a loaded model whose switch was `crossed`;
- a negative `--overlap` separates the whole track and then fails it (`apply.rs:129`); `NeverUncovered`
  is stated for the others;
- of a preset of two files, one missing and one damaged, the missing one is fetched, the damaged one skipped
  because it is there (`download.rs:34`), and the pair loaded as it is, although `startup.rs:348` says
  "Presence is not enough"; `FilesAreThePinned` excepts such files (`unread`), and the next launch hashes them;
- the second caller of `shutdown::now` skips the withdrawal and may `_exit` first (`shutdown.rs:44`);
  `LeavesCleanly` is about a launch that one of them ends;
- a registration that Windows reports without an instance is withdrawn by the name asked for
  (`discovery.rs:642`), which is another's if the name was taken; `LeavesCleanly` speaks of records only while no
  launch has been renamed like that (`misled`);
- a client that cannot write one part leaves the files before it and a cut one (`stemd-cli/src/main.rs:311`); what
  is there is under the scale of the whole set, which is what `LevelsAreKept` says of it.

## Hazards without a property

Real in the code and in the models, but nothing is claimed against them because the code does not prevent them:

- the last bytes of a download: `Hashing::finish` does not notice a `BufWriter` whose last flush failed, so a
  full disk may publish a file short of its end with the right digest; `spilt` marks such files, and the next launch's digest finds them;
- two launches, or a launch and a switch, fetching one file through one `.part` (`download.rs:56`);
  `mingled` marks the files;
- a rate pinned by a flag is lost after a change to mp3 and back (`settings.rs:204`);
- a model re-traced locally shares its published id with the one it replaced, and a preset's id covers only its first file (`preset.rs:159`);
- jobs in line, and drops still decoding, are lost unasked when the window closes (`ui/quit.rs:57`);
- on Windows a registration that timed out may still be answered, and leaves a record nobody withdraws;
- the idle allocator is released at exactly two idle sweeps (`startup.rs:495`): a third never retries;
- two files of one title in a folder share one stems folder: discarding one row deletes the other's files, or some of them, and a
  `stems.json` left by an earlier model keeps gains of stems since replaced (`drops.rs:363`);
- a drop that fails leaves what it had copied; a file picked from the menu never takes the drop zone when
  nothing was shown before (`ui/mod.rs:281`).

## What is not modelled

- *The network and the transforms*: arithmetic on tensors, outside TLC's reach; `Track` has the
  control around them. The repository compares them with reference tensors.
- *The filters' and codecs' arithmetic, the bytes of containers*: `Formats` has what a conversion does to
  frames, channels, rate and level, and where each thread of a resampler puts its slice. Codecs are libraries.
- *The log buffer*: one bounded deque behind one lock; no step of it comes between another's.
- *The window's drawing*: its calls into the queue, the switcher, the settings, the cache and the drops are
  actions of those modules, its close guard is in `Host`.
- *The multicast protocol*, the encoding of a TXT record and the choice of an address: the system's responder,
  or no state. *The delay-load hook and MLX's headers* of `cuda.rs`: the loader's. *The release of the idle
  allocator*: one call with nothing to relate it to.
- *Build, packaging and evaluation*: not part of the running system.

`PROJECT.json` lists every component with what is left out of it.

## Plan

Every safety property of the passing runs has a theorem. What is left to prove is what lies under the liveness
properties, as `SeparationsEnd` does for a separation: that a switch never goes back to an earlier step and that a
caller's wait shrinks, as action properties of `Switch` and `Server`.
