# Formal model of imgpull

TLA+ modules for [imgpull](../src/README.md), a resumable image downloader: it
resolves an image reference to a manifest, downloads the config and each layer
through aria2 into `tmp/*.part` files, verifies them, renames them into an OCI
image layout, and only then writes `index.json`. The modules model what makes
that hard: processes that die at any step, tags that move, aria2 tasks that
outlive the process, registries that refuse, redirect and ignore `Range`, and
goroutines that share a token cache, a few slots, one terminal and files on disk.

All line numbers refer to the files under `../src`. `PROJECT.json` maps every
definition to the lines it models.

## Inventory

| Component | State | Operations | Correct when |
|---|---|---|---|
| Plan (`internal/plan`) | `Plan`: tasks with status, URL, expiry, `RangeUnsupported`; `state.json`; `.imgpull.lock` | `Build` (lock, load, store manifest, reconcile each object, save), `Mark*`, `SetTask`, `CommitVerified`, throttled `persistLocked`, `Release` | `state.json` never promises a blob that is not there; nothing resumable is deleted; one process per directory; no crash leaves a directory that cannot be completed |
| OCI layout (`internal/oci`, `fsx`, `verify`) | `oci-layout`, `index.json`, `manifest.json`, `blobs/` | `EnsureLayout`, `WriteIndex`, `WriteFileAtomic`, `Blob` | `index.json` names only complete images |
| `pull` (`cmd/imgpull/main.go`) | none of its own | resolve, build, connect aria2, run the scheduler, assemble, export, deferred `Stop` and `Release` | the steps' order carries the guarantees of the two above |
| Scheduler (`internal/downloader/scheduler.go`, `retry.go`) | slots, one goroutine per object with attempt, gid and poll errors | `Run`, `downloadObject`, `attempt`, `findExistingTask`, `submitAndWatch`, `waitTask`, `verifyAndCommit`, failure classes, backoff | committed means verified; nil means everything committed; `Run` returns; progress is kept; a refused URL is not resubmitted |
| aria2 RPC client (`aria2.go`) | aria2's tasks | JSON-RPC calls with deadlines | a failed, late or lost call is survived |
| aria2 daemon (`aria2.go`) | the `aria2c` process, its port, secret and owner | `StartDaemon` with its startup loop, `Stop` | no pull hangs on it or leaves it behind; nobody uses another process's daemon; the directory's lock covers it |
| Blob URL resolver (`registry/client.go`) | latches `skipHead`, `rangeBlind` | `ResolveBlobURL` with its HEAD and ranged-GET probes, `ProbeRangeBlind` | it returns; a flaky 404 neither latches `skipHead` nor declares a blob missing |
| Authenticator (`registry/auth.go`) | token cache under a mutex | `Header`, `Invalidate`, refresh | a refused token is not presented again; no deadlock |
| Manifest resolution (`registry/manifest.go`, `platform.go`) | none | `ResolveManifestOpts`: retries, timeout, index recursion, platform choice | returns; delivers a manifest the tag led to, for the platform asked for, although the tag moves meanwhile; spends its attempts on transient failures |
| Progress panel (`progress.go`, `progressLoop`) | the rows drawn, a mutex, the live map | `Logf`, `Render`, the final panel | an event line is never erased; no stale rows stay |
| Reference parsing, flag parsing, size formatting, docker-archive export | none | pure functions, a tarball | - |

How they interact: `pull` calls `plan.Build` with the resolved manifest; the
scheduler's goroutines call the plan (under its mutex), the client (latches and
token cache shared by all) and aria2 (RPC). aria2 writes the `.part` files on its
own, and the next `Build` finds whatever it left. The plan's files, and a daemon
that outlives a killed imgpull, are the only channels between one run and the
next. All goroutines print through one `Progress`, `pull` itself past it.

Hard behaviours: a kill between any two file operations; the tag resolved to a
different manifest by the next or a concurrent run in the same directory; aria2
still writing to a `.part` that is verified, renamed or deleted; answers of
`addUri` lost while the task exists; a deadline or cancellation in each of the
waits; a daemon that hangs, dies or loses its port while it starts or stops; a
tag that moves between two requests of one resolution; facts about the source
(`Range` support, expired URL, refused token) learned by one goroutine and needed by another. `PROJECT.json` lists them one by
one as hazards with their lines.

## Modules

    LayoutStore <--implements-- ImageDir    MCImageDir      ImageDirProofs, ImageDirRotProofs

    Download <--implements-- Scheduler      MCScheduler     SchedulerProofs

    BlobResolver ----.                      MCBlobResolver  BlobResolverProofs
                     +--> Registry          MCRegistry      RegistryProofs
    ManifestResolver '

    Daemon ----------.                                      DaemonProofs
                     +--> Pull              MCPull          PullProofs
    Panel -----------'                                      PanelProofs

`ImageDir` and `Scheduler` look at the download phase from two sides.
`ImageDir` covers many runs of several processes on one directory and sees a
download phase only by what it does to the files; `Scheduler` covers one
`Scheduler.Run` in detail, and its `Init` is what `Build` leaves behind.
`Scheduler`'s resolution step stands for `BlobResolver`, which models its inside.
`Registry` is what a pull asks of the registry, in its order: the manifest, then
the blobs. `Pull` is a pull as a process beside others: lock, daemon, terminal;
its `download` place stands for `Scheduler` and is left when `Run`'s goroutines
are done. `Pull` implements both its parts, as `PullProofs` shows, and
`Registry` implements `BlobResolver`'s safety part (`Steps`), as `RegistryProofs`
shows.

### ImageDir

One image directory; a process is an element of `Proc` that may be started again
and again, with any manifest of the tag. `mem[p]` is the process's memory: its
location `pc`, the tasks of the plan (`done`, `blind`), the adopted `state.json`
(`prev`), `recent` for `lastSave`.

| Model | Code |
|---|---|
| `LockImageDir`, `LoadState`, `StoreManifestBlob`, `MirrorManifest`, `ReconcileBlob`, `ReconcilePart`, `SaveNow`, `BuildFails` | `plan.Build` in its order |
| `CommitRemovesCtrl`, `MarkCommitted`, `RemoveOrphanCtrl` | the rest of `commitFile` after its rename, and the second `os.Remove` after a deleted `.part` |
| `ConnectAria2`, `VerifyAndCommit`, `DiscardPart`, `SubmitTask`, `LearnRangeBlind`, `MarkRangeUnsupported`, `RunReturns` | the download phase |
| `SaveFinal`, `EnsureLayout`, `WriteIndex`, `Export`, `ReleaseSaves`, `ReleaseUnlocks` | the rest of `pull` and its deferred calls |
| `Tick`, `Crash`, `Aria2Write`, `Aria2Stops`, `Rot` | the environment |

Abstractions. A `.part` is absent, partial, complete and right (`good`), of the
right size but wrong (`bad`), or too long (`over`); an empty one counts as
absent. aria2 is run with `split=1` and `file-allocation=none`, so a file's size
grows with its content and `good` is final. `commitFile` calls are one at a time
because they hold the plan's mutex. Verification and the rename that follows it
are one step here; `Scheduler` has them apart. A rename or unlink detaches
the file from the aria2 task that writes it. `WriteFileAtomic` either leaves the
old file or installs the new one. A completed rename survives a crash together
with its data (the code does not fsync; see the hazards). The daemon's stop, if
`pull` spawned it, happens in `ReleaseSaves`. `faults` counts crashes, I/O errors,
bad transfers, and discards of a `.part` that a task both listings missed still
writes or has just completed (`Overtaken`), up to `MaxFaults`.

`LayoutStore` is the promise to whoever opens the directory: blobs are only
added, and only a manifest stored with all its blobs is published. `ImageDir`
implements it with `stored` = the valid blobs, `manifests` = the valid manifest
blobs, `published` = what `index.json` names.

### Scheduler

Each object has a goroutine with a location `pc`; `main` is `Run` itself.
`Launch`, `StopLaunching` and `RunReturns` are `Run`; `AcquireSlot` and
`QueuedCancelled` the semaphore; `StartAttempt` to `AddURI` are `attempt`,
`findExistingTask`, `submitAndWatch` and `submitTask`; the `Poll...` actions and
`WatchFile` are one iteration of `waitTask`; `Verify` and `Commit` are
`verifyAndCommit`; `AttemptFails`, `Retry` and `Backoff` the loop of
`downloadObject`. `aria` holds aria2's tasks; `att` says whether a task's open
file is still the `.part` of that name. `Activate`, `Receive`, `Finish`, `Break`
are aria2, modelled from the options and calls the code uses (a second task on one
file is refused with code 11; a `.part` on a source without `Range` with code 8).

Abstractions. The pending objects are a set, launched in any order. Retrying
`submitTask` without unsupported options is part of `AddURI`. A token's or URL's
expiry is a choice at the time of use. The control file `.part.aria2`, which the
scheduler only deletes and never reads, is left to `ImageDir`.
`RemoveDownloadResult` always works: its error is dropped in the code, and only
another goroutine that watches the same task (two objects with one digest) could
tell.

`Download` is the promise to `pull`: while `Run` runs, objects are committed, each
with its complete content in `blobs/`, where it stays; `Run` returns once, `ok`
only if everything is committed and `failed` only if something is not; and no
goroutine, retry or late answer commits anything after that, when `pull` goes on
to write `index.json`, stop aria2 and release the lock. `Scheduler` implements it
with `stored` = the digests whose blob is good, `committed` = the objects marked
so, if the manifest lists no digest twice (`ImplementsDownload`).

### BlobResolver

One goroutine per blob runs `ResolveBlobURL`: `AuthHeader`, `Ping` and
`FetchBearer` are `Authenticator.Header` (the mutex `mu` is held through the two
requests), `Invalidate` follows a 401 or 403, `ChooseProbe`, `HeadProbe` and
`RangeGet` are `resolveBlobURLOnce`, `Pause` the wait between attempts. Any
request may answer anything the configuration lists; `ctx` stands for
cancellation and deadline, `unanswered` for any other way a HEAD can end without
a status: its own timeout, a refused or reset connection, TLS, DNS. `astray` is a
redirect whose `Location` is missing, or bad and left to the code to parse. A new token is one nobody remembers; numbers that are
forgotten are issued again, which keeps the state finite.

### ManifestResolver

`ResolveManifestOpts`: `try` counts the attempts, each of which starts from the
tag again; `path` holds the documents an attempt has fetched, the last one being
the code's `desc`; `tag` is what the tag points to now, `held` what it has
pointed to since the call began, a variable of the properties only.

| Model | Code |
|---|---|
| `GetTag`, `GetFails` | `remote.Get` with the attempt's deadline |
| `Descend`, `DepthLeft`, `SelectPlatform`, `Matches` | the loop over nested indexes, `SelectPlatform`, `matchesPlatform` |
| `Deliver`, `Reject` | `manifestFromDescriptor`, its sniffing of unknown media types and its errors |
| `TryFails`, `RetryableFetch`, `ManifestBackoff` | the attempts, `retryableFetchErr` and the pause between them |
| `MoveTag`, `ManifestCancel` | the registry and the user |

A document is a model value whose `Kind` says what the code's switches tell
apart. A failure has a class: `transient` (5xx, 429, `url.Error`), `deadline`,
`broken` (the connection breaks in the body, which the code does not retry),
`definitive`, `canceled`. A document's digest is its identity: fetched by digest,
it cannot change, as go-containerregistry checks.

### Registry

`BlobResolver` and `ManifestResolver` one after the other (`phase`).
`ManifestDone` is the return into `pull`, where the resolution's locals end.

### Daemon

Several imgpull processes, one pull each; `daemon[p]` is the `aria2c` that `p`
spawned, `port[p]` its port.

| Model | Code |
|---|---|
| `Build`, `NoDaemon`, `ConnectExternal`, `RunReturns`, `Release` | `pull`: the lock, the early ends, `--aria2-rpc`, the deferred calls |
| `Spawn`, `Probe`, `Check` | `freeTCPPort`, the start of `aria2c`, the loop of `StartDaemon` around `GetVersion` |
| `Shutdown`, `Await` | `Stop`: the RPC, the 5 s of patience, SIGKILL |
| `Cancel`, `Killed` | signals to imgpull |
| `Bind`, `Hang`, `Recover`, `Crash`, `Ends`, `Orphan` | `aria2c`, from the options it gets (`--rpc-listen-port`, `--rpc-secret`, `--stop-with-process`) |

A call is carried out only by a daemon that listens on the port and knows the
secret (`Accepts`); any other daemon refuses it, and one that hangs lets it time
out. The 15 s of the startup loop are `MaxProbes` calls, and `Check` may find
them passed at any time. A daemon that got SIGKILL may take a moment to end.

### Panel

The terminal as a sequence of lines: rows of the panel, event lines named by the
goroutine that printed them, and lines that `pull` prints with `log` after `Run`.
`drawn` is `Progress.drawn`; the terminal is written one row at a time, with
`erased` and `frame` the loop counters of `clearLocked` and `Render`. `Lock` to
`Rendered` are `Logf`, `Render` and `clearLocked` under the mutex; `Begin`,
`LogEvent`, `End` an object's goroutine; `Tick`, `LoopEnds` `progressLoop`;
`FinalPanel`, `Close` the end of `Run`; `PlainLine` what `pull` prints next.
`Exit` is the end of the process. A snapshot is taken before the mutex is, and
may give any subset of the objects in flight a row. Lines do not wrap
(`frameLines` keeps them short), and nothing else writes to the terminal.

### Pull

`Daemon` and, for one process `Self`, `Panel`: the panel's goroutines exist while
`pc[Self]` is `download`, and `progressLoop` may outlive `Run` until the process
ends. A cancellation reaches both parts in one step (`SelfCancelled`).

## Runs

| Run | Shows | Bounds |
|---|---|---|
| `imagedir` | `TypeOK`, `IndexComplete`, `StateTruthful`, `ImplementsStore`, `KeepsPartial` over any sequence of runs | 1 process, 2 manifests sharing a layer, 2 faults; 571,000 states |
| `imagedir_rot` | with blobs or `state.json` damaged between runs: the lock keeps what a run reports equal to what is published (`ReportsPublished`), `--verify` repairs what it publishes (`VerifyHeals`), what is published is at least present (`PublishedPresent`), reruns reach a published image again (`Publishes`) | 2 processes with different manifests, 1 layer, 1 fault; 141,000 states |
| `scheduler` | `TypeOK`, `CommitSound`, `ResultSound`, `KeepsProgress`, `ImplementsDownload`, `AttemptsForward` under late and lost RPC answers, leftover tasks, alternate URLs | 2 objects, 2 slots, 2 attempts, 2 failed polls, 1 fault; 1,034,000 states |
| `scheduler_live` | on a source that ignores `Range`, with 2 objects for 1 slot: `Code8ReResolves`, `NoHopelessResume`, `KeepsProgress`, `Termination`, `CancelReturns` | 1 slot, 2 attempts, 1 fault, code 8; 428,000 states |
| `registry` | `ResultFromTag`, `TransientRetried`, `ManifestReturns` for the manifest; `NeverRepeatsRefused`, `NotFoundNeverLatches`, `RefreshExclusive`, `MissingOnEvidence`, `ResolveReturns` for the blobs; `CallsGetNearer` for both; both type invariants | 8 documents, 4 of them tagged, 3 attempts, 2 index hops (4 in the code); 2 goroutines, 2 attempts (3), 2 hops (6); 202,000 states |
| `pull` | `LoneWriter`, `NoneLeft`, `OwnDaemonOnly`, `PullReturns`, `OrphansEnd` for the daemons; `EventsKept`, `PanelWhole` for the terminal; both type invariants | 2 processes, 1 directory, 1 port, 2 probes, 1 kill; 1 object with 1 event line; 126,000 states |
| `imagedir_manifest_json`, `scheduler_alt_url`, `scheduler_auth`, `scheduler_timeout`, `scheduler_repeated`, `resolver_not_found` | the findings below | the smallest instance that shows them |

Why the bounds are enough. Two manifests sharing a layer give every relation
between an adopted, a stale and a foreign `state.json`; the protocol treats
digests independently except through `done`, for which two suffice. Two faults
allow a crash during the recovery from a crash. Two objects with two slots give
every interleaving on the shared latch, aria2's limits and the slots; with one
slot one of them waits. Two attempts contain a first, a retried and a last one;
the counters appear only in comparisons with their limit. The tagged documents of
`registry` are a chain of three indexes (too deep by one), an index whose first
entries are an attestation and other platforms and whose entry for the platform
is an index again, a manifest of unknown media type and one of a known type, so
that each rule of the choice decides a case. In `pull` a single port makes every
spawn a race for it, and one kill leaves an orphan beside a new run; one object's
goroutine, `progressLoop` and `Run` are three contenders for the mutex. The
proofs below remove the bounds for the properties they cover.

Bounds that have no counterpart in the code: `MaxFaults`, `MaxKills`,
`MaxEvents`, `MaxGid` (aria2 tasks ever added; 4 is two objects' two attempts,
each of which adds at most one; only with a leftover task, if all four attempts
submit, is the last cut off), and the sets of answers and codes. `MaxRetries`,
`MaxPollErrs`, `MaxAttempts`, `MaxHops`, `Tries`, `MaxDepth`, `MaxProbes` and
`Concurrency` are the code's own limits, most with smaller values.

Deadlock is checked in every run; `Scheduler`, `BlobResolver`, `Registry` and
`Pull` have an explicit stuttering step for a finished call.

### Fairness

* `imagedir_rot`: a process that runs keeps running, the user starts imgpull
  again, and a live aria2 task some day gets its last byte. README.md:9 asks the
  user to rerun; without the third, no download ever ends. Crashes and damage need
  no fairness and are bounded, so `Publishes` speaks of what happens after them.
* `scheduler_live`: the Go runtime schedules every goroutine (`GoFairness`); all
  its waits have a timer, a context or an RPC deadline. Fairness of aria2 is
  no part of the specification: it is the hypothesis of `Termination`, and
  `CancelReturns` does without it. No task of an earlier run is left here: one that
  is paused and that nobody unpauses would be polled for ever.
* `registry`: each request is answered or times out (attempts have a deadline,
  the HTTP client a timeout), and goroutines run. Fairness of the token mutex is
  not assumed.
* `pull`: processes and goroutines run, each object's goroutine and `Run` in the
  other process end some day (that is `Termination`, which finding 2 refutes for
  an alternate URL), an `aria2c` that starts
  binds its port or exits, one that ends does so, and one that does not hang
  notices that its owner is gone. A daemon that hangs need never recover. The
  mutex of `Progress` is strongly fair to everyone but `progressLoop`: Go's
  `sync.Mutex` hands itself over to a goroutine that has waited for a millisecond,
  and without that `progressLoop` could take it at every tick.

## Proofs

All theorems hold for arbitrary constants under the modules' named assumptions.

`ImageDirProofs`. None of the properties is inductive. `IInv` strengthens them
to `TypeOK /\ Safe`: everyone past the lock holds it; what a process remembers
as committed is stored (`mem[p].done \subseteq Stored`), so that every save is
truthful; the object between rename and mark is stored; from `mirror` to `export`
the manifest blob is valid, and past the download all objects are in `done`, so
that `WriteIndex` publishes a complete image; and no bad blob exists
(`NoBadBlob`), because a trusted blob is only looked at for its presence. From
`Invariant` follow

* `TypeCorrect`, `IndexAlwaysComplete`, `StateAlwaysTruthful`;
* `Implements`: every step is a step of `LayoutStore` or a stutter;
* `PartialsAlwaysKept`: only `DiscardPart` deletes a partial `.part`, and only
  with knowledge that the source ignores `Range`;
* `ReportsAlwaysPublished`: inductive relative to `IInv`, because only the
  holder of the lock writes `index.json` and the reporter holds it.

`ImageDirRotProofs`. Under `RotSpec` blobs need not be valid nor `state.json`
truthful, so `IInv` does not hold. `HealthInv` speaks only of the process inside
the lock: each object it calls committed is stored under `--verify`, and present
otherwise, because it looked at the blob or renamed it since it took the lock
(`done \subseteq Kept`); reconciliation removes a blob only under `--verify` and
only an invalid one, which is not in `done`. Damage is done while nobody is
inside, when `done` is empty. `VerifyAlwaysHeals`, `PublishedAlwaysPresent` and
`ReportsAlwaysTrue` follow. `RotTypeCorrect` is `TypeOK` under damage, inductive
relative to `HealthInv`. `PartialsKeptUnderRot` shares its one argument
(`PartialKept`) with `PartialsAlwaysKept`: the step that deletes a `.part` only
needs `PartFacts`, which both invariants imply.

`SchedulerProofs`.

* `TypeCorrect` needs that `retry` is reached only with attempts left (`LoopInv`).
* `ResultAlwaysSound` rests on `RInv`: what an ended goroutine returned tells
  whether its object is committed, and an object never launched implies a cancellation.
* `CommitAlwaysSound` and `ProgressAlwaysKept` assume `Distinct` (no digest
  listed twice), since they are false without it: see finding 5.
  Between verification and rename the `.part` is `good` and stays so (`SInv`); in
  `verify` it has the object's size (`FInv`), so a partial one is never deleted
  there.
* `Code8AlwaysReResolves`: from the failure to the next resolution the task has
  no URL, and what is submitted then is fresh (`CInv`).
* `NeverHopelessAlone` (also under `Distinct`): a `.part` is resubmitted to a
  source known to ignore `Range` only if an aria2 task on that file, which both
  listings missed or an earlier attempt left, wrote it after the discard.
* `SchedulerImplementsDownload` (under `Distinct`): every step is a `Commit`, a
  `Return` or a stutter of `Download`. It needs the invariants of `CommitAlwaysSound`
  and `ResultAlwaysSound`, and that a committed object's goroutine has ended with
  nil, and every goroutine that was launched once `Run` has returned (`DInv`): what
  commits is thus an object not committed before, while `Run` runs, and what it
  renames is a good `.part` (`SInv`). `OkAlwaysDelivered` follows in the abstract
  module.
* `AttemptsAlwaysForward`: `Stage` numbers the locations of an attempt, and each
  move of a goroutine raises it, or raises the attempt. With `TypeCorrect` that
  bounds the moves of a goroutine by `14 * MaxRetries`; iterations of `waitTask`
  while aria2 is at work leave the location as it is and are not counted.
  `CancelledNeverRetries`: after a cancellation the attempt is not raised any more.

`BlobResolverProofs`. The theorems are about `Steps`, `Spec` without its fairness.

* `TypeCorrect`, and `SkipHeadNeverByNotFound`, a property of steps that needs
  only the types.
* `RefusedNeverRepeated`: once its token was invalidated, the cache does not hold
  the value refused to a goroutine (`NInv`), since a refresh of whichever
  goroutine brings none, Basic, or a token nobody remembers.
* `MissingAlwaysOnEvidence`: between attempts `lastErr` is `notfound` only if the
  attempt just made ended so.
* `RefreshAlwaysExclusive` is inductive, but only as an equivalence: the holder of
  the mutex is inside the refresh, and whoever is inside holds it. From it follows
  `NeverAllWait`: a goroutine that waits waits for one that does not.
* `TokensNeverRunOut`: the model issues the least token nobody remembers. Those
  remembered are fewer than `Token` has members (a cardinality argument: the
  goroutine that asks holds none), so that the guard never disables the refresh.
* `ResolvesAlwaysAdvance`: every move lowers `Stage`, which counts the redirects
  left, or raises the attempt.

`RegistryProofs`. `ResultAlwaysFromTag` rests on an invariant of `path`:
its first document is one the tag has pointed to, and each further one is the
entry for the platform in the index before it. `TransientAlwaysRetried` and
`ManifestTypeCorrect` are inductive with little more; the length of `path` is
bounded because `Descend` stops at `MaxDepth`. `WalkNeverStuck`: the guards of
`Descend`, `Deliver` and `Reject` leave no document out. `RegistryImplementsBlobs`:
each step of the composition is a step or a stutter of `BlobResolver`; its theorems
so hold in the composition (`RegistryTokensAlwaysSound`, `RegistryMissingOnEvidence`,
half of `RegistryTypeCorrect`). The other half, and `RegistryAnswersAlwaysSound`,
need that nothing of the manifest's resolution moves outside its phase, since
`ManifestDone` clears what it knew. `CallsAlwaysGetNearer` joins the two ranks.

`DaemonProofs`. `DInv` joins to the types that a process between `Build` and
`Release` holds its directory's lock, and nobody else does (`LockInv`), and that a
daemon is at work only between `Spawn` and the end of `Stop`, unless its imgpull
was killed (`WorkInv`). `WriterAlwaysLone` and `NeverLeft` follow; `AlwaysOwnDaemon`
is a property of steps and needs only that the secret is known to no one else.
`PullAlwaysRunsDown`: `StepsLeft` counts the probes left in `StartDaemon`'s loop and
the deferred calls after it. Each step of a pull lowers its own count, and no
step of a daemon, of another process or of the user raises anybody's.

`PanelProofs`. `PInv`: who is erasing or printing holds the mutex (`MutexInv`);
what is drawn and what is still to print fits the panel (`FrameInv`); the lines
that would be erased hold no event (`TailInv`, true even when `pull` has printed
past the panel); and, until then, they are all the rows there are (`WholeInv`).
`EventsAlwaysKept` follows from `TailInv`, `PanelAlwaysWhole` from `WholeInv`.
`MutexAlwaysReleased`: `StepsHeld` is the number of rows still to erase and print;
the holder can always take its next step, and only its own steps change the count.

`PullProofs`. `PullImplementsDaemon` and `PullImplementsPanel`: each step of
`Pull` is a step or a stutter of either part; so all the theorems of the parts
hold of `Pull` (`PullAlwaysAlone`, `PullStaysApart`, `PullKeepsTerminal`,
`PullReleasesMutex`, `PullTypeCorrect`). The only invariant needed is that nothing
was interrupted before `Run` began.

Ranks and liveness. A liveness property cannot be proved here, but what bounds the
moves of a process can. `AttemptsAlwaysForward`, `CancelledNeverRetries`,
`ResolvesAlwaysAdvance`, `CallsAlwaysGetNearer`, `PullAlwaysRunsDown` and
`MutexAlwaysReleased` say for all values of the constants that nobody can go on for
ever without getting anywhere; `NeverAllWait`, `WalkNeverStuck` and the
first part of `MutexAlwaysReleased` that the guards let somebody go on. What is left
to TLC is that fairness then makes them go on: `Publishes`, `Termination`,
`CancelReturns`, `ManifestReturns`, `ResolveReturns`, `PullReturns` and `OrphansEnd`
are only model-checked. Each invariant and each other action property of the runs is
stated by a theorem, four of `Scheduler`'s for manifests that list no digest twice;
the violations of the findings are TLC's. That a new bearer token is a new one, and
that an `aria2c` refuses a caller without its secret, are assumptions about the
environment.

## Findings

1. `manifest.json` can keep another manifest (`imagedir_manifest_json`): when a
   tag moves away and back, `storeManifestBlob` finds the blob and returns before
   it mirrors it, against its comment (planner.go:223).
2. An alternate URL is never submitted (`scheduler_alt_url`): after a 404
   `attempt` calls `waitTask` with an empty gid, which watches a file nobody
   downloads; `Run` never returns (scheduler.go:267).
3. An auth failure resubmits the old URL (`scheduler_auth`), against
   retry.go:22 and README.md:166; `isAuthError` has no caller.
4. A timeout of one RPC ends the object at its first attempt
   (`scheduler_timeout`), against README.md:166: the check for
   `context.DeadlineExceeded` (scheduler.go:214) does not tell the run's deadline
   from a call's.
5. A manifest that lists one digest three times can commit a partial blob
   (`scheduler_repeated`): the tasks share a `.part`.
6. Two attempts that fail otherwise and one 404 declare a blob missing
   (`resolver_not_found`): `ResolveBlobURL` returns the last error (client.go:137),
   against the several consecutive verdicts its comment demands (client.go:125).
   The scheduler then turns to alternate URLs.

Met while reading, without a run: `SaveNow` is throttled although documented to
force a write; README.md:14 promises a new directory when a tag moves, while
`RefDir` (reference/parse.go:62) reuses the tag's; README.md:166 promises that
`.part`s aria2 reports as damaged are cleaned up, and retry.go:18 that a `.part` of
the cleanup class (codes 11, 12, 13, 17, 22, 25, 26; retry.go:73) "must be deleted
before the next attempt", but nothing tells that class from the others, and only
`verifyAndCommit` deletes the file it fails on: after one of these codes `Scheduler`
resumes the `.part` as it is, and `KeepsProgress` demands nothing of it (`Condemned`);
`skipHead` is latched by a transport error of any kind (client.go:176), for the rest
of the run, though its comment (client.go:47) names a hang, a 405 and a disproved
404: `HeadProbe` does so on `unanswered`, and later blobs are only probed
differently; a cancelled run waits
for `currentHeaders`, which uses a background context; `SetTask` keeps an old
expiry when the new URL has none; the jitter of `backoffDelay` differs from its
comment; `discardUnresumablePart` does not look whether the `.part` has become
complete meanwhile, so that `KeepsProgress` exempts it; a manifest whose body breaks off is not retried
(manifest.go:157); the orphan of a killed imgpull and the next run's daemon may
write at once, although README.md:18 says the lock excludes that (`LoneWriter`
excepts it, `OrphansEnd` says that it passes); a late render of `progressLoop` may
replace the final panel (scheduler.go:131) or erase lines that `pull` printed
with `log`; a second interrupt is swallowed, and nothing looks at the first while
`Build` hashes or the export writes (main.go:205); a task cancelled during
`tellStatus` is left to an external daemon (scheduler.go:478).

## Not modelled, and the plan

Done in this order: `ImageDir` with `LayoutStore`, `Scheduler`, `BlobResolver`,
then `ManifestResolver`, `Registry`, `Daemon`, `Panel`, `Pull`, their runs and
proofs. What is left:

1. `ImageDir` with lost writes: a crash that leaves a renamed file short, as
   without fsync. `RotSpec`'s damage between runs comes close to it.
2. Pure functions of the command line and of answers: reference and flag parsing,
   `parseProxy`, `parseChallenge`, `parseURLExpiry`, the numbers of
   `backoffDelay`. They keep no state; the models take their results as given, or
   as a choice.
3. Proofs: that `ImageDir`'s processes, too, only use up what they have to do
   between two faults (the ranks above stop at the scheduler's, the registry's and
   the daemon's parts), and the relation of `Scheduler!Init` to `Build`'s end as a
   theorem rather than by hand.

`Scheduler` over the files of `ImageDir` was considered and left out: their
product is beyond TLC for any instance in which both do something, and the two
are tied by hand instead. Each file action of `Scheduler` is one of `ImageDir`'s
download phase (`Commit` is `VerifyAndCommit`, the discards of `StartAttempt` and
`SubmitAndWatch` are `DiscardPart`, `Receive` is `Aria2Write`), and `Scheduler!Init`
admits every `.part` that `Build` leaves: none, a partial one, or a complete one whose
rename failed; a wrong or overlong one is deleted (an `os.Remove` that fails is in
neither module) or comes about when a leftover task goes on writing (`Receive`).

Left out for good: JSON-RPC and HTTP encoding, log texts, the panel's numbers and
size formatting, log lines on a pipe, the tarball that go-containerregistry
writes, the keychain.
