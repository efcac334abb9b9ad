# A verification model of confii-go

confii-go is a configuration library: it loads layered sources, merges them,
resolves references and secrets, and serves the result as one immutable
snapshot that goroutines read while others mutate it. These modules model the
transactions on that snapshot and what surrounds them: the files and the watcher
that feed them, the secrets they resolve, the versions they save, the calls of
`New` that build them, and the values that go in and out. They prove or check what
the library promises about each. `PROJECT.json` lists the runs, the theorems, the
hazards and the source lines of every definition.

## 1. The system

| Component | State | Operations | Interaction |
|---|---|---|---|
| Transaction engine (`config_*.go`) | the published snapshot (`envConfig`, `unresolvedEnvConfig`, `mergedConfig`, `sourceTracker`, `sensitivePaths`), `loaders`, `revision`, `frozen`, `closed`, all under `mu` | `Set`, `Reload`, `Extend`, `RefreshSecrets`, `RollbackToVersion`, `SaveVersion`, `Freeze`, `Close` | reads loaders, hooks and providers without the lock; notifies callbacks after it |
| Override scopes (`config_override.go`) | `overrideStack`, the captured base, `overrideIDCounter` | `Override`, the restore closure it returns | two entry points into the engine |
| Version store (`observe/version.go`) | versions in memory and on disk | save, get, list, diff, evict, reconfigure | called outside the engine's lock |
| Layer loading and incremental reload (`config_load.go`, `sourcetrack/filetracker.go`) | cached layers, dependencies, file fingerprints | select changed sources, load, merge | the preparation of `Reload`; trackers are published with the snapshot |
| File watcher (`watch/`) | watched files and directories, debounce timer | add, replace, stop, event loop | calls `Reload`; replaced under the engine's lock |
| Managed secret resolver (`secret/`) | cache with expiry, calls in progress, closed | resolve, clear, close | called by the secret hook; cleared by `RefreshSecrets` |
| Resolution session, provider router, resource collector (`config_secret_self.go`) | fetches in progress, lazily built providers, owned resources | get once, route, collect, close | one session per materialization; drained by `Close` |
| Hook chain and references (`hook/`) | registered hooks | materialize a leaf | reads the unresolved root and the providers |
| Merge, composition, environments (`merge/`, `compose/`, `envhandler/`) | none | pure functions of trees | used by loading |
| Source tracking (`sourcetrack/tracker.go`) | owner and history of every key | track, snapshot, restore | part of the snapshot |
| Metrics, events (`observe/`) | counters, listeners | record, emit | after every commit |
| Secret stores (`secret/`: memory, environment, chain) | values and their versions | get, set, delete, list, clear | a chain visits its stores one by one, without a lock over the whole |
| Reads and inspection (`config_access.go`, `config_inspect.go`, `diff/`) | the cached typed model | get, explain, schema, docs, redacted copies, drift, typed decoding | read the snapshot, some under two locks one after the other |
| Construction (`config.go`, `builder.go`, `config_options.go`, `selfconfig/`) | options, the settings cache, resources opened on the way | options, discovery, sources, router, first load | ends with a published snapshot or closes what it opened |
| Values (`internal/dictutil`, `internal/typecoerce`, `internal/secretref`) | none | normalize keys, copy, cast, parse references | on every value that enters or leaves |
| Loaders, cloud stores, parsers, CLI | - | input and output | before or outside the engine |

What makes the engine hard is one design: every mutation takes the read lock,
copies the state and its `revision`, releases the lock, works for as long as
loaders, hooks, providers and validators need, then takes the write lock and
publishes only if the Config is still open and unfrozen and the revision has
not moved. Otherwise it starts again from the newest state. Each operation
implements this by itself, with differences that matter:

* `Set` and `Override` materialize their argument once, before the first
  attempt, and rebuild only the rest of the candidate on a retry;
* `Override` and its restore ignore the freeze, the others recheck it;
* `RollbackToVersion` compares no revision, because its target does not depend
  on the state it replaces;
* a runtime candidate that fails validation is retried when it is stale and
  rejected when it is not;
* restore is a whole transaction under the write lock and never validates;
* `SaveVersion` copies under the lock and stores afterwards.

What makes each component correct:

* engine: a call takes effect at one instant on the state it replaces; the five
  views of a snapshot describe one configuration; every commit is announced
  once, and as what it was; nothing is published after a close or a freeze;
* override scopes: any order of restores leaves what the surviving frames and
  the base give; a drained scope leaves no override behind;
* version store: retention, increasing timestamps, one record per save on disk
  and in memory;
* incremental reload: a source that changed is loaded again, a source that did
  not is not lost, and the result is what a full reload would give;
* watcher: a change is eventually followed by a reload that sees it;
* resolver and session: one fetch per reference, the first error is the one
  reported, no value from before a clear comes back, close waits for the calls it
  admitted, nobody waits for ever;
* collector: each resource is closed once;
* secret stores: an outage never looks like an absent secret;
* construction: the call outranks the settings and the settings the defaults, and
  a call that fails leaves nothing open that its registry knows of;
* loading: the merge, the includes, the environment plan and the tracker mean of
  all layers together what the documentation says of them;
* inspection: no view shows a value that came from a secret;
* values: a copy shares nothing with its original, a number that is returned is
  the one that was written, a reference never names another secret.

The hazards are listed with their lines in `PROJECT.json`, each with the
properties that would catch it.

## 2. The modules

| Module | What it is |
|---|---|
| `ConfigData` | the data: flat trees, snapshots, and what each operation computes from them |
| `AtomicConfig` | the abstract specification: every operation is one step, no candidate, retry or lock |
| `ConfigTxn` | the engine and the override scopes, one action per critical section |
| `ConfigTxn_proofs` | what the data operations return; inductive invariant, safety and refinement of the engine, views, override scope, deliveries |
| `IncrementalReload` | which layers a reload reads again, and what the fingerprints say of the others |
| `IncrementalReload_proofs` | no layer lost, none going back; an incremental reload is as good as a full one |
| `Watcher` | the event loop, composed with `IncrementalReload` |
| `Watcher_proofs` | the watched Config is an `IncrementalReload` and inherits its theorems; triggers, stopping |
| `VersionStore` | saved versions in memory and on disk, with crashes |
| `VersionStore_proofs` | order, durability and retention of versions; reads without the lock |
| `SecretResolver`, `SecretSession` | the managed resolver; workers, sessions, router, collector and `Close` around it |
| `SecretSession_proofs` | one inductive invariant of both, and five properties from it |
| `Stores` | a chain of secret stores |
| `Stores_proofs` | an outage is never an absent secret; an inventory is complete or says where it is not |
| `Trees`, `Merging`, `Composition`, `Environments`, `Materialization` | pure algorithms on nested trees |
| `Layers` | one load of the configuration with them, and `Set` with nested paths |
| `Introspection` | what a caller reads out of a loaded configuration |
| `Construction` | options, builder, settings and admission: what `New` decides |
| `SelfConfig` | discovery and cache of the project's settings, with concurrent readers |
| `Creation` | one call of `New` with them, and what it opens and closes |
| `Creation_proofs` | the call outranks the settings, a failed call leaks nothing, the inventory is exact, the cache is current |
| `Startup` | `New` with the load it makes, and its result in use |
| `Decoding`, `References`, `Values` | keys and numbers, secret references, and the journeys of a value through them |
| `Copying`, `Copies` | deep copies, and one more journey: a value that is copied while its owner writes |
| `Values_proofs` | key normalization, typed reads and references, for any documents, scalars and references |
| `MC...` | instances for TLC |

How they compose:

    ConfigData <- AtomicConfig <- ConfigTxn            (refinement)
    IncrementalReload <- Watcher                       (EXTENDS, shared actions)
    SecretResolver <- SecretSession
    Trees <- Merging <- Composition
    Composition, Environments, Materialization <- Layers <- Introspection
    SelfConfig, Construction <- Creation
    Introspection, Creation <- Startup                 (Creation's steps, each with more)
    Decoding, References <- Values;  Copying, Values <- Copies
    VersionStore, Stores                               (on their own)

`ConfigTxn` takes what a reload loads as one full load; `IncrementalReload` opens
that step. They share no state: the first follows the snapshot and every
operation on it, the second the layers and file tracker that only source
transactions touch, with the same snapshot, candidate and revision protocol.

### `ConfigData`

A tree maps every key to a value or `Absent`; a value is a literal, a resolved
secret, an unresolved secret reference or a reference to another key of the
same configuration (`${json:self#key}`, always to `SelfKey`). A snapshot has
the unresolved tree `raw`, the effective tree `env`, the owner of every key
`prov` and the sensitive paths `sens`. `unresolvedEnvConfig` and `mergedConfig`
receive the same value in each of the modelled operations, so `raw` stands for
both. Sections, environments and nested containers are in `Trees` and the modules
above it: here a key is a leaf path, and a source writes leaves.

`Reloaded`, `Extended`, `Refreshed`, `SetPaths`, `RolledBack` and `Replay` are
what the operations compute. `Materialize` applies the hook chain to every
leaf against the unresolved root, `MaterializePayload` to each path of a
payload on its own, with the root of that moment. A reference to a key that is
absent is an error (`Resolvable`). A reference cycle (`SelfKey` referring to
itself) is excluded by the assumption on payloads and sources.

### `ConfigTxn`

`Proc` is the set of goroutines. `pc[p]` is where `p` stands in its call,
`op[p]` what it was asked, `job[p]` its locals: the revision and effective tree
it started from, the materialized payload, the candidate, the loaders, the id of
the pushed frame.

| Action | Code |
|---|---|
| `CallRuntime`, `CallSource`, `CallRefresh`, `CallRollback`, `CallSave` | entry of the call, up to the first release of the lock |
| `MaterializeInput` | `materializeEffectiveValue` before the retry loop of `Set` and `Override` |
| `SnapshotRuntime` | the read-locked section of one attempt of `Set` or `Override`, candidate included |
| `SnapshotSource` | the read-locked section of one attempt of `Reload`, `Extend`, `RefreshSecrets` |
| `Prepare` | loaders, materialization and validation of those three, at one later instant |
| `Validate` | validation of a runtime candidate and `runtimeMutationConflict` |
| `CommitRefused`, `CommitConflict`, `Publish...` | the write-locked section: refused, superseded, published |
| `Deliver` | `deliverCommittedChange`, then the return |
| `Abandon` | cancellation, a failing loader, provider, watcher or store, a dry run, an incremental reload that finds nothing changed |
| `Restore` | the restore closure, one write-locked section |
| `StoreVersion`, `Freeze`, `Close` | as named |
| `EditSource`, `RotateSecret` | the outside world |

A call that is refused at its entry changes nothing; it is a stutter, so the
entry actions are simply disabled. `Abandon` is never fair: a call may fail,
and no property relies on it. `disturbed` is a history variable (has anything
but a push or a restore committed since the last rebuild of the scope?) and
`notified` counts deliveries.

`Prepare` reads all sources and the provider at one instant. In the code the
reads are spread over time; since no other goroutine can see them, and the
candidate depends on whatever values were read, the model loses only mixtures
of two versions of the outside world within one candidate.

### `AtomicConfig`

The promise: one action per operation, on the current state, with lifecycle
checks and validation inside. Sources and providers may answer with any of
their contents, and a value handed to `Set` or `Override` is any of the values
its materialization may give (`Materialized`), since it was computed against an
earlier root. The refinement maps every variable to itself, except that a
version being stored (`Saving`) already counts as saved.

### `IncrementalReload`

`live` is what the Config keeps for reloads: for each loader its composed layer
(`layers`) and the file it included (`deps`), and the `files` (`prints`) and
`untrackable` sets of its `FileTracker`. `job[p].cand` is the private copy a
reload works on. `disk` holds the files, each with its text and the stamp of the
edit that wrote it; a layer keeps both, so that layers have an age.

| Action | Code |
|---|---|
| `Call`, `Snapshot` | `Reload`, the read-locked section of an attempt with the copy of the tracker |
| `InspectSource`, `InspectDependency` | the two selection loops of `prepareReloadCandidate`, one `HasChanged` each: it promotes a vanished file to untrackable (`Looked`) |
| `Decide` | nothing selected: success, without publication or revision check |
| `Load` | `loader.Load` of the next selected source, and the error policy |
| `Compose` | the composer reads the include; an error fails the call or, under a lenient policy, leaves the raw data and no dependency |
| `TrackLayer` | `fileTracker.Track` of the source and its include, and the layer cache |
| `Commit` | the write-locked section: superseded or published |
| `Discard`, `Finish` | validation refused, canceled, dry run; return |
| `Edit` | somebody writes, deletes or restores a file |

The three readings of a file (selection, loader or composer, fingerprint) are
three instants, and edits may fall between them. Abstractions: a text is its own
hash, so there are no collisions and the mtime, which the code does not compare,
is left out; a text includes at most one file and an included file none; the
loaders of `Optional` sources return no data for a missing file, as the file
loaders do under their ignore and warn policies; two fingerprints of different
files are taken at one instant, because an edit between them that could tell
the order commutes with the other. `raced` (files edited while a reload was
running) and `deleted` (includes that were ever deleted) are history variables
that the properties use to say what is promised; no guard reads them.

### `Watcher`

Extends `IncrementalReload`: the reloads are its actions, run by the goroutine
`Loop` or by another caller of `Reload`.

| Variable | Code |
|---|---|
| `loop`, `stopped` | the goroutine of `eventLoop`; its context and `done` |
| `installed` | `c.watcher` and `c.watchCancel` are assigned |
| `triggers`, `dirs` | the watched files, the directories subscribed with fsnotify |
| `queue` | events on their way; fsnotify drops what does not fit |
| `timer` | the debounce timer: off, armed, fired |

`startWatching` is two steps: `Start` subscribes and starts the goroutine of the loop,
`Install` assigns the watcher to the Config, without the lock, while the loop is
running. A reload of the loop that commits in between finds no watcher
(`HasWatcher`) and hands its files to nobody (`AdoptFiles`). `StopWatching` and other
callers need the Config that `New` returns, so they come after `Install`. The
unlocked assignment races with the read of `c.watcher` in the commit; the reader
sees nil or the watcher, which is a commit before or after `Install`.

`ReplaceFiles` and `Stop` are the methods; `Handle`, `Fired` and `Exit`
the cases of the `select` of the loop, which takes none while it reloads;
`CommitWatched` publishes and replaces the triggers in one critical section, and
fails when a directory is refused. `missed`, `blind`, `reverted` and `early` are
history: the files edited when no event could report it, between a reading and its
fingerprint, those whose edit was undone while another reload held the text, and
whether what is published came before `Install` with other files than are watched.

### `VersionStore`

`versions`, `lastTimestamp`, `storagePath`, `maxVersions` are the fields of the
manager, `disk` the files of each directory. A save is `SaveBegin` (stamp),
`SaveWrite` (file), `SavePublish` (memory and eviction), `RemoveFile` for each file
evicted and `Unlock`; every one of them may be the last before `Restart`. The clock
may be set back between any two stamps. `GetMemory` and `GetDisk` are the two halves
of a `GetVersion`, which holds no lock in between. History: `gap` (the version was
gone at some moment of the read), `unscanned` (files older than the manager),
`undeletable` (a removal failed).

### `SecretResolver` and `SecretSession`

`SecretResolver` is the managed resolver: a call enters (`Enter`, the closing check
and the `WaitGroup` under one lock), looks into the cache, fetches, writes the cache,
leaves. `Close` marks, cancels, waits, drops the cache and closes the store;
`once` is its `sync.Once`, on which a second caller blocks. `cleared` is history,
the oldest value that a `ClearCache` left possible.

`SecretSession` runs the workers of `materializeTree` over it: `op` is an operation
with its queue of leaves, values and cause of failure, `session` the entries of the
resolution session (who owns the read of a reference, who waits), `spec` the lazily
built store of a provider with its lock, `collector` the resources `Config.Close`
will close. `backend` selects declared providers or a managed resolver.
`CloseConfig`, `CloseCollect`, `CloseResource`, `CloseReturns` are `Config.Close`.

### Nested trees: `Trees`, `Merging`, `Composition`, `Environments`, `Materialization`

A node is a leaf, a list or a map, a tree a function from keys to nodes, a path a
sequence of keys. `Trees` has get, set, flatten, diff and redaction; `Merging` the
six strategies with their rules by path; `Composition` the directives of a file,
with the files included so far as the visited set, and defaults as maps, as a string
or as "key: value" items (`InlineDefaults` says which leaves are such strings); `Environments` the sections and the
strategies; `Materialization` admission, the hook chain, references and validation,
by a record of options (a plan).

`Layers` uses them for one load, of one goroutine: `phase` goes from loading to
merged, materialized and live, or to failed; `layers`, `writers` and `conflicts` are
what `loadSelected` gathers, `tracker` the source tracker, and `merged`, `raw`, `live`,
`sensitive` the views of the snapshot. `SetKey` writes a nested path into all of
them. The order of concurrent transactions is `ConfigTxn`'s subject.

`Introspection` adds what a caller reads. A drift report copies the values under
one lock and the sensitive paths under another (`copied`), and a typed decoding runs
without the lock and is kept only if nothing was set meanwhile (`decoding`).
`AfterHooks` is the tree that the secret hook meets; `NoSecretShown` takes as secret
what any reference in it resolves to, also one that a hook has put there, provided
it lies under a declared path (`MintedAreDeclared`), as `docs/introspection.md:44-46`
asks.

### `Construction`, `SelfConfig`, `Creation`, `Startup`

`Construction` is what the options of a call do, in their order, and how settings
and defaults fill the gaps. `SelfConfig` is the discovery of the settings with its
cache; an overlay is merged map by map (`MergeSettingsMaps`), and `Parsed` says which
settings are refused. A read is three steps (`StartRead`, `ReadFiles`, `StoreEntry`), between which
other readers, edits, variables and `ClearCache` (`Churn`) come.

`Creation` is `NewWithContext`: options one by one (`Configure`), settings, admission
and router (`Prepare`), sources one by one (`AppendNext`), the loader of the prefix and
the collaborators (`Assemble`), the stores that are asked, and the publication or the
failure at any of these. `scene` is everything the call meets; `open` are the resources
New has opened, `contacted` the providers it asked. What the load computes is left open:
it may ask any provider of the router (`AskProviders`) and end well or not.

`Startup` puts the load of `Layers` in its place, with the hooks and the plan, and then
the use of the result. Its scenes are a catalogue in `MCStartup`. They are two modules
because `Layers` is recursive, which proofs about `New` cannot have in sight. Each
action of `Startup` is one of `Creation` with conjuncts of its own (`AssembleLoad`,
`ResolveSecrets`, `Return`, the first disjunct of `Next`) or leaves the variables of
`Creation` unchanged (`Load`, `Use`), so that its behaviours are behaviours of
`CreationSpec` and the theorems about that hold of it.

### `Values`, `Copies`

Four journeys of a value. In `Values` the keys of a map are normalized in any order of
iteration, a scalar is cast and read by the typed getters on a platform of some width
(both `Decoding`), a reference built by hand is written and parsed (`References`).
Numbers are counted in halves, so that fractions are numbers too. `Copies` adds a heap of
maps, arrays and structs that is copied (`Copying`) while its owner goes on writing to
it. It is a module of its own because the copy is recursive, which the proofs about the
other three cannot have in sight.

### `Stores`

`call` is a call in flight and the store it will visit next: a chain holds no lock
between two stores. A store has current values and versions; in an environment
store two keys may be one variable. `held` is history: what each store has held
during the whole call. A store that is down may answer a listing with a failure, which
is noted, or with a cancellation or deadline of its own, which ends the listing
(`expired`).

## 3. The runs

| Run | Instance | Shows |
|---|---|---|
| `config_txn` | 2 goroutines, 2 calls each, all kinds but overrides, one edit of a source or rotation of the secret | `TypeOK`; `ImplementsAtomicConfig`; `ChangeDescribesCommit`; `EveryCommitDelivered`; `InsertOnlyWhenAbsent` |
| `config_override` | 2 goroutines, 2 calls each of `Set`, `Override`, `Reload`, any restores, frozen or not at the start | `OverrideScopeExact`, `SnapshotCoherent`; `EveryCallReturns` under fairness |
| `incremental` | 2 goroutines, 1 reload each, full or incremental; 2 edits; a mandatory and an optional source that share an include; both policies | `ReloadIsComplete`; `RequiredLayersStay`; `LayersNeverRegress` |
| `watcher` | a source and its include in two directories, 2 edits, the loop and one other reload; debounced, or immediate with a refused directory | `TriggersMatchPublished`, `NothingPublishedAfterStop`; `EditsEventuallyLoaded` under fairness |
| `versions` | 3 saves, 2 directories, limits 1 and 2, one restart, a clock of 2 instants, one failing removal | `RetentionExact`, `ReadsFindRetained` |
| `secrets` | a refresh with 2 workers, or a refresh and a reload of 1 each; 2 leaves, 2 references, 1 provider; both backends | `PublishedConsistent`, `ErrorIsRootCause`, `EveryStoreClosedOnce`, `ClosedHoldsNothing`, `NothingOlderThanCleared`, `NobodyWaitsForever` |
| `stores` | 2 clients, 2 calls, a remote, a memory and an environment store, 2 keys that are one variable | `NeverMasked`, `InventoryComplete` |
| `startup` | one call of `New` in each scene of the catalogue, then up to 2 calls of `Set` | `PlanFollowsPrecedence`, `LoadersInOrder`, `SettingsCurrent`, `InventoryLoads`, `FailedNewLeaksNothing`; `MergeExact`, `ComposedExactly`, `ProvenanceExact`; `SecretsLast`, `PublishedSound`; `NoSecretShown`, `DiffExplains` |
| `values` | every small document, heap, number and reference | `KeysOrderFree`, `CopyKeepsShape`, `TypedReadsExact`, `ReferenceRoundTrip` |
| `rollback_policy` | 1 goroutine, 3 calls | violates `SensitivePolicyRetained` |
| `reload_race` | 1 goroutine, 2 reloads, one source, 2 edits | violates `EarlierEditsSeen` |
| `copy_slices` | the heaps of `values` | violates `CopyKeepsEveryShape` |

### Bounds

* `config_txn`, `config_override`: `MaxOps`, calls begun per goroutine, and
  `MaxWorld`, changes of the outside world. Two goroutines are what a conflict
  needs, and a second call of the same goroutine is what it takes to supersede a
  retry; four pushes give every order of restores of overlapping frames. Two keys
  are enough to tell a stale candidate from a fresh one and to let a validator
  relate two keys (`Valid` refuses one pair). `SelfKey` is one of them.
* `incremental`: `MaxCalls`, `MaxEdits`. Two reloads in flight make one supersede
  the other or find its work done; two edits change a source and its include, or
  delete a file and restore it; the contents of a source (with an include, without,
  malformed, none) let a layer gain and lose its dependency. The theorems cover
  these properties without the bounds. `raced` exempts the files edited during a
  reload from `ReloadIsComplete`.
* `watcher`: two edits break and repair, delete and restore, or add an include and
  edit it. `MaxCalls` bounds the reloads of the loop and is larger than `MaxEdits`,
  so that no event goes unanswered because of it; `UserCalls = 1` is what
  supersedes a reload of the loop. `MaxQueue = 2` holds every event of the run
  (a smaller queue drops events, which the property exempts).
* `versions`: three saves under limits of one and two evict from memory and from
  disk; one restart is enough to leave files no manager knows. Two instants of the
  clock and the stamps beyond them show equal, older and newer clocks.
* `secrets`: two workers share a reference; three stores cannot be needed, since a
  provider builds one and `MaxStores = 2` lets a failed one be built again; a secret
  that rotates once tells old from new. Expiry and the absence of a cache change
  nothing but hits (`CheckCache`).
* `stores`: one call that changes and one that observes; the values initially held
  are arbitrary, so that three stores and one value show every masking.
* `startup`: the scenes bring out one part each, and between them use every option,
  setting, strategy and kind of source that the modules have; `MaxDepth = 3` reaches
  the refusal of deep includes, `MaxSets = 2` a Set over what a Set wrote, `MaxChurn
  = 3` an edit, a variable and a clear in any order between two readers.
* `values`: an int64 of 5 bits and a mantissa of 3 keep the proportions of 64 and
  53: integers that a float64 does not represent, and an int as wide as an int64 and
  a narrower one. A map, an array and a struct that may point at each other give
  every sharing and cycle of three cells.

Symmetry is used for the goroutines of `config_txn` and `incremental`, the
directories of `versions` and the keys of `stores`: no definition distinguishes
them. The runs that check liveness use none. Deadlock checking is off where the
bounds, or a program that has returned, let a run stop; `startup` checks it, since
a call of `New` must get to its end.

### Fairness

* `config_override`: `WF(Step(p))` for every goroutine, that is, the Go scheduler runs
  a goroutine that can run, and loaders and providers return. Nothing is assumed
  about which calls are made or fail. Retries end because each is caused by a commit
  of another goroutine, and calls are bounded: with endless commits by others an
  optimistic call may starve, which the code accepts.
* `watcher`: weak fairness of `Start` and `Install` (`New` goes on), of the loop as a whole (its goroutine runs,
  loaders return) and of the timer. None for the other caller, which may stop in the
  middle of a reload, nor for edits and `Stop`.
* `secrets` needs none: `NobodyWaitsForever` says that while anybody is unfinished
  somebody can take a step of the program; its steps cannot go on for ever, as each
  takes a worker, an operation or a close forward.

### Where code and documentation differ

Shown by a run:

* `rollback_policy`: `docs/versioning.md` says that a rollback retains the
  redaction policy of the restored snapshot. It does, until the next `Set` or
  `RefreshSecrets`, which recompute the sensitive paths from a tree that holds
  resolved values: a value that came from a secret is then shown unredacted.
* `reload_race`: `docs/reloading.md` says that the hash detects a change that the
  mtime does not show. The hash is taken when the file has long been read
  (`config_load.go:119`, then `197`): an edit in between is recorded as loaded,
  and no later reload sees it.
* `copy_slices`: `internal/dictutil/copy.go:26` says that an arbitrary value is
  cloned. Slices are remembered by type and address, not by length: of two slices of
  different lengths over one array both become the one copied first.

Met while modelling. The models do what the code does in each case, and the
properties are stated so as to leave it out:

Transactions and overrides
* A comment in `SetWithContext` (`config_mutation.go:81`) calls materialization
  independent of the current snapshot. A value that refers to the configuration is
  not, and it is not recomputed on a retry.
* `docs/ARCHITECTURE.md:212` says a restore leaves the state of a Config on which
  the frame was never pushed. A surviving frame keeps the value it read through the
  restored one.
* The documentation of `RefreshSecrets` says that a concurrent source change returns
  an error; the code retries.
* A `Freeze` inside an override scope is undone by the next restore. Restore does not
  validate what it publishes, and keeps loaders added inside the scope.
* `Set` does no admission of the references in its value (`config_mutation.go:117`).

Files and reloads
* A layer that was dropped (missing optional file, lenient policy) keeps its
  fingerprint (`config_load.go:147`): when the file is back with the same text the
  loader is not run, there is nothing to reuse, and the source stays out.
* An included file that was deleted is never looked at again, because only a source
  is selected for being untrackable (`config_reload.go:76` and `82`). After a
  composition error under a lenient policy the include is not a dependency, so
  repairing it changes nothing until its source changes.
* `docs/reloading.md:58-59` says that the watcher atomically adopts the files of a
  successful reload. The loop is running before `c.watcher` is assigned
  (`watch/watcher.go:147`, `config_lifecycle.go:139`): an include that its reload
  publishes in between is not watched until the next publication (`early` in `Watcher`,
  which `TriggersMatchPublished` and `EditsEventuallyLoaded` leave out).
* An edit that is undone while another reload holds the edited text is compared with
  the published fingerprint, found unchanged, and lost when that reload publishes
  (`config_source_transaction.go:88`).

Versions
* `evict` counts what is in memory (`observe/version.go:322`): after a restart the
  files of earlier managers are outside the limit until they are listed.

Secrets
* A managed resolver does not share reads in flight (`secret/resolver.go:319`): two
  workers that miss the cache read the secret twice, and two keys of one snapshot may
  hold two versions of it. Declared providers give one read per operation.
* An environment store ignores a requested version (`secret/env.go:56`), whereas
  `secret.go:56` says a store honours it or fails. Distinct keys may be one variable.
* `secret/multi.go:273-277` says that a listing returns what the stores that succeed
  have and wraps each failure. A failure that is a cancellation or a deadline of the
  store's own ends it with that error and the names found so far
  (`secret/multi.go:292`, `expired` in `Stores`); `InventoryComplete` speaks of the
  other endings. A lookup likewise returns such an error as it is, where its comment
  (`secret/multi.go:197-200`) has a `MultiStoreError`.
* A write to several stores that fails at one of them is not undone in the others.

Construction
* `config.go:167` says that resources created before an error are closed. What a
  source factory of the application created is not in the collector
  (`config_source_self.go:45-78`) and is not.
* `ClearCache` during a read lets that read store what it found before
  (`selfconfig/reader.go:264-278`), and the switcher variable is read twice: once to
  select the environment and once for the entry. A cache entry is checked against the
  switcher of the merged settings, which an overlay may have changed.
* The overlay is selected by the trimmed value of the switcher, the environment by
  the value as it is; a switcher named by an option is not used for the overlay.
* `findEnvironmentFile` refuses a directory of the file's name, which the inventory
  of environments passes over. A loader of variables that `type: environment`
  declares is moved to the end when it has the configured prefix.
* `WithEnvPrefix` appends to the slice of loaders of the caller, which may write into
  its array.

Loading, inspection, values
* The intersection strategy takes a nil for an absent key and panics on lists it has
  to compare (`merge/strategy.go:186`, `253-289`).
* `append` and `prepend` wrap what is no list, as their comments say
  (`merge/strategy.go:231`), where `docs/merging.md:56-57` says that the overlay wins.
  `MergeExact` speaks of the paths where every layer has a list.
* `docs/composition.md:203-212` says that a circular include is skipped. The source
  itself is not among the visited files (`compose/composer.go:135`): a cycle back to it
  reads it once more, as an include, and then ends. `ComposedExactly` holds with that.
* `Explain` knows the keys of sections that were not selected, and `FindKeysFromSource`
  and `Layers` match a part of a source's name.
* References that an environment variable or a hook brings in are resolved, but their
  paths are not classified as sensitive. `docs/introspection.md:44-46` asks to declare
  the paths that hooks write to; `NoSecretShown` assumes that.
* `docs/diff.md:40-42` says that diff and drift redact secret-backed values. Values and
  sensitive paths are copied under two locks (`config_observe.go:107-144`): a `Set` in
  between makes a path plain whose old value is in the report. `NoSecretShown` allows
  a report to show exactly the values that such a `Set` has replaced.
* `GetInt` takes the float64 2^63 for an int, as `float64(math.MaxInt)` is 2^63
  (`config_access.go:159`). `GetBool` of "1.0" depends on whether it was cast.

## 4. The proofs

`TypeSafe`, `CandidatesCurrent`, `EngineIsAtomic`, `ChangeDescribed` and
`InsertChecked` hold for any sets of goroutines, keys, values, sources and
payloads and any bounds. They rest on `DataAssumption` (values, references and
`Absent` are distinct, `SelfKey` is a key, no source is named like an
operation) and `TxnAssumption` (payloads and contents are trees without a
reference cycle, a payload is not empty).

The argument:

* The first part of `ConfigTxn_proofs` shows once what each data operation returns
  (`ReloadedType`, `SetPathsType`, `ReplayType`, ...), and that what a payload
  became is one of `Materialized` (`MaterializedPayload`).
* `TypeInv` is the type invariant with two facts it needs: a preparing call is
  of a kind that prepares, and a base is held while frames are active
  (`ScopeShape`), without which the restore would read a base that is not there.
* `CandidateInv` is the heart. For a goroutine `p` whose revision is still the
  current one, the candidate is the operation applied to the live state
  (`RuntimeOK`, `PreparingOK`, `SourceOK`) and `before` is the live effective
  tree (`BeforeOK`). No property is inductive without it: the commit compares
  nothing but the revision. It survives the steps of others because a step
  either leaves the live state alone or moves the revision, which makes `p`
  superseded (`OthersKeep`).
* `EngineIsAtomic` follows: a publication by `p` is the abstract operation with
  the values the candidate was built from as witnesses (`PublishRefines`); a
  restore is the abstract restore; saving takes effect when the snapshot is
  read (`SaveRefines`); every other step is invisible (`OtherRefines`).
* `ChangeDescribed` and `InsertChecked` are consequences of the same invariant.

`Completeness`, `NoRegression` and `RequiredLayersAlways` hold for any loaders in
any order, files, includes, texts, policies, goroutines and bounds. They rest on
`ReloadAssumption`: loaders have distinct sources and positions, sources are not
included, an included file does not include.

* `TypeInv` adds to the types that a goroutine that composes or fingerprints has
  read a text, that an include it has read is the one that text asks for, and
  that only real dependencies are inspected (`ReadOK`).
* `RequiredInv` extends `RequiredLayersStay` to the candidates in preparation.
* `AgeInv` is needed because the revision says nothing about time: what is
  published or read is no more recent than the file, and a candidate of the
  current revision is no older than what is published (`Recent`). Reading the
  file of this moment then keeps both, and the revision check discards the rest.
* `CompleteInv` explains why skipping is right. A fingerprint is that of the
  layer it stands for (`Faith`), in the published state and in every candidate:
  the edits that could come between the reading and the fingerprint are those of
  `raced`. A source that has been looked at and not selected is therefore fresh
  (`OwnFresh`, `IncFresh`), and stays so, as its files are not edited during the
  reload. The last part is the reload that finds nothing to do on a state that
  was replaced meanwhile: the state that replaced it came from a reload that ran
  at the same time and is fresh as well (`rev # revision => Fresh(live, s)`).

`ViewsCoherent`, `ScopeExact` and `DeliveredOnce` add to the engine, on the same
assumptions, what its publications mean. Every step replaces the live snapshot by one
of seven derivations of it (`Replaces`, `Pushes`, `Pops`), or leaves it alone.

* `SnapshotCoherent`, checked under overrides, is proved of every operation. Alone it
  is not inductive: a restore brings back the base with the frames replayed, a rollback
  the values of a version. `ViewsInv` also says that each frame holds what its payload
  was materialized to, and that a version, saved or on its way to the store, holds no
  unresolved reference.
* `ScopeInv` adds to `OverrideScopeExact` that the base was captured outside any
  override; without it the base itself could bring a restored value back.
* `DeliveryInv` adds to `EveryCommitDelivered` that finitely many deliveries are under
  way at any moment, so that the set of goroutines need not be finite.

Under the watcher (`Watcher_proofs`): every step of `Watcher` is a step of
`IncrementalReload` or leaves the Config alone (`WatcherReloads`). `ReloadIsComplete`,
`LayersNeverRegress` and `RequiredLayersStay` hold of the watched Config by this and
nothing else (`WatchedReloadComplete`, `WatchedNoRegression`, `WatchedRequiredLayers`). `TriggersMatchPublished` is inductive
as it stands, the publication before `Install` included, which sets `early` exactly if
it leaves other files published than watched; `NothingPublishedAfterStop` rests on the check of the context in the
write-locked section: no other step of the loop moves the revision.

`StoreInv` (`VersionStore_proofs`, assuming finitely many limits, each at least one):

* `Stamped`: while a save writes, its stamp exceeds every stamp of its manager
  (`Locked`), whatever the clock says. This gives the order.
* What an eviction dooms has as many newer versions as the smallest limit
  (`OldestEvictable`), and keeps them, as versions are only added to `written`
  (`EvictableStays`). `Kept` therefore says of a returned version, the one about to be
  returned included, that it may be evicted, is in memory or in a directory, or was
  kept in memory only by a manager that has ended.
* `FilesKnown`: between the steps of a save a file of the directory is known, being
  published, or doomed. At rest the last two are empty, which is the retention claim.
* `Reading`: a doomed version is not in memory, so that a reader whose version loses
  its file has a moment at which it could not be retrieved.

`SessionInv` (`SecretSession_proofs`) covers resolver and session together, since what
a call of the resolver may do depends on the worker that made it. Its parts are the
types; `Fresh`, which bounds the values on their way into the cache by the last clear;
`CloseOrder`, where each `Close` stands and what is already gone there; `Employed`,
which workers belong to a running operation and which backend they use; `RootCauses`,
that every cancellation met by a worker, call or session entry goes back to the user,
the Config, or a failure already recorded; `StoresKept`, that a store is open exactly
if one of the collector, the closing list or the worker that made it has it; `OneOwner`,
that one worker reads a pending reference; `Aligned`, that what a worker has got and
what is left are the references of its leaf, in order, with the session's values; and
`NoLeafDropped`, that each leaf of a running operation is resolved, queued or in hand. A
step of a worker is one of six turns (it exits, takes a leaf, keeps its values, records
a failure, carries its leaf on, or ends a read: lemma `Turns`), which is what
`OneOwner`, `Aligned` and `NoLeafDropped` are proved by; steps of the resolver and of
`Close` change nothing they speak of.

`SomebodyAlwaysMoves` says for any number of workers, operations and callers of `Close`
that none of them wait in a circle. `SomebodyMoves` is the disjunction of the guards of
the actions of `Progress`, written out, since `ENABLED` is out of the provers' reach;
on the instance of `secrets` TLC finds it equal to `ENABLED Progress` in every state.
Three more parts of the invariant say who is waited for: the lock of a provider is held
by a worker between its factory and the collector (`LocksHeld`), a pending read has an
owner and a call that waits has an entry to wait for (`ReadsOwned`), and `Config.Close`
is where the closers of the resolver say it is (`ClosersInPlace`). A worker then waits
for the owner of a read, an owner for the holder of a lock, a holder for nobody
(`WorkerMovesOn`); a caller of `Close` for the one that got there first, and that one
for calls in flight, which are workers (`CloserMovesOn`).

`ChainInv` (`Stores_proofs`, for any chain of at least one store): a lookup has passed
only stores that did not hold its secret throughout (`GetOK`), an inventory has seen or
named every store it passed (`ListOK`), unless a store's own cancellation has ended it, and what a call remembers as held is still
there (`HeldOK`), which is what ties the history to the stores.

`Creation_proofs`, for any scenes, readers and files. `ScenesAssumption` says of a scene
that its call is a sequence, that variables and files have names, and that a source of
environment files lists the directories it searches.

* `SettingsFresh` from `SettingsInv`: a read depends on the variables only through the
  switcher of its base file (`ReadDependsOnSwitcher`). An entry of the cache is right for
  the value of the switcher it remembers, whatever the variable is now (`EntryRight`); the
  check at the next read uses it for that value alone. Every step of New is a step of a
  reader or leaves the settings alone (`CreationReads`).
* `PrecedenceKept` from `PlanInv`: after any number of options a setting has the value of
  the last one that names it, and only then counts as named (`OptionsTaken`, by
  `OptionEffect`, what any option does); the settings fill in what is not named
  (`SettingsTaken`), and the environment is resolved from that (`Planned`). The switcher
  is followed only while no option names the environment, since `WithEnv` clears it.
* `NewLeaksNothing` from `HoldingInv`: a store that was asked is open until New abandons
  the call, and nothing watches before New has returned.
* `InventoryKept` from `SearchesInv` and `InventoryExact`: wherever settings are kept, the
  directories of a source are a sequence, which has a first that holds a given name.

`Values_proofs`, for any documents, scalars, references built by hand and widths of int.
`NumbersAssumption` is what is used of powers of two, which the provers do not compute;
`ReferenceAssumption` says that the delimiters are tokens and no alias, and
`ValuesAssumption` that a map has a key once and an int is no wider than an int64.

* `KeysInAnyOrder` from `KeysInv`: what the iteration has left behind is sound, has
  distinct canonical forms and is all there; an error has a reason in the document,
  which any order meets.
* `ReadsExact` from `Returned` (what the getters said of the cast value): the float64
  that `CHOOSE` names exists and is nearest, it is the integer itself where that is a
  float64, and beyond the greatest int there is one float64 at most that `GetInt` lets
  pass, which is the edge the property leaves out.
* `ReferencesRoundTrip` from `WrittenOut`: a component without delimiters ends where the
  next delimiter is (`EndOf`), so that each of the three is cut out as it was put in.

Each of these invariants was checked by TLC on the instance of its run before it was
proved.

Only model-checked:

* `EveryCallReturns`, `EditsEventuallyLoaded` (liveness) and `NobodyWaitsForever` as
  stated with `ENABLED` are out of the provers' reach.
* The properties of `Layers`, `Introspection` and `Copies`, and `SecretsLast`, are about nested
  trees and heaps. Their modules reach recursive operators (`Trees`, `Merging`,
  `Composition`, `Materialization`, `Copying`), which the prover does not accept, and
  what these compute for every input needs induction over data. So does
  `LoadersInOrder`, which folds the options of a call and filters its loaders.
* The three violations are counterexamples, found by TLC.

## 5. What is not modelled

* Transactions on nested trees from several goroutines: the interleavings are checked
  on flat keys (`ConfigTxn`), the trees with one goroutine (`Layers`). Replays of
  overrides that skip a nested path are in neither.
* `WithReloadValidate(false)`, which publishes an unvalidated tree on request; what a
  dry run reports; sources without a local fingerprint, which every reload reads.
* Value resolvers (`${file:...}`, `${url:...}`, `${command:...}`, JSON and YAML
  pointers) beyond the self reference of `ConfigData`, and their limits; parallel
  branches inside lists.
* Custom mergers; the reading and parsing of files, the positions of lines, paths of
  includes with variables, symbolic links.
* The rounding of a number that is half-way between two float64: `AsFloat` takes the
  greater one, Go the even one. `TypedReadsExact` asks of a float64 that it is nearest,
  whichever of two it is, and both rules agree at the greatest int, which `GetInt`
  compares with.
* Slices of one array that overlap at different offsets: the heaps of `values` have
  slices of several lengths that start at the same element.
* Registration and panics of listeners, metrics, the text of exports and reports.
* The sections that `AvailableEnvironments` adds to the inventory of files; the
  libraries behind JSON Schema and struct tags.
* Cloud adapters, remote loaders and parsers are vendor libraries or services; the
  command line, examples and tools are sequential clients of the library.

## 6. Plan

Modelled: the engine and override scopes, incremental reload, the watcher, the version
store, secrets, stores, loading on nested trees, inspection, construction and values.

Proved: every safety property of the engine, the override scopes, incremental reload,
the watcher, the version store, secrets and stores, of construction but the order of the
loaders, and keys, numbers and references; that no worker or close of the secret session
waits for ever.

Left, as models: value resolvers with their limits, listeners that panic or register
others, transactions on nested trees.
