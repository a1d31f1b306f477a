# A formal model of simply_ip_sync

TLA+ specifications of the synchronisation daemon in `src/`, model-checked with
TLC on small instances and proved about with TLAPS for every value of the
parameters. Paths below are relative to the repository's `src/` directory unless
they start with `src/`.

## 1. The system

`simply_ip_sync` pulls threat feeds, pushes them in batches to
`simply_ip_vault` servers, and replicates changes between vaults on cron
schedules. One process: an axum server whose handlers, the cron jobs and the
feed fetches are tokio tasks over one SQL database.

| Component | State it keeps | Operations | Interacts with |
|---|---|---|---|
| Batch delivery (`client.rs`, `jobs/mod.rs`, `retry.rs`) | queue of pieces, retry budget | chunk, send, retry, split | remote vault; called by both jobs |
| Inter-vault sync (`jobs/vault_sync.rs`) | `last_sync_at`, the run in flight, `RunningJobs` | load, fetch pages, push, log, set mark | delivery, source and target vaults, task rows |
| External ingestion (`jobs/external_ingestion.rs`, `bogon.rs`) | `last_run_at`, the run in flight | load, concurrent fetch, merge, push, log | feed hosts, delivery, group and feed rows |
| Scheduler (`scheduler.rs`) | job maps, live cron jobs | boot, upsert, remove | called by the handlers after their commits |
| Task, group, feed and vault API (`api/sync_tasks.rs`, `api/sources.rs`, `api/vaults.rs`) | rows and cascades | create, patch, delete, trigger | scheduler, jobs in flight |
| API keys and permissions (`api/keys.rs`, `api/guards.rs`, `api/support.rs`) | key tree, permission rows, owners | create, update, delete (cascade), grant, revoke | authentication, resource handlers |
| Authentication (`middleware.rs`, `replay.rs`, `config.rs`) | replay set, proxy cache and its lock | resolve, verify, check and record | every handler, the resolver |
| Retention (`retention.rs`) | its place in the loop | purge, wait | log tables; started by boot |
| Boot (`main.rs`, `db.rs`, `state.rs`, `master.rs`, `migration/`) | schema and its record, the Master's row, the pin, sealed secrets | migrate, bootstrap, canary, pin, bind, serve | all of the above |
| Parsers, decompression (`parsers/`, `jobs/decompress.rs`) | none | parse, decompress | ingestion |
| Crypto, config, extractors, errors | configuration | pure functions, HTTP plumbing | |
| Entities, web console (`static/`) | | | |

What is hard here:

* *Awaits.* Every job and handler is a sequence of database and network calls
  with other tasks in between, and nothing but `RunningJobs` serialises them.
* *Retries of what may have happened.* A lost answer, a split and a retry of a
  batch that clears the group before it writes.
* *Partial failure.* One feed, one target, one chunk, or the second of two
  statements.
* *Stale reads.* A run works with rows it loaded at its start, a handler with the
  caller as authenticated, an upsert with the row its own handler committed.
* *Crashes and dropped futures.* axum drops a handler whose client is gone; the
  scheduler's state is rebuilt at boot, everything else is in rows.
* *Upgrades without a transaction.* On SQLite and MySQL each statement of a
  migration stands by itself, and the next start meets what a kill left.
* *Shared caches.* A lock held across a lookup, entries that expire while one
  waits for it, mutexes taken one after the other.
* *A clock as cursor.* The high-water mark is this server's time, the filter the
  source's, truncated to seconds.

What makes each component correct: delivery puts every record into the group
exactly as one call would, and reports success only then; the mark never passes
an undelivered record; what is published is what the feeds' own policies keep,
and the log says what happened; the live job is the one the row asks for; a key
deletion takes all of the subtree, only the subtree, and strands nothing; an
upgrade loses nothing wherever it is interrupted, and nothing half-migrated is
served; a process that serves opens what is sealed at rest; every log row past its
window goes in the end; no cached answer is used past its time, nobody but its own
client keeps a request waiting, and a signature is refused exactly while it is
recorded.

## 2. Modules

| Module | Models | Kind |
|---|---|---|
| `GroupDelivery` | what a push to one target group promises its caller | abstract specification |
| `BatchDelivery` | the chunk loops, `post_batch`'s queue, retries, splits | detailed, implements `GroupDelivery` |
| `VaultSync` | one sync task: runs, slot, paged delta, mark, edits, crashes | uses delivery at the grain of `GroupDelivery` |
| `Ingestion` | one destination group: fetch tasks, merge, push, log, edits | uses delivery at the grain of `GroupDelivery` |
| `Scheduler` | one resource's cron job and the handlers that move it | |
| `ApiKeys` | keys, permission rows, owned resources, requests in flight | |
| `Boot` | `run()`: migrations statement by statement, Master, canary, pin, bind; kills, restarts, sealed secrets of keys and vault endpoints | |
| `Retention` | the retention worker beside `Boot` and the writers of the logs | composes with `Boot` |
| `TrustedProxies` | the proxy cache, its lock, the boot task | |
| `ReplayGuard` | the replay set and its sweeps, at the grain of the mutex sections | |
| `RequestAuth` | `auth_middleware` over both, and the clock | composes `TrustedProxies` and `ReplayGuard` |
| `MC*` | instances for TLC | |
| `*Proofs` | theorems and their proofs | |

Names follow the source: `ModeForChunkIndex` is `mode_for_chunk_index`,
`Cutoff` the truncation by `since.timestamp()`, `Daughters` one round of
`collect_subtree`. In each module an action is the code between two awaits (or a
whole handler where nothing can be observed in between), and a variable is a
table column, a piece of process memory or the remote side. `Bad...` operators
next to a definition (and `OneLevel`, `SameLevelAgain`) are the same definition
with a plausible mistake; they are used only to see that a property would notice
it.

**BatchDelivery.** Records are numbered in delivery order. `NextChunk` is the
caller's loop; `PostOk`, `PostRetry`, `PostSplit` and `PostFail` are one request
each with the vault's answer and whether it took effect, so that an executed
request with a lost answer is included. `Finish` is the `Ok` to the caller. A
request takes effect before its answer or not at all, never after the client has
given up on it; the `locked_skipped` count of an answer (`client.rs:109`), records
that the vault refuses to touch and that the caller only logs, is left out.

**VaultSync.** `Start` is `try_start_job`; `LoadTask`, `LoadTargets`,
`FetchPage`/`FetchFail`, `PushOk`/`PushErr`, `WriteLog`, `SetMark` are the awaits of
`run` and `execute`; `Abandon` and `Crash` end a run without its tail (`JobGuard`
frees the slot). `Change` is a sighting or tombstone at the source, `Tick` the
clock, `PatchTask`, `DeleteTask`, `DeleteTarget` the API. A page is cut from the
result as it is when the page is asked for, so pages shift; a record may join the
result or move in it, but none leaves it (a deletion is a tombstone).

**Ingestion.** One `FetchOk`/`FetchFail` per feed in any order, `Join`, then
`Merge` feed by feed in any order with that feed's policy, `BeginPush`, pushes,
`WriteLog` (before `SetLastRun`, as in the code). Feeds, bodies, targets and the group's
settings change at any time.

**Scheduler.** `WriteCreate`/`WritePatch`/`WriteDelete` commit; `Unmap`,
`Unschedule`, `Add`, `Insert` are the steps of upsert and remove; `Cancel` drops a
handler, `Cascade` is the row lost through its source vault, `Restart` is `boot`.

**ApiKeys.** A request is a record that remembers the caller's rights as
authenticated. `PostKey`/`InsertKey`, `PatchKey`/`UpdateKey`,
`DeleteKey`/`Walk`/`ReadInventory`/`DeleteKeys`, `PutPermission`/`CheckGrant`/`Grant`,
`DeletePermission`/`CheckRevoke`/`Revoke`, `PostResource`/`InsertInTransaction` or
`InsertVault`+`Own`, and `DeleteResource`/`RemoveResource` are the handlers cut at
their awaits; `Drop` ends a request anywhere. The audit row comes last: its failure
turns the answer into an error and undoes nothing, so `InsertKey` stands for both
outcomes.

**Boot.** The database is a set of schema objects, the rows of each table and the
number of recorded migrations. A migration is the sequence of its statements;
`Execute`, `Refused` and `Record` run it, with what the engine accepts and does
(`Accepted`, `Executed`) taken from SQL: a duplicate index, a second copy into a
filled table or a missing table is an error, a dropped table on SQLite takes its
children's rows along. `saved` is what a rollback returns to on PostgreSQL.
`BootstrapMasterKey` and `InsertMaster` are the count and the insert;
`VerifyEncryptionKey` samples any row; `Exit` is `exit(1)`, `Crash` a kill,
`Start` a start with the same or an edited environment. `BootScheduler` is
`scheduler.boot` and the spawn of the worker, `Bind` the listener; a port in use is
part of `Crash`. `CreateKey`, `RotateSecret`, `DeleteKey`, `CreateVault`,
`UpdateVault` and `DeleteVault` are the requests that write a sealed secret or take
one away (`DeleteVault` with the targets that the foreign key takes along), and
`RemoveMaster` is the operator's half of the regeneration in `RBAC_MODEL.md:116`,
while the daemon is down. `given` is what the
database held before the first start, less the targets whose vault was deleted. A
secret is the key that sealed it, `None` for a plain envelope; `mixed` records that
a Master was made, or found, beside secrets sealed in another way. `Installed` says
which databases the first start may find: the state between two migrations, or
nothing, with or without a Master and with its secrets sealed in any way;
`BootAssumption` asks this of the constant `Installations`, and TLC
evaluates it on the instances. The canary's branch without a row to sample is not
reachable: the Master is made before it.

**Retention.** `Spawned` is the start of the worker with its immediate first tick,
`Purge`/`PurgeFails` one table of a sweep, `NextTick` the interval; `Boots` and
`Ends` are the daemon's own steps: the worker runs from `BootScheduler` on, before
the listener is bound. A row is its age in days.

**TrustedProxies.** `Resolved` is the read-locked fast path, `Lock` the granted write
lock, `LookedUp` the end of a lookup, after which `Refresh` goes to the next
expired name or rebuilds the snapshot and releases; `Prime` is `prime()` of the
boot task, at first and after the grace period; `Drop` is a dropped future. The
history variables say when the last lookup of a name started (`asked`) and whether
it was cut off with its request (`abandoned`).

**ReplayGuard, RequestAuth.** `Due`, `Capacity`, `Retain` and `CheckAndRecord` are the
four sections of `check_and_record`; a request works with the clock it read before
the first (`captured`). `Authenticate` is the client address and the timestamp,
`VerifySignature` the key's row, the wait for the body and the MAC, `Handled` all that follows the
guard (`bound_ips`, the master check, the handler): it reads only the request's
own row. One clock stands for the monotonic and the wall clock.

## 3. Runs

| Run | Checks | Shows |
|---|---|---|
| `delivery` | `IInv`, `RequestsBounded`, `ImplementsDelivery`, `Terminates` | chunks, retries and splits amount to one call; at most (MaxRetries+1)(2n−1) requests |
| `vaultsync` | `IInv`, `NoSkip`, `HonestStatus`, `MarkNeverRegresses`, `EventuallyReplicated` | the mark skips nothing, with two targets, shifting pages, a failure and an edit, and replication converges once things are quiet |
| `vaultsync_retarget` | `MarkWaitsForAll` (violated) | a target added during a run is skipped |
| `scheduler` | `IInv`, `SerialEditsInSync`, `MappedJobLives`, `NeverTwoJobs`, `EditsTakeEffect` | jobs and rows agree after serial edits and after a restart |
| `scheduler_race` | `EditsInSync` (violated) | overlapping edits leave the wrong job |
| `ingestion` | `IInv`, `Aggregates`, `HonestLog`, `NeverEmptied`, `BogonsNeedConsent`, `EventuallyPublished` | the aggregate, the log and the targets are as the policies say, and the feeds' content is published once things are quiet |
| `keys` | `IInv`, `CascadeComplete`, `GrantsTrace`, `DeletesOnlySubtree`, `DeletionsEnd` | cascades and grants under interleaving; the walk of a deletion ends |
| `keys_race` | `CascadeAlways` (violated) | a creation in flight escapes a cascade |
| `boot` | `IInv`, `NothingLost`, `ServesMigrated`, `MasterSettled`, `SealedFromTheStart`, `Recovers`, `BacklogCleared` | an upgrade interrupted anywhere loses nothing and is never served half-way; one Master, pinned, and two refused; where no Master was made beside secrets of another key, a serving process opens all of them; a later start gets through; rows past their window go in the end |
| `boot_canary` | `CanaryProves` (violated) | a plain Master passes the canary under every key |
| `requests` | `IInv`, `HeadersFromRecentProxies`, `TrustIsRecent`, `LookupsBounded`, `NoEarlyRepeat`, `RefusedOnlyRepeats`, `OnlyItsClientStalls` | the proxy cache and the replay guard under interleaving, expiry, dropped requests and stalled bodies |
| `requests_lookups` | `OneLookupPerInterval` (violated) | a dropped request's lookup is forgotten and repeated at once |

### Bounds

* `delivery`: 7 records in chunks of 3 give a full chunk that splits unevenly and a
  partial last chunk; 2 retries give a retry before and after a split. The group
  holds one record of the run and one foreign record, so upsert and full_replace
  differ.
* `vaultsync`: 2 records with pages of 1, so that one that joins or moves shifts the
  other; the first is a bogon, which counts for the paging and not for the targets.
  Two changes of a record separate a fetched version from a newer one, 2 ticks a
  mark from a later one; 2 targets are needed for a partial failure, 2 runners for
  an overlap. A tick is a second here: the truncation to seconds, which only moves
  the cutoff back, and `skip_bogon_filtering` are left to the theorems.
* `scheduler`: 2 handlers and 3 requests (create, patch, delete or two patches), 2
  schedules, one fault, one cascade, one restart.
* `ingestion`: 2 feeds with different policies, a stale public address, a bogon,
  an empty body, 2 targets, 2 failures and one edit at any point.
* `keys`: four key ids, two requests at a time and three in all, which is what a
  walk, an interfering request and a follow-up take. The server boots on an empty
  database (`Empty`: the Master alone) or on `Owning`: the Master, a parent and its
  daughter that owns a vault endpoint, a sync task of the Master, and one key id
  still unused, so that a creation, a deletion of two levels and the inventory of an
  owned resource all occur. `keys_race` starts also from the full chain of four
  keys (`Established`), and `w` is a destination group there.
* `boot`: the three engines with a database of the version before the audit and
  group migrations (two sources, one target, a vault with a sealed secret, an audit
  row without an address, a log row); an empty SQLite file; one with two Masters
  from before the marker, which the pre-flight must refuse; and one with a key and
  a vault sealed under the first value but no Master. A kill at any statement; one
  change, which is an edit of the environment or the removal of the Master, while
  stops and starts are free. Two values of the variable, unset and malformed; two
  keys make room for the Master and one more row for the canary to pick. One log
  table has a window of a day, ages go up to two, one purge fails.
* `boot_canary`: the empty file, two values of the variable and unset, two changes.
* `requests`: two names and two requests beside the boot task; TTLs of 2 and 1,
  a window of 1 and a clock up to 2 let every entry expire once; the guard is full
  with one signature. Both requests carry the same signature through the proxy.

Counters (`edits`, `faults`, `changes`, `requests`, ...) only bound the runs; the
theorems hold for every value of the bounds. Symmetry is used only where the
set is not named by the configuration and no liveness property is checked.
Deadlock checking is off where the bound on requests, or the end of a push,
leaves nothing to do.

### Fairness

Only steps that the code itself keeps taking are fair: the push (`BatchDelivery`:
every request has a timeout), the awaits of a run (`RunStep`), a live cron job
that keeps starting runs (`Start`), the awaits of a handler (`Step`, `Serve`), the
boot and its restarts by the container (`Boots`), the retention loop (`NextTick`)
and the resolver, which answers or times out (`Answered`). A request's steps are
fair but for `VerifySignature` (`OwnStep`): it waits for the client's body
(`middleware.rs:140`), and no layer of `lib.rs` sets a timeout. Strong fairness is asked
of a purge alone: a daemon that is restarted again and again finishes one now and
then. `WF(OwnStep(r))` contains the write lock's queue, which tokio serves in order. No
fairness on feeds, clients, edits, faults, crashes, drops or the boot task of the
proxy cache, and none on which of
several outcomes a request has: failures end because they are counted, which is
the assumption "failures cease" of the convergence properties.

## 4. What the violated runs show

1. `vaultsync_retarget`: the comment of `jobs/vault_sync.rs:17` says the mark only
   advances when every target succeeds. It does for the targets the run loaded; one
   that `PATCH` adds meanwhile is passed over, and later runs fetch from the mark.
2. `scheduler_race`: `scheduler.rs:2` says changes of `cron_schedule` and `is_active`
   take effect without a restart. Two edits that overlap after their commits can
   leave a live job the row does not ask for.
3. `keys_race`: `RBAC_MODEL.md:126` says a deletion cascades through the entire
   subtree. A key or a vault endpoint that a request of that subtree has in flight
   is inserted after the walk or the inventory and stays, with a parent or an
   owner that is gone (neither column is a foreign key).
4. `boot_canary`: `main.rs:85` and `crypto.rs:203` say the canary proves that the
   configured key is the one the data was sealed under. It opens one row, and a
   plain envelope opens under every key: a Master made before the variable was set
   vouches for any later value.
   The other way to the same end is a regenerated Master (`RBAC_MODEL.md:116`): the
   next start seals a new row before it runs the canary, and if the variable was
   changed meanwhile the canary may open the row just made while the older secrets
   do not open. `mixed` marks these behaviours, and `SealedFromTheStart` leaves them
   out; without that premise `boot` violates it.
5. `requests_lookups`: `config.rs:117` says the negative cache bounds the cost to one
   query per name and interval, no matter how much traffic arrives. The attempt is
   stored when the lookup returns; a request dropped before that leaves none.

Each has a positive counterpart: `NoSkip` for targets that were there
all along, `SerialEditsInSync` for edits that do not overlap, `CascadeComplete`
for deletions that met no creation by a key of the subtree they delete, whatever
other keys create meanwhile, `SealedFromTheStart` for a sealed Master made beside
nothing that another key sealed, `LookupsBounded` for lookups that are not cut off
(the drop is the only excuse). All are proved.

On the replay guard the documents differ among themselves. `NoEarlyRepeat` is what
`API_REFERENCE.md:36` says: no repeat within the replay window. `README.md:37` calls
the cache single-use, which is more than the code does: a signature is recorded for
one window after its acceptance (`replay.rs:61`), while a timestamp ahead of the
server's clock by up to a window (`middleware.rs:54`) is timely for up to two, so a
message of a client whose clock is ahead can be taken twice, a window apart.

## 5. Proofs

For every value of the constants that satisfies the module's `ASSUME`:

| Theorem | States |
|---|---|
| `DeliveryInvariant`, `DeliveryBounded`, `DeliveryRefinement` | `BatchDelivery` holds a prefix, is bounded, implements `GroupDelivery` |
| `VaultSyncInvariant`, `NoSkipTheorem`, `MarkNeverRegressesTheorem`, `HonestStatusTheorem` | the mark skips nothing and never moves back and the logged status is true of the targets, if the source's clock is not behind (`Ahead >= 0`) |
| `SchedulerInvariant`, `MapNamesLiveJobs`, `SerialEditsStayInSync`, `OneJobAtMost` | jobs and rows |
| `IngestionInvariant`, `AggregatesTheorem`, `HonestLogTheorem`, `NeverEmptiedTheorem`, `BogonsNeedConsentTheorem` | ingestion |
| `ApiKeysInvariant`, `CascadeCompleteTheorem`, `GrantsTraceTheorem`, `DeletesOnlySubtreeTheorem` | keys |
| `RequestInvariant`, `SnapshotIsCurrent`, `TrustStaysRecent`, `HeadersAreFromRecentProxies`, `LookupsAreBounded` | the proxy cache, for any names, TTLs (the negative no longer than the positive) and requests |
| `NoRepeatIsEarly`, `RefusedAreRepeats` | the replay guard, for any window, capacity and order of the threads |
| `RetentionInvariant`, `NothingLostTheorem`, `ServesMigratedTheorem`, `MasterSettledTheorem`, `SealedFromTheStartTheorem` | the upgrade and the start, from any database that is `Installed`, any environments and any number of kills |

`DeliveryRefinement` is the refinement `BatchDelivery => GroupDelivery` under the
mapping of `Delivery == INSTANCE GroupDelivery WITH ...`: the group, its content at
the start and the outcome are the same variables, the queue and the retry budget
are hidden.

The arguments, one inductive invariant `IInv` per module, which a run also checks:

* **BatchDelivery.** The queue is contiguous up to `pos`, only the piece that starts
  the run replaces, and the group holds some prefix no shorter than what is
  confirmed. That only the first piece replaces is what makes the prefix survive
  retries and splits. The request bound counts nodes of the halving trees.
* **VaultSync.** `NoSkip` alone says nothing of a run in flight. `RunInv` adds that
  whatever the run's window contains up to the page offset is either fetched in
  its current version or has changed at or after the run started (`Carried`); that
  every target pushed to without failure lacks only such records; and that the
  targets that count were loaded. No record leaves the window, since stamps only
  grow, and one that joins it moves the others to later pages: an offset may meet
  a record twice but never passes one over.
  `Ahead >= 0` is needed for "changed after the start" to mean "stamped after the
  start"; the code does not bound the skew, see the hazards.
  `HonestStatus` speaks of the copies in hand instead of the source's records and
  has its own invariant beside `IInv`: what a run has booked of the targets it is
  done with is true of them (`StatusInv`). It needs `OneRunAtATime`, since a second
  run could overwrite a target after the first had booked it.
* **Scheduler.** Job ids are held by at most one of the map and the handlers
  (`IdsDistinct`), which gives `MappedJobLives` under every interleaving; while
  `clean`, at most one handler is past its commit and `SectionInv` says where it
  stands.
* **Ingestion.** What is merged so far is the union of what the merged feeds keep
  and equals `seen`; what was pushed so far has arrived.
* **ApiKeys.** A collected subtree hangs together below a key the caller may
  administer (`Collected`) and lacks no daughter of a level already read (`Closed`);
  empty inventories stay empty (`Cleared`). The last two hold as long as no creation
  by a key below a deleted one is in flight together with the deletion, which the
  history variable `overlap` records: what the walk collects stays within `Subtree`,
  the least set that contains the deleted key and the daughters of its members
  (`SubtreeClosed`, `SubtreeLeast`), and a key that another one creates joins no
  such set (`SubtreeGrows`). Of the creations left out, `keys_race` shows some that
  escape. `Subtree` follows `parent_key_id` through rows that are gone. `Entitled` and
  `OwnInv` carry the granter's and the creator's entitlement from the check to
  the write; `held` is what keys have ever held, since the row may be revoked in
  between.
* **RequestAuth.** The holder of the lock is where its stage says (`LockInv`), and
  whatever name a refresh has passed could be reused when its request arrived
  (`RefreshInv`): the wait for the later names ages the earlier entries, which is
  why the property speaks of the arrival. `LookupInv` accounts for every lookup that
  started: it is awaited, was cut off, is older than the entry it left, or the boot
  task has cleared the entry and holds the lock. `AttemptInv` ties entries to what
  lookups named and, while every entry is fresh, the snapshot to the entries; a refresh
  that was dropped leaves an expired entry, so the fast path stays shut until
  someone rebuilds. `GuardInv` says that a signature is recorded until a window
  after its last acceptance, or that this time is over by the clock, which no
  captured reading is ahead of; a late thread with an old reading then retains
  more and refuses more, never less.
* **Boot, Retention.** A start that follows a kill runs the migration again from its
  first statement, so two things have to be told apart. `Sound` is what is true of the
  database however the last process ended, whichever statements it had reached:
  the old content is in the old table, the new one or the copy; a copy holds
  nothing but old content, attributed; a table that is not there has no rows; the
  marker keeps a second Master out. `Progress` is what this process's own statements have
  added so far, by position, and is what lets the drops keep `Sound`: the source
  table is dropped only by a process whose own insert into the copy was accepted,
  since a refused statement ends it. `StatementStep` proves both for each statement
  of each migration on each engine, `MigrationStep` that a migration at its end has
  done what `Sound` asks of the next number. `RunInv` then carries the
  Master, the cipher and the pin through the awaits of `run()`. `SealInv` says that
  until a Master is made beside something else all secrets are sealed as it is, in
  the committed rows and in what a rollback returns to: whichever row the canary
  samples, opening it opens them all, and what is sealed later is sealed alike.

Model-checked only: the liveness properties (`Terminates`, `EventuallyReplicated`,
`EditsTakeEffect`, `EventuallyPublished`, `DeletionsEnd`, `BacklogCleared`,
`Recovers`, `OnlyItsClientStalls`), which need fairness.

## 6. Not modelled

* Rotation of a key's token, names, `bound_ips`, read-only handlers: nothing else
  depends on their order.
* `test_fetch`, the extractors, HTTP headers and the bytes of the signature and of
  the sealed envelope.
* `MasterPin::authenticate`, which compares the request's own row with a fresh read.
* `down` of the migrations, which the daemon never runs, and columns that no later
  statement touches.
* Parsing and decompression are an outcome of a fetch: sequential functions over
  text, which unit tests reach.
* Records that leave the source's result between two pages; requests that a vault
  executes after their timeout.
* A change of a task's source vault or source group (`PATCH`); see the hazards.
* The web console, a client of the API.

## 7. Plan

Done, in this order: `GroupDelivery`, `BatchDelivery` and its refinement; `VaultSync`;
`Scheduler`; `Ingestion`; `ApiKeys`; `Boot` and `Retention`; `TrustedProxies`,
`ReplayGuard` and `RequestAuth`; the theorems above.

Next, in order:

1. A change of source in `VaultSync`, which takes a source per run in flight.
2. Operators checked against a reference over bounded inputs: the byte cap across
   archive members (`jobs/decompress.rs`), backoff (`retry.rs`), the bogon
   overlap test.
