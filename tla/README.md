# Verification of cloudillo-rs

TLA+ models of the server in this repository, TLC configurations that check
them on small instances, and TLAPS proofs of what matters most for every
instance. Paths are relative to the repository root; `scheduler.rs` is
`crates/cloudillo-core/src/scheduler.rs`.

    tlc -workers 2 -config MCKeyed.cfg MCKeyed      # one run
    tlapm OneBody_proofs.tla                        # one proof module

## 1. Inventory

Cloudillo is a multi-tenant server for self-hosted collaboration: a Rust
workspace of feature crates (`crates/cloudillo-*`) over storage adapters
(`adapters/*`), started by `server/src/main.rs` with **one** tokio worker thread
(`worker_threads = 1`), a blocking worker pool and a bootstrap that runs on the
main thread. Slow or deferred work of all features goes through one persistent
task scheduler; live documents go through in-memory registries behind
WebSockets; servers talk to each other by signed action tokens delivered
through the scheduler.

| Part | State it keeps | Operations | What makes it hard | What makes it correct |
|---|---|---|---|---|
| **Task scheduler** (`scheduler.rs`) | four maps: running, waiting, scheduled, dependents; a finish channel | schedule (keyed, with dependencies, retry, cron, run-on-startup), dispatch, run, retry, finish, rerun, load | futures interleave at every await; a request for a running task; failures of the store; restarts | one body per task, no lost task, no lost request, dependencies before dependents, retries bounded, recurring tasks recur |
| **Task tables** (`meta-adapter-sqlite/src/task.rs`) | `tasks`, `task_dependencies` | create, update, mark finished / failed, find by key / completed, list | several statements per operation, one writer connection, stale reads | a pending row exists until its task ends |
| **Start-up** (`main.rs`, `app.rs`, `bootstrap.rs`) | registered task builders | register, start scheduler, bootstrap, serve | bootstrap schedules from the main thread while the worker loads | as above, with main-thread callers |
| **CRDT documents** (`cloudillo-crdt/src/websocket.rs`, `crdt-adapter-redb`) | registry of live documents, broadcast channels, update log | open, sync, update, awareness, close, compact | the last close races a reconnect through a grace period; the log is rewritten from memory | no stored update disappears, all subscribers converge, one live document per id |
| **RTDB documents** (`cloudillo-rtdb`, `rtdb-adapter-redb`) | presence rooms, cached instances with a barrier and a channel, transactions | query, transact, subscribe, compact, evict, presence | a dropped transaction's blocking half, a compaction that needs the file alone, joining before reading | reported commits stay, subscribers see them, rosters agree |
| **Actions and federation** (`cloudillo-action`) | actions, tokens, relations between profiles | create, finalize, deliver, receive, verify, hooks (CONN, INVT, SUBS), history sync | messages lost, repeated, reordered; two nodes changing one relation; attachments as task dependencies | each action applied once, both sides of a connection agree, nothing delivered before its attachments |
| **Files and blobs** (`cloudillo-file`, `blob-adapter-fs`) | file rows, variants, blobs | upload, generate variants, finalize id, delete, sync, collect garbage | an id that is the digest of what tasks produce in any order; twins, deletions and restarts; collection against new references | a live file's id fits its variants, no file without id, no referenced blob is deleted |
| **Worker pool** (`cloudillo-types/src/worker.rs`) | three priority queues | spawn, run, panic, shut down | disconnected queues with jobs left, a panicking job | each accepted job is answered, threads end with the pool |
| **Rate limiter, proof of work** (`cloudillo-core/src/rate_limit`) | buckets, bans, penalties | check, penalize, decay, ban | limits, eviction, concurrent counters | a ban holds for its time, counters stay bounded |
| **Search** (`cloudillo-search`) | index rows | debounce, index, sweep, trash | an edit arriving while its index run is under way or throttled | at rest the index holds what the file asks for |
| **Sites** (`cloudillo-site`) | documents of a site, the cached entry that serves it | publish, roll back, mount, configure, rebuild, patch | patches and rebuilds that overlap at every read | the entry serves what the tables hold |
| **Calendar, contacts, DAV** (`cloudillo-calendar`, `-contact`, `-dav`) | collections and rows stamped with a second | PUT, DELETE, split, sync-collection | a token of a second, deletions, truncated pages | a client misses no change |
| **Authentication** (`cloudillo-auth`) | QR login sessions, accounts, tokens | open, poll, approve, deny, expire | phones and polls that overlap | a denial stands |
| **Settings** (`cloudillo-core/src/settings`) | rows per tenant and global, a cache | get, set, clear | gets and writes that overlap, inherited values in the cache | the cache serves what the rows resolve to |
| **Onboarding** (`cloudillo-profile/src/register.rs`, `cloudillo-core/src/acme.rs`) | a tenant's certificate, the marker of a deferred mail | register, retry, renew, hook | retries, renewal and registration race | the welcome mail is neither lost nor sent twice |
| **Identity provider, references, profiles, e-mail, push, access rules, proxy, administration, extraction** | rows of their own | request handlers | mostly sequential over one row; counters and caches here and there | see `PROJECT.json`, one note per part |

How they interact: every feature crate calls `Scheduler::task(..).schedule()`;
tasks run on the async worker and may schedule more tasks; the file pipeline's
variant tasks are dependencies of a file-id task, which is a dependency of an
action-creation task, which schedules deliveries. The scheduler talks to the
meta adapter only, over a pool with a single writer connection
(`meta-adapter-sqlite/src/lib.rs:73-75`). Registries of live documents are shared
between WebSocket futures behind `RwLock`s.

`PROJECT.json` lists every part with its status, and under `hazards` each place
where the code is exposed to something a test would hardly reach. The
scheduler is first because every other protocol stands on it.

## 2. Plan

Order of work; a module is written so that it can be both checked and proved
about (constants with named assumptions, one action per operation, no RECURSIVE
operator, invariants as conjunctions of named parts).

1. **Scheduler and store** — sections 3a, 4 and 5.
2. **CRDT documents** — sections 3b, 4 and 5. Left: awareness ownership
   (`websocket.rs:840-1075`) as a module of its own.
3. **Federation** — section 3c: the action table, the CONN handshake, token
   verification, the worker pool. Left: the INVT and SUBS hooks and the DSL
   interpreter over the same table, history sync, fan-out.
4. **Services** — section 3d: presence, the RTDB store, search, drafts, the
   blob collector, sites, DAV, QR login, settings, uploads, onboarding. Left:
   the rate limiter, the identity provider, references and invitations, profile
   refresh.
5. Pure algorithms against a reference: back-off with saturation, next
   execution and "spent" cron entries, permission decisions.
6. Proofs — section 5. Every invariant that a passing run checks has a theorem but
   for `NeverStuck`, which speaks of `ENABLED`.

## 3a. The scheduler modules and the code

    TaskQueues <- TaskStore <- Scheduler <- SchedulerProperties <- MCKeyed, MCDeps, MCCron
                                                 |  refines
                                                 v
                                            TaskLifecycle

| Module | Code | State and actions |
|---|---|---|
| `TaskQueues` | the four maps of `struct Scheduler`; `add_queue`, `check_and_resolve_completed_deps`, `remove_from_queues`, `release_dependents`, `clear_rerun_request` | operators from queue states to queue states. Maps are total functions with `None` for no entry; `task_dependents` is a relation |
| `TaskStore` | `MetaAdapterTaskStore` and `meta-adapter-sqlite/src/task.rs` | the table; one operator per statement that changes it. What an operation does *not* write is as important as what it does: `create_task` has no column for the retry policy and `next_at` |
| `Scheduler` | `schedule_task_impl`, `start` (dispatcher and finish handler), `spawn_task`, `load`, `load_one` | callers, bodies, finish handler and loader with a program counter each, between awaits; the store as a queue of writes and a set of queries in flight |
| `SchedulerProperties` | — | invariants, liveness, fairness, refinement mapping |
| `TaskLifecycle` | — | the abstract specification: create, start, stop, finish, fail, restart |

Decisions that make the model what it is:

- **Atomicity.** One worker polls every future, so the code between two awaits
  is one action, locks included. Bootstrap is the exception: it schedules from
  the main thread after the scheduler has started (`bootstrap.rs:240`, called
  after the start in `app.rs`). A caller in `MainCallers` takes one action per
  lock it takes.
- **The store.** One writer connection, first come first served, kept until the
  future that uses it goes on. So a write has three moments: issued, in effect
  (`WriteEffect`, readers see it), returned. A read (`find_completed`) uses
  another connection and may return when its answer is stale. `find_by_key` is
  a read whose answer the caller keeps (`pc = "found"`) while others act.
  Transactions and single statements are atomic; `mark_finished` is two
  statements and two writes here, `add` with a cron expression too.
- **Failures.** A write may fail (the connection returns an error, the row is
  unchanged), a body may fail with a retryable or a permanent error, the
  process may stop between any two actions (`Crash`): memory is gone, tables
  stay, the loader starts again. An input no registered builder accepts
  (`Unbuildable`), or one that another kind left in the row (`Buildable`), is
  skipped by the loader.
- **Keys and kinds.** `KindOf` gives each input its task kind. `find_by_key` looks
  for the key of pending rows whatever their kind, the unique index is over both:
  a request may find, refresh and take over a row of another kind
  (`FindByKey`, `CanCreate`), and then waits for what that row is asked to wait for,
  itself included. Dependencies are ids that the callers looked up by kind and
  key (`list_task_ids`), so no request names the row of its own kind and key.
- **Time** has two values: *now* (due) and *later*. The dispatcher may take an
  entry of either slot; when a later entry falls due is not constrained. This
  over-approximates every clock, so safety results do not depend on durations.
  Cron expressions have a next occurrence, have none left ("spent", as for a
  date that never comes) or are absent.
- **Data.** Inputs are values compared for equality, keys a small set, retry
  policies a number of retries.
- **Bounds.** `MaxRequests`, `MaxCrashes`, `MaxFaults`, `MaxMishaps` (crashes
  and faults together), `Lanes` (bodies one id can have; the code has no
  bound), the number of `Ids` (a create past it fails like one the unique index
  refuses), `EarlyRequests` (whether requests may come before the loader is
  through).
- **History variables** (`asked`, `ended`, `owed`, `counts.lost`) record what was
  asked for, which runs ended, and which accepted requests a restart could not
  keep; no action reads them to decide what to do. `owed` stays over a restart
  when the row holds the input of the request, which is what the next start has.

Operators called a *faulty variant* in the modules are plausible bugs. No
specification uses them; substituting one for the definition that follows it
makes a named property fail, which shows that the property depends on that code
(`mutants` in `PROJECT.json`).

## 3b. The CRDT modules and the code

    CrdtLog <- CrdtDocs <- CrdtDocsProperties <- MCCrdt

| Module | Code | State and actions |
|---|---|---|
| `CrdtLog` | the table and the number counter of `crdt-adapter-redb/src/lib.rs` | a log is a set of `<<number, update>>` rows; operators for the next number, an insert (which overwrites a row of the same number) and a compaction |
| `CrdtDocs` | `handle_crdt_connection` and what it calls in `cloudillo-crdt/src/websocket.rs`, over `get_updates`, `store_update`, `compact_updates`, `compact_storage` | the registry entry and its write lock, a live document per DocState, a record per connection (program counter, unread messages, broadcast receiver), the clients' replicas |
| `CrdtDocsProperties` | — | invariants, fairness, liveness |

A connection goes `lookup` (read lock) → `lock` (write lock, second look) →
`load` → `loaded` → `init` → `inited`, then `joined` → `greeted` → `open`; an
update takes it through `store` and `stored` back to `open`; the close through
`closed` and `grace`, for the last one on through `optimize`, `merge` and
`compact`. One document is modelled: documents share only the lock of the
registry and the file.

- **Atomicity** is that of the scheduler models: what a future does between two
  awaits is one action. Database work runs on the blocking pool, so a write has
  two moments: its number is taken (`IssueWrite`), and it takes effect
  (`WriteTakesEffect`). The registry's write lock is held over `load_or_init_doc`,
  so `locked` is state; every other use of the lock lies between two awaits.
- **Numbers.** A call that finds no cached instance waits for the file and then
  creates one. The wait is over at once unless `compact_storage` has the file;
  then the call stays at `NoCounter` until `SeedCounter`.
- **Data.** An update is the set of edits it carries; edits are independent, so
  applying is set union (`yrs` updates commute and are idempotent). The
  initial update carries no edit. Whether a merged state is smaller than the
  updates it replaces is a free choice (`OptimizeSkips`).
- **Clients** are y-websocket peers, external to this repository: they keep
  their replica across connections, send SyncStep1 on open, answer the
  server's, send an update per edit, and read in order. A client has one live
  socket; the server may still serve its previous one. What was under way when
  a socket breaks may or may not have arrived.
- **Receivers.** A connection counts as a receiver while `tasks` holds. The two
  broadcast tasks are one flag: they are subscribed together and aborted
  together, and both can end early when sending fails.
- **History variables**: `acked`, the edits broadcast as stored, and `races`,
  which of three overlaps have happened; no action reads them. The invariants
  `AckedStored` and `OneLiveDoc` say what holds as long as the overlap in
  question has not occurred, and the next section what happens when it has.
- **Bounds**: `MaxOpen` connections served at once, `Conns` in all, `Capacity`
  of a channel, `MaxCrashes`, `MaxFaults`, `MaxSweeps`, `MaxIncidents` (those
  three and the connections made, together).

## 3c. The federation modules and the code

    ActionTable <- Handshake <- HandshakeProperties <-+
                                TokenVerification   <-+- MCFederation
                                WorkerPool          <-+

| Module | Code | State and actions |
|---|---|---|
| `ActionTable` | `create`, `finalize`, `get_by_key`, `update_data` of `meta-adapter-sqlite/src/action.rs` | operators on a sequence of rows: a pending row, a received row, the guard of `finalize`, the rows a new action of the key supersedes |
| `Handshake` | the CONN hooks (`native_hooks/conn.rs`) and the tasks around them: `ActionCreatorTask`, `ActionDeliveryTask`, `ActionVerifierTask`, `process.rs`, `post_store.rs` | per node the action table, what it keeps of the peer's profile, its pending tasks. A user asks, accepts, rejects or ends; a restart sends every task of a node back to its beginning; an answer may be lost, so a delivery is repeated |
| `HandshakeProperties` | — | consent, one live action, liveness |
| `TokenVerification` | `verify_action_token` (`process.rs:109-260`) and `key_cache.rs` | per token where its verifier is and what it has read; the issuer's published key, our cached key, the cached failure; rotations and outages |
| `WorkerPool` | `cloudillo-types/src/worker.rs` | three queues with their senders, threads that serve some of them, jobs that may panic |

- A node's pending tasks are a set: two verifier tasks of one token that have
  come to the same step are one. The statements of `create` for a received
  action are taken as one.
- A token is the node that signed it and a number; signatures are checked in
  `TokenVerification`, not in `Handshake`.
- `Scenarios` bound what the users do: which modes, who acts how often, and
  whether a restart or a lost answer may happen. They are chosen at the start
  and part of the state, so one run goes through all of them. The theorem about
  the module holds for any set of scenarios.
- `lapsed` is history: it marks the overlaps the code does not exclude (section
  "Seen while modelling"), which `Consented` excepts.

## 3d. The service modules and the code

All are extended by `MCServices`.

| Module | Code | What is in it, and what stands for more |
|---|---|---|
| `Presence` | `cloudillo-rtdb/src/presence.rs`, the session loop of its `websocket.rs` | rooms, members, one queue per watcher; a removed room is an object that may still have an owner. One document |
| `RtdbStore` | `rtdb-adapter-redb/src/lib.rs`, `transaction.rs` | the barrier (readers or one compactor, first come first served), permits, the writer of redb, the cached instance and its channel. A transaction adds one to a counter, so a lost update shows |
| `SearchIndex` | `cloudillo-search`: `indexer.rs`, `objects.rs`, `reindex.rs` | the keyed tasks of a file's own row and its deep parts, the throttle, a sweep, the trash. Clock ticks up to `MaxTime` |
| `Drafts` | `create_action`, `DraftPublishTask`, the handlers of `cloudillo-action/src/handler.rs` | one draft: save, edit, schedule, cancel, publish, delete, each a look and a write; the task left behind |
| `BlobGC` | `cloudillo-file`: `gc.rs`, `sync.rs` | a remote file several tenants hold, its shared blob, the two sweeps with their lists and second looks; days |
| `Sites` | `cloudillo-site`: `cache.rs`, `handler.rs` | documents with two generations, the entry, rebuilds and patches step by step |
| `DavSync` | `caldav.rs`, `carddav.rs`, `meta-adapter-sqlite`: `calendar.rs`, `contact.rs` | the rows of one collection, one transaction at a time with the second it stamped, a client with its token and pages |
| `QrLogin` | `cloudillo-auth/src/qr_login.rs` | one session, phones, polls with two looks around a wait, expiry |
| `Settings` | `cloudillo-core/src/settings/service.rs`, `setting.rs` | one key: rows per level, cache entries, gets between their reads, writes between row and invalidation; an entry may be evicted at any time (the cache is shared by all keys) |
| `Uploads` | `handler.rs`, `image.rs`, `descriptor.rs`, `file.rs`, `collect_file_deps` and `resolve_attachments` of `task.rs` | file rows with their variants, variant tasks, the id task with the statements of `finalize_file`, a post and its creator task. Two uploads carry one content or two |
| `Onboarding` | `register.rs`, `welcome_hook.rs`, `bootstrap.rs`, `acme.rs` | the registration, three early retries, the renewal task, the marker, the mail task |

What is between two awaits is one action, as before; database statements are
atomic and take effect when they are issued, except where a module says
otherwise (`RtdbStore`, `DavSync`). Tasks are those of the scheduler, taken
from its specification: a keyed request moves a pending task, of another kind with
an equal key too (`Uploads`), a restart starts a task again from its beginning and
forgets the time it was to start at (`Drafts`), a dependent starts after its dependencies.

Several invariants except an overlap that the code does not exclude, named by a
history variable (`lapsed`, `excepted`, `overtaken`, `crossed`, `timed.lost`,
`missed`, `stale`, `tainted`, `clashed`, `post.shares`, `forgone`, `doubled`) which
no action reads. Each one is set at the step of the overlap and nowhere else;
section 4 lists what happens then.

## 4. Runs

All with `CHECK_DEADLOCK FALSE`: requests are bounded, so an instance comes to
rest when all asked-for work is done.

| Run | Instance | Shows |
|---|---|---|
| `keyed` | 2 ids, 2 callers, 3 requests for one key with 1 retry, the body may fail, 1 crash or 1 failed write, 2 lanes, requests during load; 1.7 million states | `TypeOK`, `OneBody`, `QueueExclusive`, `QueuedMetaSound`, `PendingCared`, `RequestHonoured`, `RetryBudget` |
| `deps_join` | 3 ids, chain and join of keyless tasks, one of a kind unknown to the next start, 1 crash; 270 thousand states | `WaitingReleased`, refinement `ImplementsLifecycle` |
| `deps_retry` | 2 ids, a failing task and its keyed, retried dependent, asked for again without the dependency, or by a task of the first kind with an equal key, 1 crash; 563 thousand states | `DepsBeforeStart`; under fairness `PendingEnds` |
| `cron` | 2 ids, one recurring task registered three times by the worker and the main thread, its runs fail under one input; 55 thousand states | `CronRowPending`; under fairness `Recurs` |
| `keyed_params` | 2 callers, 2 different inputs for one key, no fault | **violation** of `RequestHonoured`: finding 1 |
| `deps_restart` | a task with a retry policy and a restart | **violation** of `OnFailedAfterRetries`: finding 2 |
| `cron_mixed` | a recurring task asked for as a one-shot while it runs | **violation** of `RerunResumesCron`: finding 3 |
| `crdt_docs` | 2 clients with an edit each, 2 at once, and 4 incidents: 3 connections and a restart or a `compact_storage`, or 2 connections and both; clients change places by symmetry; 4.3 million states | `AckedStored`, `OneLiveDoc`, `InitializesAlone`, `Converged`, `NothingLeft` |
| `crdt_closes` | a writer and a reader, 2 connections, one failed read or write, restart or `compact_storage`; 59 thousand states | under fairness `ClosesEnd` |
| `crdt_merge` | 2 clients, 2 connections, no mishap | **violation** of `MergesAllUpdates`: finding 4 |
| `federation` | handshake: 2 nodes, one asks, the other in each of three modes, up to 3 acts, or 2 with a restart or a lost answer; verification: a genuine and a forged token, 2 keys, 2 rotations, an outage; pool: 2 threads, 3 queues, 3 jobs of which one panics; 178 thousand states | `Consented`, `OneLiveOwn`, `PenaltyDeserved`; under fairness `EventuallyRests`, `AcceptedSettles`, `GenuineAccepted`, `PoolDrains` |
| `services` | the eleven parts of section 3d; 3.2 million states | `ServicesTypeOK`, `RosterAgrees`, `IndexAgrees`, `SentAsMeant`, `UpdatesKept`, `SubscribersAgree`, `NeverStuck`, `FilesWhole`, `SiteServed`, `SyncComplete`, `DenialStands`, `SettingsServed`, `FilesIdentified`, `WelcomeCared` |

`federation` and `services` are composites. Their parts share no variable and do
not meet in the code either, so each is checked on its own: the variable `part`,
chosen at the start, names the one that takes steps, and the others stay as they
begin. A behaviour of the run is a behaviour of one part; nothing is said, or
needs to be, about two of them together. Type correctness is an invariant of
`keyed` and `services`; elsewhere it is part of the inductive invariants of
section 5.

Why the bounds are enough for the questions asked. Two callers, the loader, the
finish handler and a body are the five kinds of futures that meet at one id; three
requests give one that creates, one that meets the running body and one that meets
the rerun. In `deps_retry` the third request may be that of another kind: it takes
over the row of the retried task, which then waits for itself, is left unbuildable
by a restart, or just runs. With one key, two ids are the current row and the next
one after it closed. Three ids make the smallest join and the smallest chain with an
independent start. One retry gives a first attempt, a retry and the attempt after
the budget. One crash lands in every reachable state, so it covers a restart at
every point, and the loader after it meets early requests. More of the same adds
repetitions, and the theorems of section 5 do not depend on any of these numbers.
`keyed` has one input: with two inputs `RequestHonoured` fails (finding 1), with one
it isolates the retry and rerun bookkeeping, where it holds.

For documents, two connections at once give every pair of phases (load, edit,
grace period, compaction) that can meet, and a third one finds what those two
left: a document removed by one closer while another waits, a log compacted or
not, a counter lost in a restart. Two edits of two clients are what it takes
for one to be lost while the other is kept. A channel of capacity 1 lags as
soon as a second update comes; the code's 256 differs in how many it takes.

For the handshake three acts make every pair of concurrent requests, answers
and disconnections, and a fourth repeats one of them; two acts with one fault
put the fault at every step. For verification the second rotation makes the
cached key older than the one a token is signed with and newer than another's.
For the services, two actors of each kind overlap at every pair of steps and a
third actor or call finds what they left: `Watchers` and `EarlyRetries` are
three for that, `MaxTransactions`, `MaxSiteCalls`, `MaxWrites` leave one call
for after an overlap. A page of three rows (`MAX_SYNC_PAGE`) is full within the
four writes of a behaviour, so truncated and untruncated answers both occur.
Two uploads make the twin, one rendition the task that ends late or fails. One
restart lands at every step.

### Fairness

`FairSpec` assumes weak fairness of: the store completing the write at the head
of its queue, the store answering each query, the dispatcher taking each due
entry, each body, each caller, the finish handler and the loader going on. The
worker polls every ready future, sqlite answers or errs, the dispatcher loop
sleeps until the next due time and then takes the entry, and `task.run` is
assumed to return (no task runs for ever). Calling, crashing and failing of a
write are never obliged; a write at the head of the queue ends one way or the
other. `Dispatch` of a *later* entry is fair because later is a time that
comes.

For documents, `FairSpec` assumes that the worker goes on with each connection
that can go on (weak fairness of `Works`: reads, writes, messages, closing),
that a sweep ends, and strong fairness of the steps that take the registry's
lock (`Locks`): `tokio::sync::RwLock` queues its waiters, so one is not passed
over for ever while others take and release the lock. No client is obliged to
connect, edit or leave.

For the handshake, each node goes on with its tasks (weak fairness of `NodeWorks`):
the scheduler runs them, and a peer answers before the 50 retries of a delivery are
used up. For verification, a verifier's next step is taken and a cached failure
expires (it has a TTL of its own, and retries of the task outlast it). For the pool,
operating-system threads get to run. Neither users, rotations, outages nor drops are
obliged. A fetch that fails for good (`TurnedAway`) may meet any token:
`GenuineAccepted` ends there too, for that token. `services` states no liveness:
what must hold when nothing is left to do is an invariant of such states
(`IndexAgrees`, `FilesIdentified`, `SiteServed`).

### Findings

1. **A keyed request can be swallowed** (`keyed_params`, `scheduler.rs:885`). The
   request finds the task not running and awaits `update_task`; meanwhile the
   body of an earlier request starts; `add_queue` then refreshes the running
   entry without the rerun flag. The new parameters are stored and never run.
2. **The retry policy does not survive a restart** (`deps_restart`,
   `scheduler.rs:202`). `create_task` does not store it; after a restart the first
   retryable failure closes the row and runs `on_failed`.
3. **A one-shot request ends a recurring task** (`cron_mixed`,
   `scheduler.rs:868`). The running entry is overwritten, cron field included; the
   rerun is a one-shot and its finish closes the row.
4. **A compaction can delete a stored edit** (`crdt_merge`,
   `cloudillo-crdt/src/websocket.rs:1131`). The last closer removes the document
   from the registry and only then reads which updates are stored. A client
   that reconnects in between loads a second document; an edit it stores before
   that read is deleted with the others and is not in the document they are
   replaced by. It lives on in the new document and its clients only, until that
   document is compacted in turn.

Seen while modelling, not stated by a run of its own:

- Two stores that both have to seed the counter (after a restart) and meet
  `compact_storage` get the same number, and the later one overwrites the
  earlier update (`get_or_create_instance`, `lib.rs:404-446`). The state is in the
  `crdt_docs` run; `AckedStored` excepts it (`"seed"`).
- A connection that has cloned the DocState but not yet subscribed
  (`websocket.rs:162-246`, two awaits) is counted by nobody: the last closer can
  remove the document under it, and it goes on with a document the next client
  does not share (`"join"`).
- A failed store is not always made up for by the compaction
  (`websocket.rs:630-632` says so): with at most one stored update, or no gain in
  size, nothing is written, and sending the update again is a no-op.
- If the initial update cannot be stored, the next connection after the close
  initializes the document again.

- *Two kinds, one key.* `find_by_key` ignores the kind (`task.rs:152-162` of the
  sqlite adapter), the unique index is over `(kind, key)` (`schema.rs:486`), and
  `update_task` never changes a row's kind. `FileIdGeneratorTask` forms its key
  from the tenant and a file's number (`cloudillo-file/src/image.rs:410`,
  `handler.rs:1023`), `ActionCreatorTask` from the tenant and an action's
  (`cloudillo-action/src/task.rs:390`); both count from one. So the request of one
  can take over the pending row of the other: the queued task is replaced and
  does not run, the row has the kind of one and the input of the other and is
  skipped by the next start, and a post that attaches the very file waits for its
  own row. `PendingEnds` excepts what that leaves stuck (`Stuck`), and
  `FilesIdentified` the files and posts that share a row.
- *A restart in the open race.* A request that comes while the finish handler
  awaits `mark_finished` queues a run whose row is then stamped 'F'; a restart
  before that run loses it (`scheduler.rs:681-687` says so). `RequestHonoured`
  excepts those ids (`counts.lost`), and rows no builder takes.

- With callers on the main thread a second body can start beside a running
  one: `add_queue` checks the running map and inserts under different locks.
  `OneBody` is checked and proved for callers on the worker only.
- A dependent may start while its failed dependency's `on_failed` hook still
  runs, since `mark_error` has already made the row count as completed.
- `create_task` does not store `next_at` either: a postponed task is due at once
  after a restart. A draft that was scheduled is then published before its hour,
  since `DraftPublishTask` looks at the status only (`cloudillo-action/src/task.rs:1102`);
  `SentAsMeant` excepts it (`timed.lost`).
- A failed write after `remove_from_queues` leaves the row pending and in no
  queue until the next start (hence the `counts.faults = 0` guard of
  `PendingCared`).
- A task whose kind is no longer registered keeps its dependents waiting.
- `load_one` queues from a snapshot of the row; a request in flight at that
  moment may have stored newer metadata.
- The metadata a body was started with decides, on failure, whether the row is
  recurring, even if a request changed that in the meantime.

Of federation:

- The creator task re-run after a restart between `finalize` and its post-store
  work signs a new token, meets a conflict and ends: the action is never
  delivered.
- `finalize`'s supersession takes a newer pending action of the same key with it.
- CONN `on_create` reads whether the peer is connected and upserts afterwards: an
  acceptance handled in between is demoted (`conn.rs:102`). Only crossing
  requests reach it.
- A verifier task whose fetch of the issuer's profile is answered with 401, 403 or
  410, or with a body that does not parse, is not tried again
  (`cloudillo-core/src/request.rs:203-217`, `277-286`, `is_retryable` in
  `cloudillo-types/src/error.rs:87-97`): the action is dropped, however genuine.
- `get_by_key` errs on a row that is not finalized, so a request that crosses
  ours while it is being created is not seen as mutual.
- The final status of a received action is written unconditionally, over a row
  that was superseded meanwhile.
- Accepting a request that was withdrawn connects one side only.
- Two tokens of one key that arrive together can both stay live: look, supersede
  and insert are three statements.
- The limiter keeps one penalty count for all reasons, which never decays.

Of the services:

- *Drafts.* `DraftPublishTask` and `publish_draft` set the status and then
  schedule the creator; a stop in between leaves a draft that nobody publishes.
  Cancel and patch write unconditionally after their look. A patch of `publishAt`
  changes the row and not the task (`handler.rs:807-813`), which publishes at the
  hour it was scheduled for; `SentAsMeant` holds the publication to that hour.
- *Search.* A run that found the file live and waits for its permit writes deep
  rows after the trash removed them; a sweep rewrites rows from an old list.
- *Blobs.* A blob found by `stat_blob` before its variant's row is written can be
  swept between the collector's second look and its removal; a file whose remote
  creation date is old can be swept while its sync runs; a variant whose row cannot
  be written is logged and the file becomes active without it (`sync.rs:493-495`); a
  file whose original another file has is not recorded, so the blobs fetched for
  it belong to nobody (`sync.rs:380-384`) — `FilesWhole` excepts these tenants
  (`excepted`); an aborted sync that is
  retried is not finalized; `create_variant` wants status 'P', so a metadata-only
  variant of an active file is never completed, though its comment describes it.
- *RTDB.* The writer is released before the events are broadcast, so two commits
  may be broadcast in the other order; an eviction drops the channel and live
  streams end silently, and a transaction with the old instance broadcasts where
  nobody listens; a receiver that lags loses events silently.
- *DAV.* `If-Match` is checked before and outside the transaction of the upsert. A
  page that is full within one second repeats for ever (documented); a truncated
  page is not signalled.
- *Sites.* A rebuild that read a row before a write's patch inserts the old value
  afterwards, against `chrome_tag`'s comment. `rollback_site` restores a path
  without looking at other documents, so two can be live at one path; the publish
  then looks at the first of them only (`LIMIT 1`, `site.rs:132-144`). A publish
  writes back the mount path it read.
- *QR login.* A denial overwrites an approval that was confirmed to another phone.
  A notification between a poll's look and its wait is lost; the poll answers at
  its timeout. Two polls may both hand out the login.
- *Settings.* A tenant's own value is masked while it is not cached and the global
  one is (`service.rs:100-106`), against "full resolution (tenant -> global ->
  default)". A get that a whole write overtakes caches the old value until the
  next write.
- *Uploads.* The id task and a post's creator task can share a row (two kinds, one
  key, above). Content that is uploaded again while its first upload is processed:
  the second id meets the unique index, its task has no retry policy, the file
  stays pending and a post that attaches it fails. The same when a twin is
  deleted between the purge and the update. An upload whose handler stops
  between its variant tasks and the id task stays pending.
- *Onboarding.* The deferred mail is lost when the renewal task is the first to
  get the certificate (it passes `false`, `acme.rs:458`, against the comment of
  `OnFirstCertIssuedFn` in `cloudillo-core/src/lib.rs:217-221`), when the
  certificate comes between the look and the marker, and when the process stops
  between issuance and hook. Without ACME it waits for ever. Two retries that
  issue at once can leave two mails: the key of the mail task only keeps a second
  one away while the first is pending.
- *Invitations.* They are validated before and consumed after the registration,
  so two registrations may pass on one; a link with one use cannot be refreshed
  after it.

## 5. Proofs

Checked by TLAPS for every value of the constants: for the scheduler every `Ids`,
`Params`, `Keys`, `Callers`, `Requests`, `Lanes` and bound, for the others every set
of actors and every bound.

| Module | Theorem | |
|---|---|---|
| `Scheduler_proofs` | `TypeCorrect` | `Spec => []TypeOK` |
| `OneBody_proofs` | `OneBodyCorrect`, `QueueExclusiveCorrect` | `Spec => []OneBody`, `Spec => []QueueExclusive`, if `MainCallers = {}` |
| `Dependencies_proofs` | `QueuedMetaSoundCorrect`, `RetryBudgetCorrect`, `DepsBeforeStartCorrect` | `Spec => []QueuedMetaSound`, `[]RetryBudget`, `[]DepsBeforeStart`; any callers |
| `Lifecycle_proofs` | `LifecycleImplemented` | `Spec => ImplementsLifecycle`, the refinement of `TaskLifecycle`, if `MainCallers = {}` and requests have no key |
| `NothingLost_proofs` | `PendingCaredCorrect`, `WaitingReleasedCorrect` | `Spec => []PendingCared`, `[]WaitingReleased`, if `MainCallers = {}` |
| `NothingLost_proofs` | `RequestHonouredCorrect` | `Spec => []RequestHonoured`, if `OneInput` and `OneShots` |
| `NothingLost_proofs` | `CronRowPendingCorrect` | `Spec => []CronRowPending`, if `AllRecur`, `MaxCrashes = 0` and `~EarlyRequests` |
| `CrdtDocs_proofs` | `AckedStoredCorrect`, `OneLiveDocCorrect`, `InitializesAloneCorrect`, `ConvergedCorrect`, `NothingLeftCorrect` | the five invariants of the `crdt_docs` run |
| `Federation_proofs` | `OneLiveOwnCorrect`, `ConsentedCorrect` | `HandshakeSpec => []OneLiveOwn`, `[]Consented`, any scenarios |
| `Federation_proofs` | `PenaltyDeservedCorrect` | `VerificationSpec => []PenaltyDeserved`, any keys, tokens, rotations |
| `Services_proofs` | `UpdatesKeptCorrect`, `SubscribersAgreeCorrect` | `RtdbSpec => []UpdatesKept`, `[]SubscribersAgree`, any writers, readers, compactions |
| `Services_proofs` | `DenialStandsCorrect` | `QrSpec => []DenialStands`, any phones and polls |
| `Services_proofs` | `SettingsServedCorrect` | `SettingsSpec => []SettingsServed`, any tenants, gets, values |
| `Services_proofs` | `FilesIdentifiedCorrect` | `UploadsSpec => []FilesIdentified`, any uploads and renditions |
| `Services_proofs` | `WelcomeCaredCorrect` | `OnboardingSpec => []WelcomeCared` |
| `Services_proofs` | `FilesWholeCorrect` | `GcSpec => []FilesWhole`, any tenants and window of grace |
| `Services_proofs` | `IndexAgreesCorrect` | `SearchSpec => []IndexAgrees`, any throttle below the debounce |
| `Services_proofs` | `SentAsMeantCorrect` | `DraftsSpec => []SentAsMeant` |
| `Services_proofs` | `SiteServedCorrect` | `SitesSpec => []SiteServed`, any documents, paths and leaders |
| `Services_proofs` | `RosterAgreesCorrect` | `PresenceSpec => []RosterAgrees`, any connections, room size and channel depth |
| `Services_proofs` | `SyncCompleteCorrect` | `DavSpec => []SyncComplete`, any editors, resources and page size |
| `Services_proofs` | `ServicesImplementParts`, `ServicesTypeCorrect`, `ServicesCorrect` | the composition of the run implements the specification of each part: it keeps the types of all of them (`ServicesTypeOK`), and what is proved of a part holds in it |

The modules of the scheduler build on each other, `Scheduler_proofs` first: it has
the lemmas about the operators of `TaskQueues` and `TaskStore` (the type of what
they return, and that they keep queues exclusive) and the effect of each action.

### Assumptions

`NoneAssumption`, `NoIdAssumption` and `NoRowAssumption` (no entry is not an entry,
and no task), `KindAssumption` (every input is of one kind), `CallersAssumption`,
`RequestsAssumption`, `BoundsAssumption`; for documents the kinds of the constants
and a channel that holds a message; `NodesAssumption` (two nodes),
`ScenariosAssumption`, `MailAssumption`; `RtdbActorsApart` (writers, readers and the
compactor are different actors); `SearchTimes` (the throttle is shorter than the
debounce, which `indexer.rs:82` asserts at compile time, and the debounce of an
object is not longer than a file's, 5 s and 30 s there); `SitesAssumption`
(documents are numbers, 1 among them, and the root is a mount path: the initial
states name them); `DavAssumption` and `OnboardingBounds` (a page and the renewals
are counted); `PresenceAssumption` (a room and a channel hold something); the bounds
are numbers. TLC evaluates them in every run.

Some hypotheses are written in theorems, not assumed. `MainCallers = {}`: with callers
on the main thread a second body can start beside a running one (see the
observations above), and what is said about who has a task rests on there being one.
`\A rq \in Requests : rq.key = None`, for the refinement only: a request with the key
of a closed row opens that row again, or finds it running, which the abstract life
cycle of one task does not know; `TaskLifecycle` is about tasks that are asked
for once, and `RequestHonoured` about the keyed ones. Both are true of the `deps_join`
run.

`RequestHonoured` is proved under `OneInput` (requests for one key have one input,
so also one kind) and `OneShots` (none recurs), which are true of `keyed`; the
theorem does not ask where the callers run. With a second input it is false (finding
1). With a recurring request it is false too, by a TLC trace when the task is asked
for during the load: such a request does not flag a running entry for a rerun, it
relies on the entry's recurrence, and the loader refreshes the entry with the row as
it was before the recurrence was stored. `CronRowPending` is proved under
`AllRecur`, `MaxCrashes = 0` and `~EarlyRequests`, all true of `cron`. Each is
needed, and TLC finds the counterexample when `cron` is changed in that one respect.
The code creates a recurring row in two statements, `create_task` and then
`update_task` (`scheduler.rs`, `MetaAdapterTaskStore::add`). A restart between them,
or a load between them when requests are early, leaves or loads a one-shot. It runs
and is closed as one, and the request that is still to write its cron expression, or
a later one that found the row before it closed, then marks a closed row as
recurring: it is not loaded again, and only the next registration, which finds no
pending row, makes a new one. A request that does not recur is finding 3.

### Inductive invariants

`TypeOK` is inductive as it stands because it says more than types: what the
loader has still to do is in its snapshot, and a write that has succeeded has
an id, even a create.

**`OneBody`** is not inductive. A completion event that arrives while a body
executes would take the task out of `tasks_running` under it, so the invariant
must relate executing bodies, events under way and the running map; and a task
that is queued while it runs would be dispatched a second time, so it must
contain the exclusiveness of the queues. `OneBodyInv` is `TypeOK`, the relation
`Sound(queues, bodies, events)` and the fact that no caller is ever in one of
the program points only the main thread reaches (`OnlyWorker`). The proof has
one step per action. Most actions leave the relation alone or change the queues
by an operator whose lemma says that it starts nothing; the work is in
`Dispatch` and `Release` (a body starts: the entry was scheduled or waiting, so
the task was not running), in the body's last step (the event is sent as the
body stops executing) and in the finish handler (the event is consumed and the
entry leaves the running map in one action; with worker callers it always finds
it). `QueueExclusive` follows from the same invariant.

**Dependencies and retries** (`DepsInv`). A task's metadata is copied from a call to
a write and a row, from a row to the loader's snapshot, into a queue, into a
body and into the finish handler, and a body starts from whichever copy got into
a queue last. So `DepsInv` says of every copy, wherever it is, that it lists each
dependency of the task that is not settled, that count and policy are within
what somebody asked for, and that what it depends on is stored. It says so
relative to what is `Known` (the dependencies asked for, the settled and the
stored tasks), which only grows: then a step that settles a task or creates a
row leaves all copies right at once (`Grown`), and each action has only to account
for the copy it makes. Writes are tied to the future that awaits them (`Owned`),
because that future goes on with the id the write returns.

**The refinement.** A step of the scheduler leaves every executing attempt executing
and starts some (`GrowMaps`), ends one attempt (`StopMaps`), writes the store, or
restarts; each case is mapped to a step of `TaskLifecycle` or a stutter. That an
attempt which starts finds no other one is `OneBodyInv`, that its task is pending
and its dependencies settled is `DepsInv`; `KeylessInv` adds that a row is closed as
finished only after a run of it ended.

**Nothing is lost** (`CareInv`). What `PendingCared` counts as somebody having the task
is more than what is inductive: some of those hand nothing on. The invariant names
the holders that do (`Cares`) and closes the chain between them: a running entry
has a body or a completion event (`RunHeld`); the finish handler drops a row's
dependents only once the row is closed (`FinDone`); a row that is no longer what the
loader read, one refreshed in place and one the loader awaits an answer about have
a holder already (`SnapsCared`, `RefreshCared`, `ProbesCared`); what a waiting task
lists is registered with a holder or about to be reported (`WaitsCared`). A step is
judged by what it does to each piece (`CareStep`), and `MovesCare` shows once that
such a step keeps the invariant. Both properties are claimed as long as no
statement has failed (`counts.faults = 0`): a failed write after the entry was taken
out leaves the row to the next start, in the code as well.

**What a task is queued with** (`HonourInv`, `RecurInv`). Whether the right run
comes depends on which copy of the metadata is queued last, so both invariants start
from what copies carry. `Copies(D)` says of each copy in a queue, a body, a call,
the finish handler and a write under way that its id, input and recurrence are a
member of `D`; lemmas say once of every operation and step that it only passes
copies on, for any `D`, and that a step which widens `D` keeps them. `HonourInv`
takes for `D` what the rows say: then whatever body of the task starts has the input
that is owed. It adds that no call found another input than its own (`NoneChanged`,
so no entry is taken out for a new one), that a running task with a request to
honour is flagged for a rerun (`OwedRuns`), and that a task that owes a run is in a
queue, with a call about to queue it, or just created (`OwedKept`). A step either
accepts the request or leaves it owed with the flag and the holder kept
(`OwedMoves`). A restart takes all holders away; what a row holds is then with the
loader (`ToLoad`): the row is pending and can be built, in the table or as the
loader has read it, and nothing under way could close it or end the loader's work on
it, until the loader queues it (`LoadsOn`). The ids named in `counts.lost` are
excused for good; a closed row is never found by a request again, so that excuses
nothing later but further requests for a row no builder takes. `RecurInv` takes for
`D` all that recurs: then no statement that closes a row is ever issued
(`NoClosing`), because each of them is behind a test of the copy in hand.

**Documents** (`CrdtInv`) are twelve invariants that rest on each other: who holds the
registry's lock and in which place (`LockInv`, `PlacesOK`), one live document,
who initializes (`FirstInv`), that the last one out clears the registry
(`LeftInv`), what of the acknowledged edits is in the log, in a write under way or in
the document a compaction will write (`AckedInv`), which edits a connection knows by
name (`NamesInv`), and for convergence where each edit that a replica or a document
lacks still is: in the broadcast channel (`PeersInv`), on the wire to the client
(`WireInv`, `HeardInv`) or from it (`SaidInv`).

**The handshake.** `OneLiveOwn` speaks of one table, but what keeps it true is who
writes which row. `OwnInv` says: a row of a node's table is its own, under its own key
and signed by it or not yet, or it is the peer's and signed by the peer; at most one own
sealed row is not 'D'; a creator task names an own row, a delivery carries an
own token, a verification the peer's. Then `finalize` is the only statement that
seals an own row, and it supersedes the others of its key in the same
transaction; whatever a verifier inserts or restates is the peer's row.

`Consented` needs to know what the hooks act on. `ConsentInv` says of a node that has not
agreed that none of its own requests or acceptances on record is unsuperseded
(`Agreed`), and that no task is past the point where it looks (`Grants`), unless the
overlap `lapsed` records has happened. A disconnection withdraws the consent in the
action that supersedes those rows; that is why `finalize` has to do both in one
transaction. No statement brings an own row back (`KeepsRows`).

**Verification.** `PenaltyInv` orders keys by the issuer's numbering: a token is not
signed with a key newer than the published one, an answer that came back was
published after the token arrived and is not older than its key, and the stale key a
verifier carries is one the token failed against. A penalty then needs an answer that
differs from the token's key, which is therefore older than the published one.

**Services.** `StoreInv` follows the guard of the RTDB store: a transaction that has a
handle of the file holds the barrier, so no compaction has run since it took the
handle; there is one writer; what it is about to commit is what is stored plus
one. `ChannelInv` adds that what a subscription has not shown yet is in its inbox, in
a broadcast that is still to come, or counted as missed. `DenialInv` says that a
session a phone has denied stays denied and that no poll which began later is on its
way to a login. `SettingsInv`: an entry of the cache is what its row says, unless a
get that a whole write overtook put it there (`EntriesSound`, `GetSound`). `UploadsInv`:
what an id task has listed is what the file has, as long as its dependencies ended
(`FileSound`), a post waits for the tasks of the files it names (`PostSound`), and
whichever task is replaced by one of the other kind shares that one's row.
`OnboardingInv`: the marker goes only after the mail was left, whoever is in the hook
has the certificate, and unless two hooks have read the marker the one that did is
alone with it. `BlobInv`: the blob is there as long as a variant's row names it or a
synchronization relies on it; the collection's cutoff is the window back, so what was
just stored is out of its reach, and it removes the blob only when no tenant that is
not excepted names it. `SearchInv`: a row that is
not what the file asks for has a task that is due, a request on its way to the
scheduler or a run that will write it (`RowSound`, `TrashSound`, `PartsSound`), and a
commit is throttled only while the request before it has its task still ahead
(`ThrottleSound`). `DraftsInv`: while calls and tasks do not overlap, one of them at
most has looked and not yet written, and what it will write fits the row (`Orderly`);
and the task of a scheduled draft is due when it was promised, or a restart has
lost the time.
`SitesInv`: each field of the entry that is not what the tables say, and was not
written from an overtaken read, is on some request's way to be written
(`Refreshed`); a step that changes what is live leaves its own request at the start
of a rebuild, which will write all of them; and a tenant without a site has nothing
published (`NoSiteSound`). `PresenceInv`: who joins holds the registry from finding
the room until it is in (`RoomSound`), and for every member and every other
connection the last event about it that is still on the way says what the room has,
or the roster does when there is none (`Informed`), which speaks of all pending
events without applying them. `DavInv`: the client has what is stored of every resource
none of whose rows the next answer lists (`CopySound`). What makes it inductive is that
the live row of a resource comes after its deleted ones and is not older than they are
(`TableSound`), and that a transaction stamps what it writes with a second that is not
before the collection's (`Stamped`, `WriterSound`), which no token passes. An answer is
a set of rows closed under `Before`, so whatever it leaves out is from the token's
second or later.

The types of the eleven parts (`ServicesTypeOK`) are within these invariants but for
what a client's channel holds, the bounds of sites and the kind of what is under
way; the extra invariants (`ChannelsFit`, `InboxFits` and the like) are each inductive
next to the one of their part. The run's composition only chooses which part steps
(`ServicesImplementParts`), so all of it carries over.

### Only model-checked

What is out of reach of the proofs, or false without a theorem's hypotheses:

- `RequestHonoured` and `CronRowPending` beyond the hypotheses above, where they are
  false (`keyed_params`, finding 1; finding 3).
- `NeverStuck`, which speaks of `ENABLED`, and all liveness.

## 6. Not modelled

- Durations: back-off, cron arithmetic, the order in which later entries fall
  due, sleeping and waking of the dispatcher.
- `health_check`, whose two anomalies are invariants here
  (`QueuedMetaSound`), and the in-memory task store, used by tests only.
- Panics of a body and process shutdown other than a stop.
- What the tasks do. A body runs, succeeds or fails.
- Of documents: awareness states and their owners; `duplicate.rs`, which fills
  the log of a new document before anyone opens it; the purge of a tenant; the
  adapter's `subscribe` and `delete_doc`, which the server never calls; updates
  that depend on one not yet received (`yrs` keeps them pending); updates that
  do not decode.
- Of federation: action types other than CONN (the DSL interpreter and the other
  hooks), history sync, fan-out, key renewal, related actions; loss of a message
  other than its answer (a delivery that does not arrive is one that is retried).
- Of search: an index run that fails (an export, `indexer.rs:198-200`: the index
  keeps what it had until the next commit or sweep), a schedule call that fails in
  the future it was spawned in (`indexer.rs:147-149`: logged, the run is lost), and
  restarts, which forget the throttle and such a future.
- Of the services: queries, indexes, locks and computed values of RTDB; what is
  extracted and ranked in search; codecs, folders, managed files and serving of
  files; host names, redirects and the HTML of sites; formats of DAV and the
  collections themselves; passwords, passkeys and tokens; who may write a
  setting; a mail that fails after its retries counts as ended.
- Rate limiter (windows of wall-clock time), identity provider, references,
  communities and profile refresh, e-mail and push, proxy, administration,
  extraction, routes: `PROJECT.json` gives the reason for each. Most of the
  repository's lines are of this kind, request handlers over one row, SQL text and
  data types, which a model would only repeat.
- Places of the modelled code where something may go wrong that no property is
  about: the lock-by-lock schedule of bootstrap's main thread (`bootstrap.rs:240`);
  the stamp of a row between two requests (`scheduler.rs:676`, documented there); a
  failed update after the entry was taken out (`scheduler.rs:879`); the two
  statements that create a recurring task (`scheduler.rs:208`); the arithmetic of
  back-off (`scheduler.rs:352`); the limiter's shared count (`limiter.rs:265`); a
  receiver of document updates that lags by more than 256
  (`cloudillo-crdt/src/websocket.rs:495`, it misses updates until it reconnects).

