# SpyWeb in TLA+

SpyWeb is a daemon that scrapes web pages on a schedule. A *job* (a `config.toml`, optionally
with Lua hooks) is run by a loop of *cycles*; each cycle fetches pages, extracts items, throws
away those it has seen before, and notifies about the new ones. Around the jobs are an embedded
database (redb or sqlite), a hot reload of the configuration, a browser driver over the Chrome
DevTools Protocol, a file I/O service, an HTTP API and a graceful shutdown.

This directory holds a specification of the parts of that program in which the order of steps
decides whether it is right: what is stored and told exactly once, what a reload or a shutdown
may interrupt, who answers whom, and what ends. Every definition is a translation of the Rust
source; `PROJECT.json` maps it to its file, lines and function.

Contents: [inventory](#the-system), [modules](#modules-and-the-code), [runs](#runs-and-bounds),
[fairness](#fairness), [disagreements with the documents](#where-code-and-documents-disagree),
[proofs](#proofs), [what is not modelled](#not-modelled), [plan](#plan).

## The system

| Component | State | Operations | Interacts with |
|---|---|---|---|
| Record store (`services/db`) | the backend behind a `RwLock<Option<_>>`; tables `records`, `seen`, key-value | open, close, batch check-and-insert, paginated reads, key-value get/set/incr/delete | called by the pipeline on the blocking pool, by hooks, by the API; closed by shutdown |
| Job pipeline (`scraper/pipeline.rs`) | the loop of a job, the url queue of a cycle, its workers, the items a run holds | spawn and join workers, take a url, the stages fetch, extract, store, notify, webhook, lifecycle hooks | spawned and cancelled by the job manager; store, hooks, notifier, webhook |
| Job manager and shutdown (`entry.rs`, `services/watcher.rs`, `services/utils.rs`) | task handles, the active job list, reload and stop channels, shutdown hooks | watch, debounce, reload, respawn, stop, shutdown in phases | everything |
| Browsers (`cdp/browser.rs`) | registry of child processes, profile locks | launch, register, close, kill all | launched by hooks; killed by reload and shutdown |
| CDP transport (`cdp/transport.rs`) | `pending` map, listeners, write channel, read and write loop | call, wait for an event, register and unregister listeners, close | page handles of hooks; the browser's WebSocket |
| File I/O service (`services/io.rs`) | channel and thread of one worker, cached open files | write task, idle end, restart, rotate, prune, shutdown | Lua `file` bindings and the logger; joined by shutdown |
| Lua hooks (`lua/hooks`) | one Lua VM per job, the active context, the deferred queue | run a hook of a stage, run deferred functions | called by every worker of a job |
| Lua key-value store and SQL (`lua/bindings/storage.rs`, `sql.rs`) | the `lua_user` table | get, set, delete, increment, any SQL | hooks, over the blocking pool and the store |
| Page handles (`lua/bindings/cdp.rs`) | tabs and contexts of a browser, as Lua holds them | attach, reuse, new context, navigate, close, dispose | transport, browser |
| Programmable API server (`lua/server`) | one VM per request, its deferred functions | read `init.lua`, resolve, run, respond, run deferred | HTTP server, store |
| Records API (`services/server`) | none of its own | route, check the key, cursor pagination, job list | store, active job list, web UI |
| Configuration (`config`, `cli/check.rs`) | files on disk | load, validate, check | job manager, extractor, store |
| Request handling (`scraper/request.rs`) | the round-robin counter, the default agent | select a proxy, get an agent, fetch | pipeline |
| Extractors (`scraper/extractor`) | the tree of one page | parse, select, filter by keyword | pipeline |
| Updater (`cli/update.rs`) | files of the installation | rename, copy, roll back | the file system |
| Notifier, webhook, HTTP, TLS, profiles | none that outlives a call | deliver, look up | pipeline |
| CLI, test runner, tray, web UI | none of the service | one-shot commands, a window-system loop | shutdown |

What is hard here, and for which reason each of these has a property or a plan:

- **Cancellation.** A reload drops the task of a job's loop. Dropping only marks it: a poll
  under way goes on to its next await, workers go when the loop's future goes, and closures
  already on the blocking pool still commit. Two generations of one job overlap.
- **Concurrency over one table.** Workers of one job, several jobs and two generations of one
  job store batches at the same time; each new item must be reported by exactly one of them.
- **Failure in the middle.** A batch that fails, a worker that panics, a hook that fails before a
  notification, a config that does not load, a process that ends between two steps.
- **Timers against events.** The debounce of the reload channel against a save during a load; the
  idle end of the I/O worker against a send; a lost connection against a call just being made.
- **Shutdown** runs on a thread of its own and only tells the manager to stop.

Correctness, per component:

- *store*: a hash is new at most once, ever; both tables change together; close waits for work;
- *pipeline*: urls of a cycle are shared out exactly once, `on_finished` comes after the last
  worker, an item is notified and posted at most once and only after it is stored, cycles end;
- *manager*: one live generation, the old jobs stay until a load works, no save that was
  noticed is lost;
- *transport*: an answer reaches its call, close and disconnect leave no call waiting, events
  arrive in order and without gaps;
- *I/O*: a task is written at most once although sends are retried, a caller is answered,
  shutdown writes what its channel had accepted;
- *browsers and pages*: two browsers never share a profile, every process is known to the registry
  and ends with its owner, an open page keeps its tab and no tab is left behind;
- *hooks*: a hook and what it defers run alone and with their own worker's context, deferred
  functions run once and in reverse order, every worker gets the VM;
- *key-value store*: the keys of two jobs never meet, a hook's read-modify-write loses no update;
- *log files*: rotations by name hold the lines in order, and the oldest are pruned;
- *API*: deferred functions run before the answer, a request gets a handler that is meant for it, a
  walk through the pages serves every record once and in order;
- *data of a cycle*: an item keeps its own metadata through every hook, a selector selects what CSS
  does, round-robin is even, a request uses the agent it asked for;
- *configuration*: what was validated is what is searched and hashed;
- *updater*: wherever it fails or is killed, a complete binary is left, and what was installed stays
  until its replacement is whole.

The hazards behind these, each at the line where it bites, are listed in `PROJECT.json`. Some more
are known and have no property: what a power loss does to the last commits of sqlite (`WAL` with
`synchronous = NORMAL`, sqlite.rs:45); a `BEGIN` that a hook leaves open, after which every batch
fails to begin its own transaction (sql.rs:88); a watcher that cannot start, which stops the manager
and all jobs (watcher.rs:32), and a save between the first load and the watcher's start, which is
noticed with the next one (entry.rs:30), both in `JobManager`; an entry of `pending` that a dropped
call leaves until the browser answers, and a read loop that stays after `close()` of a remote
connection (transport.rs:199, 319), both in `CdpTransport`; a hooks.lua that does not load, which
leaves the job without its hooks (loader.rs:72).

## Modules and the code

| Module | Models | Kind |
|---|---|---|
| `SeenStore` | what deduplication promises | abstract specification |
| `RecordStore` | `Db`, `RedbBackend`/`SqliteBackend::batch_check_and_insert` | implements `SeenStore` |
| `Pipeline` | `run_job_loop`, `run_urls_cycle`, `run_multi_cycle`, `run_once`, `run_once_inner` | implements `SeenStore` twice: for notifications and for webhooks |
| `JobManager` | `job_manager`, `watch_configs`, `shutdown_system`, the browser registry | |
| `IoService` | `send_task`, `worker_main`, `shutdown` | |
| `CdpTransport` | `call_inner`, both loops, listeners, `close` | |
| `LuaHooks` | the VM's mutex, `new_cycle_context`, a stage's hook, `defer`, `run_deferred`, `cleanup_cycle_state`, `run_on_finished` | |
| `KeyValue` | `store_*`, `global_store_*`, `db_exec` over `lua_user`, the blocking pool | |
| `RecordsApi` | `handle_records_request`, the paginated and grouped reads of both backends, the UI's cursor | |
| `Browsers` | `Browser::launch`, `connect`, `close`, `drop`, `register_process`, `shutdown_all` | |
| `Pages` | `attach`, `new_context`, `PageHandle` and its `Drop` | |
| `LogFiles` | `handle_task`: append, overwrite, rotate, prune | |
| `ApiServer` | `handle_api_request`, `LuaServer::handle` | |
| `HookStages` | what the hook of each stage makes of a cycle's data, `items_to_lua`, `lua_to_items` | |
| `RawParser` | `RawDocument::parse`, `select_all`, `select_first_within` | algorithm, against CSS by places |
| `RequestHandler` | `select_proxy`, `get_agent`, `fetch_with_request` | |
| `Updater` | `run_update`, `swap_binary` | |
| `JobConfig` | `load_all_jobs`, `validate_job_config`, `validate_job_set`, `config_check`, `hash_fields`, `matching_keywords` | rules, against their use |
| `Services` | the last eleven and `IoService` side by side, with the properties of each | composition |
| `MC*` | small instances of the above for TLC | |
| `*Proofs` | theorems about the module of that name; `ServicesProofs`, `DataFlowProofs` and `ReadingProofs` share `Services` and its parts | |

Operators called *Mutant* in a comment are no part of a specification. Each is a plausible
mistake in the code (a dropped guard, a missing reset) that a property has been seen to catch.

**RecordStore.** `pc` is where a blocking thread is: it takes the read guard of `Db.backend`
(`Enter`, or `Refuse` once closed), begins the write transaction (`Begin`; redb waits for the live
one, sqlite holds the connection's mutex), examines its items one by one (`Skip`, `Insert`),
commits or fails, and returns the new ones. The tables exist twice: committed, and as the open
transaction sees them. Timestamps come from the system clock and may repeat: `Put` shows what each
backend does with a key that exists (redb replaces the record, sqlite rolls the batch back).
`Close` is the write guard, `Cancel` a cycle dropped while it waits, `Restart` a crash at any
point. An item is its deduplication hash.

**Pipeline.** A task is `<<generation, worker>>`. The loop spawns workers (with a stagger after the
first one), joins them in order, runs `on_finished`, sleeps. A worker goes through the stages; each
early return and each `?` of `run_once_inner` is an alternative that ends the run through `Leave`.
The store stage hands a batch to the blocking pool (`pool`), where `Commit` happens whether or not
the worker still exists. `Cancel`/`Respawn` are the manager's half of a reload, `DropLoop` and
`DropWorker` the executor's. `Commit` uses the contract of `RecordStore` in one atomic step, which
is what the refinement of `SeenStore` there justifies. `Notify` and `Webhook` count what reaches
the user in the history variables `told` and `posted`.

**JobManager.** Contents of the configuration are numbered by write; `Valid` are those that load. An
editor that saves in several writes makes several, with what the file holds in between. `Edit` is a
write, and an event once the watcher watches; `Replace` is a rename over the file, of which
`is_write_event` makes nothing. So the properties speak of the saves that were noticed.
`load_all_jobs` may see any content between the start of the load and its end, and fails on one
that is invalid or caught half written. Jobs of one load are a generation. `phase` is how far
`shutdown_system` is: it sends the stop message and does not wait. `browser` follows one launch per
generation through spawning, registration and the ways a process ends.

**IoService.** A channel and its worker thread have one number. A caller clones the sender under
the read lock, or starts a worker under the write lock, then sends and waits outside of the lock.
A worker leaves after an idle time: its decision (`Leave`) and the drop of its receiver
(`GoneAway`) are two steps, and a task may arrive in between: its caller is `late`, which changes
nothing but what the properties may say of it. A worker whose channel is closed leaves only when it
has read it to its end.

**CdpTransport.** `call_inner` inserts into `pending`, sends to the write loop's channel and waits.
The write loop takes requests off the channel, the read loop routes answers to `pending` and events
to the listeners of their session; it clones the list under the lock and sends outside of it
(`ReadEvent`, then `Deliver`). The browser (external) answers in any order or not at all, and may
go away. `late` records the calls made after the read loop failed all pending ones.

**LuaHooks.** All stages and lifecycle hooks share one frame: lock the VM, set `active_ctx`, call,
`run_deferred`, convert the result, unlock; the module has that frame once (`Ask`, `Enter`,
`Return`, `Swap`, `RunLast`, `Done`) and leaves which hook comes when to `Pipeline`. `Defer` may
come from the hook or from a function it deferred. A function is known by its number in the call
of the hook; `made`, `own` and `ran` are history. Cancelling a worker releases the mutex as a panic
does.

**KeyValue.** A hook holds the VM of its job over all its awaits (`Enter`, `Leave`). Each call of it
is a closure: `Queue`d for the blocking pool, `Start`ed, then `Run` in one transaction. A reload
frees the VM and drops the queued closures; those that run go on as `strays`. Keys and ids are
sequences of characters, for one id may begin another. `held` is the table that a ROLLBACK of a
transaction left open by `db_exec` goes back to. `disturbed` is history: what the property excludes.

**Browsers.** One launch goes from the profile's lock (`Lock`) through `Spawn`, `Connect` and
`Register` to an object in a VM; a reload drops the object (`Drop`), cancels the launch
(`CancelLaunch`), or kills what is registered (`Reload`). `child` is whether the registered cell
still holds the child, which decides what pruning and `shutdown_all` do. `JobManager` has one
launch per generation inside of the whole reload.

**Pages.** An attach without opts reads the list of targets, then attaches to a blank tab of it or
makes one: three steps, with other attaches, closes and disposals in between. `close()` only
sends (`sent`); the browser closes the tab later (`TabCloses`).

**LogFiles.** Two workers (see `IoService`) append to one log through handles of their own. A file
has a content and any number of names; `cache` is the file a worker's handle is on, whatever the name
leads to by now. Time is a counter of seconds that may be set back.

**ApiServer.** A request is a record that goes from `Route` and `ReadInit` through its handler to its
answer; `init` is the file, which is saved at any time.

**HookStages.** One cycle's data through all stages, each hook absent, failing, or returning any list
of the tables it was ever given. An item is the element its fields are from and the element its
metadata is from.

**RawParser.** The page is a sequence of tags, chosen tag by tag; the tree is built as the code
does, with void elements and close tags that close what is above them. In the final state all
selectors of one and of two steps are compared with their meaning by the places of the tags.

**RecordsApi.** Both backends' reads are operators over the set of rows; a client walks page by page
while rows are inserted with any free timestamp. `Grain` is the spacing of the numbers the client
reads; the UI's doubles have 256 ns there. Rounded up, a cursor may serve a record again, and rounded
down it may pass one over: `Skipped` says which, and `WalkDescends` and `WalkIsComplete` allow nothing
else. A grain of 1 is a client that keeps numbers exactly, for which nothing is skipped. `Clock` begins
at `Grain`, since no time is so near to 1970 that it would be rounded to 0.

**RequestHandler.** The counter is an atomic of width `Wrap`; selection, agent and call are the steps.

**Updater.** Every rename, copy and removal of `swap_binary` may fail or be the last before a kill, the
rename that restores the original after a failed copy (`CopyFails`) included. A copy may leave a part.

**JobConfig.** The rules of validation over names with or without blanks, the loader and the check
command over the same files, and beside them what the extractor, the keyword filter and the hash
make of a config that was accepted.

## Runs and bounds

| Run | Instance | Shows |
|---|---|---|
| `record_store` | 2 callers, 2 hashes, 2 jobs, 2 timestamps, batches of one item, two items, one item twice; both backends | deduplication is exact; close waits; `SeenStore` is implemented |
| `pipeline_reload` | 2 workers, 2 urls, 1 hash, hooks, one reload to a config with 1 worker | urls shared once, `on_finished` last, nothing told or posted twice or before it is stored |
| `pipeline_cycles` | 1 worker, 2 hashes, no hooks, panics, one reload | every cycle ends, but for a webhook that is never answered; a cancelled generation ends for good |
| `manager_reload` | 3 writes or renames, the second content does not load, shutdown at any time | one live generation, jobs keep running, no noticed save lost |
| `cdp_transport` | 2 calls, 1 waiter with a timeout, 2 events, disconnect and close | answers match, nobody left behind, events in order |
| `lua_hooks` | 2 workers, 2 runs of one hook each, 3 calls of `defer`, a queue of 2, panics | contexts match, deferred functions run once, the VM is shared |
| `services` | a sum of twelve instances, see below | their properties, one or two each |
| `pipeline_panic`, `manager_shutdown`, `io_stranded`, `pages_reuse`, `check_config` | smallest instance that reaches the state | a counterexample to a statement of the documents, see below |

`services` checks the services and helpers around the pipeline in one run. Their models share no
state, so nothing is gained by interleaving them: the initial state picks one part, only that part
takes steps, and the reachable states are the sum, not the product, of the parts. A property of a
part is guarded by it. The instances:

| Part | Instance | Properties |
|---|---|---|
| `IoService` | 2 callers, a channel of one task, up to 4 workers | `WrittenOnce`, `ShutdownDrains`, `AnsweredOrStranded` |
| `KeyValue` | 2 workers of a job and one of another whose id begins with the first's, global keys that spell a prefix, 3 calls, one reload, both backends | `Isolated`, `UpdateKept` |
| `Browsers` | 2 launches on one profile, with or without keep_alive, two reloads | `ProfileExclusive`, `EveryProcessIsKnown` |
| `Pages` | 2 tabs, 2 attaches, one context | `PagesHaveTabs`, `PageInContext` |
| `LogFiles` | 2 workers, 4 lines, files of one line, 2 rotations kept, 3 seconds | `RotationsInOrder` |
| `ApiServer` | 1 request, a key, saves of `init.lua`, 2 deferred functions | `RequestsHandled` |
| `HookStages` | 2 elements, all hooks | `MetadataFits` |
| `RawParser` | all pages of up to 5 tags over 2 names, void or not | `SelectsLikeCss` |
| `RecordsApi` | 1 job, 5 timestamps, a grain of 2, limits absent, 0 and too large, unreadable rows, both backends | `WalkIsComplete` |
| `RequestHandler` | 2 workers, 2 proxies, a counter that wraps, 3 fetches each | `RotationIsEven` |
| `Updater` | 3 runs, both programs | `UpdateKeepsABinary` |
| `JobConfig` | configs with short and full fields, padded and blank names, two names of one id | `JobsAreTold` |

Why these bounds are enough to be worth something. In the store, every race is one between two
transactions and one item; a third caller only repeats it, and the proofs cover any number. In the
pipeline, two workers and two urls give every order of taking, finishing and joining; a reload that
shrinks the worker count shows both sizes, and a second reload only adds a third generation in the
same relation to its neighbour. `pipeline_cycles` needs one worker, since a worker's progress
depends on no other. Three saves give a save before, during and after a load, with a broken one in
between. A channel of one makes callers wait for room as often as possible; two callers are needed
for a restart that detaches the worker of the other one. Two calls are the least for answers to be
mixed up, and two events the least for their order. Two runs of each worker show a context that
replaces an old one; three `defer` calls on a queue of two fill it and leave one for a function
that defers again. Two launches are the least for a profile to be shared, and a second reload meets
what the first has left. Two attaches are the least for a tab to be taken twice. Four lines in
files of one rotate often enough to prune, and two workers are what one idle end leaves behind.
Requests of the API share nothing but `init.lua`, so one is enough. Five tags are two elements that
are both closed and one that is not; two names give a close tag that closes something else. Five
timestamps make three pages and an insert before, between and behind them; at a grain of 2 they are kept,
rounded up and rounded down, so a record between a time and its cursor is served twice, or skipped. An
exact client is one whose times are all even there. The limit (2) is the grain, for with as many records
within half a grain as a page has rows, a cursor rounded up asks for the same page again, for ever (at
256 ns and the UI's limit of 30 that is out of any job's reach). Jobs share nothing but the table, whose
rows a read selects by job: one is enough, and the theorem has any number.

`CHECK_DEADLOCK FALSE` is stated where the system really ends: the process has shut down, all
calls have been answered, a command or a walk is over, or a panic has stopped a job for good.
`record_store` and `pipeline_reload` are checked for deadlock.

Bounds on counters: `MaxEdits` (writes and renames), `MaxGens` (reloads), `MaxEvents` (events per session), `MaxRuns`,
`MaxHooks` and `MaxDefers` (contexts per worker, hooks per context, `defer` calls per hook); in the
services `MaxCalls`, `MaxReloads`, `MaxLines`, `MaxTime`, `MaxItems`, `MaxTags`, `MaxTs`, `MaxFetches` and
`MaxRuns` (of the updater). `Capacity`, `MaxQueue`, `MaxFileSize`, `MaxRotations`, `MaxLimit` and `Wrap` are
limits of the code, made small. `ReloadsAreEarned` shows that `MaxEdits` also bounds the generations
of `JobManager`.

A property of `services` that is a conjunction has more than one *Mutant* operator in its module;
`PROJECT.json` names the one that is checked.

## Fairness

Safety properties are checked without fairness, liveness properties under `FairSpec`:

- the executor polls a task that can go on, and drops a cancelled one in the end (weak fairness of
  each loop's steps, of a worker's `TimelyStep`, of `DropLoop`, `DropWorker`, `DropTask`). A fetch that
  a step stands for ends, since it has a timeout (30 s unless a hook's request has another, request.rs:132);
  the webhook is posted without one (webhook.rs:69), so `Webhook` and `WebhookEnds` are under no
  fairness, and `CyclesEnd` says that only a worker that waits for it for ever keeps a cycle;
- the threads of the blocking pool, the watcher and the I/O worker run, and idle timers fire;
- a Lua hook returns in the end and defers finitely often, and a worker that waits for the VM is
  not starved: after half a millisecond of waiting the async mutex blocks newcomers (strong fairness
  of `Enter`);
- `job_manager` is polled; `close()` and `shutdown`, once begun, go on.

`SumSpec` of `services` has the fairness of `IoService`, whose liveness property it checks; the
other parts are checked for safety.

Not assumed: that anybody saves, reloads or shuts down, that a worker panics, that a browser
answers, sends events or closes, that a webhook returns, that a timeout saves a waiter, that a call is
ever made.

## Where code and documents disagree

Each of these runs is expected to find a counterexample.

- `pipeline_panic`: *multi-worker.md:250* says the job loop survives a worker's panic and still
  calls `on_finished`. Awaiting the panicked task's handle resumes the panic in the loop: the job
  is dead until the next reload.
- `manager_shutdown`: *README.md:113* and *CHANGELOG.md:17* say jobs stop before the database is
  closed. Shutdown sends a message and does not wait: while the manager debounces or loads, jobs
  go on and meet a closed database.
- `io_stranded`: *io.rs:144* means to answer a task that is not handled. A task accepted while the
  idle worker leaves is never answered: the caller's own sender keeps the channel, with the task
  and its reply sender in it, alive.
- `pages_reuse`: the comment at *cdp.rs:480* says a blank tab is reused for the default context only.
  The list of targets has the tabs of all contexts, and the search takes the first blank one: an
  attach without a context may get a context's tab, and lose it when the context is disposed.
- `check_config`: *check.rs:11* says the command exits 1 on errors. A `jobs.toml` that cannot be read
  or parsed ends it with success, and no config is validated by the rules of the loader.

Some further disagreements are in the models and have no run of their own. *README.md:56* says a job is
respawned when a config or Lua script is saved: renaming another file over it, as `mv`, `sed -i` and
editors that save atomically do, is no write event (watcher.rs:7, `Replace`), and the jobs run on with
the old content until something else is saved. *CHANGELOG.md:17* has the I/O stop before the exit: two
callers whose sends fail each start a worker (io.rs:132, `Restart`), the handle of the first is dropped,
shutdown joins only the second, and a task of the first may still be unwritten. The error at
*update.rs:219* says "restored original": the result of the restoring rename, the line before, is
ignored (`CopyFails`), and when it fails the original has another name. *lifecycle.md:29* and *:160* say `on_finally`
always runs after `on_success` or `on_error`: a reload between the two awaits (pipeline.rs:181) drops
the worker first. *CHANGELOG.md:157* says hot reloads leave no browser process: a launch cancelled
between spawning (browser.rs:139) and registering (browser.rs:221) leaves one that nobody owns; it
is `leaked` in `Browsers`, and excluded by name in `EveryProcessIsKnown`. *docs/server.md:279* says
deferred functions run after the response: they run before it is sent. `defer()` raises an error in
`on_finished`, which has no context, although *lifecycle.md:78* offers it "inside any hook".

And some consequences are in the models and documented nowhere:

- redb overwrites a record whose key repeats (`OneRecordPerSeenHash` is stated for sqlite only);
- the new items of a batch that commits after its worker was dropped, or before `before_notify`
  fails, are never told or posted (deduplication is at most once, not exactly once);
- the round-robin counter is shared by all jobs: two that take turns with two proxies each always
  get the same one;
- names with blanks around them pass validation and never match: a keyword search over them finds
  nothing. A shorthand field without a colon passes validation and never compiles;
- a failing `filter_item` keeps the item and skips the keyword filter;
- a record may be served twice to the UI, or not at all, whose double rounds the cursor up or down; a
  limit of 0, or an unreadable row on sqlite, ends a walk early;
- two rotations within one second overwrite each other's file, a second worker's handle stays on a
  rotated file, and pruning deletes any file that matches `stem.*.ext`;
- an update run from the backup, after one that was killed, renames the broken file over it.

## Proofs

TLAPS proves, for every value of the constants under their assumptions:

- `RecordStoreProofs`: type correctness and the inductive invariant `Consistent`
  (`AlwaysConsistent`), from which `AtMostOnce`, `RecordsAreSeen`, `NoWorkWhenClosed`, and the
  refinement `Spec => PromiseSpec`. Assumptions: batches are sequences of hashes, `NoOne` is no
  caller. `AtMostOnce` alone is not inductive: that a hash about to be told was never told before
  needs that committed and unreturned items belong to one caller (`FreshIsOwned`), which needs that
  a transaction's new items are disjoint from what is committed (`TransactionView`), which needs
  that there is one transaction (`OneWriter`). `Consistent` is the conjunction. For the refinement, `Commit` is `Claim`, `Return`, `Cancel` and
  `Restart` are `Settle`, and all other steps stutter.
  `PromiseIsAtMostOnce` closes the circle: whatever keeps the promise tells of no hash twice, since
  what is owed has not been told (`OwedIsUntold`).
- `PipelineProofs`: all four properties of `pipeline_reload`, for any numbers of hashes, urls, workers
  and reloads, with and without hooks and panics. `FinishedIsLast` needs `LoopInv`: which workers a loop has
  spawned and joined in each of its states, and that a worker outlives its loop only on the
  way out. `UrlsShared` needs `QueueInv`: what is left in the queue is the end of the list, and what was
  taken is the rest, once each. `TellsOnlySeen` and both refinements of `SeenStore` (`ToldOnce`) need
  `PoolInv` and `ClaimInv`: a closure on the pool belongs to a worker that waits for it or was dropped,
  and the items that two tasks have still to tell, or to post, are disjoint. A refinement's step is
  `Claim` for a commit and `Settle` for whatever lets go of items (told, lost with a dropped worker, or
  left behind by an error). `UrlsAssumption` says that the list of urls is a sequence.
- `JobManagerProofs`: type correctness, `OneGeneration`, `JobsKeepRunning` and `NoticedIsPending`,
  for any number of saves and any set of valid contents that has the first one. Type correctness
  already needs `ReloadsAreEarned` (a reload costs a message, a message costs a save), which bounds
  the generations. `OneGeneration` and `JobsKeepRunning` are inductive together; `NoticedIsPending`
  is inductive with the types.
- `LuaHooksProofs`: `ContextMatches` and `DeferredRunOnce` for any number of workers, hooks and deferred functions. It
  needs `Exclusion` (who runs a hook or its deferred functions holds the mutex, and `active_ctx` is
  its context) and `Lifetime` (a context lives as long as its run, and during `on_finished` all runs
  are over), with as much of the state's shape (`Shape`) as function updates need. `DeferredRunOnce` is a
  step of `DeferInv`: every function deferred is in the queue, in the batch that runs, or has run,
  and in one of them once (`Balanced`); those of the hook itself make up the first batch, which is run
  from its end (`InTurn`).
- `RecordStoreProofs` also has `OneRecordPerSeenHash` (`SeenHasItsRecord`): `Paired` says that
  with sqlite every seen hash has one record, in the committed tables and in those of the open
  transaction; that a new hash has none yet is `TransactionView`.
- `IoService`, in `ServicesProofs`: `WrittenOnce` and `ShutdownDrains` for any number of callers and workers. A task is in one place at
  a time (with its caller, in one channel, in one worker's hands, or written), and a caller that may
  send again holds it. `ShutdownDrains` needs `DrainInv`: a caller starts at most two workers, so there
  is a channel for every start (`StartsCounted`, `HasChannel`), a task accepted and not answered is in
  its channel or with its worker (`Located`), a worker has a task only while it handles it
  (`Resting`), and in the channel of a worker that has left its loop is nobody but late callers (`LeftInv`):
  it leaves only when the channel is empty, and who comes afterwards is late. So nobody else is left
  behind by the worker that was joined. The types (`TypeCorrect`) follow.
- `CdpTransportProofs`: `AnswersMatch` (`Ids`: an id is below `nextId` and belongs to one call,
  in `pending`, in the channel and on the wire), `CloseAnswersAll` (`IsPending`: a call under way
  without an answer is in `pending`, and nobody sends once `close()` has begun), `EventsInOrder` (what a listener has, together
  with what is being carried to it, is a segment of what was routed).
- `ServicesProofs`, `DataFlowProofs` and `ReadingProofs` prove properties of the parts of `Services`, as theorems about
  `SumSpec`. A step of the sum is a step of the part that runs and leaves the variables of the others
  alone (the `StepOf...` lemmas), so an invariant that is inductive for a part's own `Next` is one of
  the sum.
  - `KeyValue`: `Isolated`, since ids have no colon and the first colon of a key ends its id
    (`KeysOfJobsDiffer`), and `UpdateKept`, since a hook holds the VM of its job (`Alone`) and every
    entry that went through a prefix has a key of that job (`Owned`), also in the table a ROLLBACK
    restores.
  - `Browsers`: `ProfileExclusive` (`Locked`: a directory has one lock, and who is launched or owned
    holds it) and `EveryProcessIsKnown` with `NoneOutlives`.
  - `Updater`: `UpdateKeepsABinary`. `Aside` says what has been moved to the backup at each step, so that
    the next failure or kill, that of the restoring rename included, finds a complete file under one of
    the two names.
  - `Pages`: `PagesHaveTabs` and `PageInContext`. A tab that an attach is about to take was found unused
    or made for it (`GivenOnce`, `MadeForSomebody`, `MadeInContext`), and a close is sent only for the
    tab of a handle that is closed (`SentByClosed`).
  - `JobConfig`: `JobsAreTold`. The jobs that run have passed every rule, each alone and all together
    (`ConfigInv`); the rest follows from the rules.
  - `ApiServer`: `RequestsHandled`. `NoneIsLost` counts: every function deferred is in the queue, in the
    batch that runs, or has run, so when both are empty all have run. `KeyWasChecked` carries the
    result of the route and the key to the choice of the handler.
  - `LogFiles`: `RotationsInOrder`, for any number of workers, lines and rotations. `NamesInOrder` alone is
    not inductive: a rotation needs that no name is of a later second than now (`NamesAreSeconds`), an
    append that the log's file is behind all others, pruning that what it deletes is before what it
    leaves (`OldestErased`), and all of them that a handle on another file than the log's means a
    second worker (`HandlesFit`), whose lines the property leaves out.
  - `HookStages`: `MetadataFits`. All lists of a cycle fit as long as no old table was returned; the lemmas
    say what the conversion to Lua and back (`ReturnedFits`) and each selection keep of a list.
  - `RequestHandler`: `RotationIsEven` and `AgentFits`. The counter is the number of requests it served,
    modulo its range, and the i-th of them got the proxy at its turn (`TurnsTaken`); the rest is
    arithmetic: among the first L numbers, no remainder occurs twice more often than another
    (`TurnsAreEven`, by moving every occurrence of the one to the next of the other). The proof found
    that the property needs a list without duplicates: a proxy listed twice gets two turns.
  - `RecordsApi`: `WalkIsComplete`, for any grain. `WalkDescends` alone is not inductive: that the next page
    goes on downwards needs that the cursor is what the client made of a number, and that what it makes of
    anything served so far is not before the cursor (`Kept`; rounding is monotone and changes nothing that
    was rounded, `RoundedGrows` and `RoundedKeeps`). Completeness needs that every record the walk began
    with was served, is still before the cursor, or was passed over by rounding (`Walking`, `Reached`). `PageIs` says of both backends
    that a page is the newest readable records before the cursor, in order, and all of them when it is
    not full; on sqlite this is where an unreadable row breaks the walk, so the invariant has the
    property's condition (`Readable`). `FirstPageAgrees` holds in every state (`GroupIsFirstPage`).
  - `RawParser`: `SelectsLikeCss`, for pages of any length. `Tree` is the invariant of the parse: an element that
    is closed ended at a tag already read (`Ends`), two elements either do not overlap or lie
    one in the other (`Nests`), an element between another and its parent had ended before (`Innermost`), and
    an element ends within a closed parent (`Within`). On the finished tree, being below a node through its children is
    lying within its tags, and a child has nobody in between (`BelowIs`, `StepIs`); the rest says that the lists the code
    collects have the elements CSS selects, and each once where the property says so (`FoundIs`, `AfterIs`).
  - All parts: `TypesHold` (`TypesAreKept`). Some types need more than themselves: a `BEGIN` is in hands only on
    sqlite (`BeginsInSqlite`), a request has its handler and its answer exactly from the steps that
    give them (`Placed`), a cursor of the parser never passes the page.

  The library's induction theorems take an operator as a parameter, which the provers cannot
  instantiate. `ReadingProofs` goes by the least number of a set instead (`LeastNatural`, from `WFMin`):
  the set of those at which a statement fails has no least element, so it is empty (`UpTo`). What the parser
  and the selectors compute by recursive functions is proved with it, and `FlattenSeq`'s fold too
  (`FlattenIs`).

The assumptions are the named ones of the modules: sentinels differ from the values they stand
beside (`None` is no worker and no call), ids of jobs differ and have no colon, bounds are natural
numbers, and a directory without any configuration is one of those the loader may meet. TLC
evaluates them on the instances of the runs.

Only model-checked: the liveness properties `CyclesEnd`, `CancelledEnds`, `SavesAreLoaded`, `CallsEnd`,
`VmIsShared` and `AnsweredOrStranded` (the prover does not do fairness or `ENABLED`). Every invariant and
every safety property of a step that a passing run checks is also a theorem.

## Not modelled

- The DOM parser (a library's), attributes, texts, classes and ids in the raw parser, and selectors
  of forms it reads but never matches ("h2, h3", "a + b", "*"), which give an empty field.
- Formatting of notifications, webhooks, logs and HTTP responses; conversions of requests, responses
  and JSON to Lua values.
- Durability below the database library (what a power loss does to a commit); panics inside of a
  database batch, which poison the sqlite mutex.
- Loading of hooks (which stages a script has is free in `HookStages`), hook telemetry, which has no
  control but its failure (`PrepareFails` of `Pipeline`).
- Arbitrary SQL of `db_query` and `db_exec`, but for transactions left open.
- One-shot commands that have no state over steps (debug, profile, version, test runner), the
  runner, which only calls request and extractor, HTTP, TLS and profile helpers, the tray, the web
  UI but for its cursor.

## Plan

Done: the core (`SeenStore`, `RecordStore`, `Pipeline`, `JobManager`, `IoService`, `CdpTransport`,
`LuaHooks`), the services and helpers around it, and the proofs above. Left, in order of
importance:

1. Loading of hooks: which hooks a job has after a reload.
2. Two jobs that share the round-robin counter, and `KeyValue` under restarts.
