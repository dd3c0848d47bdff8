------------------------------ MODULE Pipeline ------------------------------
(***************************************************************************)
(* One job: the loop that runs its cycles (run_job_loop), the workers of a *)
(* cycle (run_urls_cycle, run_multi_cycle), the stages of a worker's run   *)
(* (run_once, run_once_inner), and what a hot reload does to them.         *)
(*                                                                         *)
(* A reload drops the task of the job's loop and spawns a new loop, its    *)
(* next generation.  Dropping a task only marks it: a task that is being   *)
(* polled goes on until an await that is not ready, and the workers of a   *)
(* loop are dropped when the loop's future is.  Work handed to the pool of *)
(* blocking threads is not undone: a running database batch still commits. *)
(* So two generations of one job overlap, and they share the database.     *)
(*                                                                         *)
(* An item is its deduplication hash.  The database is its "seen" table    *)
(* (RecordStore, which this module uses by its contract, one atomic step). *)
(***************************************************************************)
EXTENDS Naturals, Sequences, FiniteSets

CONSTANTS
    Hashes,     \* hashes of the items the job's pages may hold
    UrlList,    \* config.urls, without it the one url of the job
    HasUrls,    \* run_urls_cycle, else one run per worker
    N,          \* config.worker_count() of each generation's config
    MaxGens,    \* bound: the number of loops spawned, one per reload
    Hooked,     \* job.hooks is Some(_)
    Panics      \* whether the code a worker runs may panic

ASSUME GensAssumption == MaxGens \in Nat \ {0}
ASSUME WorkersAssumption == N \in [1..MaxGens -> Nat \ {0}]
ASSUME UrlsAssumption == Len(UrlList) \in Nat /\ DOMAIN UrlList = 1..Len(UrlList)
ASSUME ModeAssumption == HasUrls \in BOOLEAN /\ Hooked \in BOOLEAN /\ Panics \in BOOLEAN

Gens == 1..MaxGens
Workers(g) == 1..N[g]
Tasks == UNION {{g} \X Workers(g) : g \in Gens}

VARIABLES
    loop,       \* where each generation's loop is
    cancelled,  \* the loop's handle was dropped
    spawned,    \* workers spawned in this cycle, handles.len()
    joined,     \* handles awaited in this cycle
    queue,      \* the cycle's UrlQueue
    taken,      \* history: how often each url was popped in this cycle
    wpc,        \* the stage each worker is at
    items,      \* the items the run holds: extracted, then new
    result,     \* what run_once_inner returned
    pool,       \* the worker's closure on the blocking pool
    seen,       \* the database's "seen" table
    told,       \* history: notifications that carried a hash
    posted      \* history: webhook calls that carried a hash

loopVars == <<loop, cancelled, spawned, joined>>
dbVars == <<seen, told, posted>>
vars == <<loop, cancelled, spawned, joined, queue, taken, wpc, items, result,
          pool, seen, told, posted>>

LoopStates == {"none", "ready", "cycle", "sleeping", "gone", "dead"}

InRun == {"prepare", "fetch", "extract", "store", "storing", "notify",
          "webhook", "closing", "finally", "cleanup"}
Running == InRun \cup {"idle"}
Ended == {"none", "done", "panicked", "dropped"}

TypeOK ==
    /\ loop \in [Gens -> LoopStates]
    /\ cancelled \in [Gens -> BOOLEAN]
    /\ spawned \in [Gens -> Nat] /\ joined \in [Gens -> Nat]
    /\ \A g \in Gens : spawned[g] <= N[g] /\ joined[g] <= N[g]
    /\ queue \in [Gens -> Seq(DOMAIN UrlList)]
    /\ taken \in [Gens -> [DOMAIN UrlList -> Nat]]
    /\ wpc \in [Tasks -> Running \cup Ended]
    /\ items \in [Tasks -> SUBSET Hashes]
    /\ result \in [Tasks -> {"none", "ok", "err"}]
    /\ pool \in [Tasks -> {"none", "running", "done"}]
    /\ seen \subseteq Hashes
    /\ told \in [Hashes -> Nat]
    /\ posted \in [Hashes -> Nat]

\* spawn_jobs spawned the first generation; later ones do not exist yet.
Init ==
    /\ loop = [g \in Gens |-> IF g = 1 THEN "ready" ELSE "none"]
    /\ cancelled = [g \in Gens |-> FALSE]
    /\ spawned = [g \in Gens |-> 0]
    /\ joined = [g \in Gens |-> 0]
    /\ queue = [g \in Gens |-> <<>>]
    /\ taken = [g \in Gens |-> [u \in DOMAIN UrlList |-> 0]]
    /\ wpc = [t \in Tasks |-> "none"]
    /\ items = [t \in Tasks |-> {}]
    /\ result = [t \in Tasks |-> "none"]
    /\ pool = [t \in Tasks |-> "none"]
    /\ seen = {}
    /\ told = [h \in Hashes |-> 0]
    /\ posted = [h \in Hashes |-> 0]

-----------------------------------------------------------------------------
(* The loop of generation g.                                               *)

\* Mutant: the loop's task is detached, so dropping its handle stops nothing.
BeginCycleDetached(g) ==
    /\ loop[g] \in {"ready", "sleeping"}
    /\ loop' = [loop EXCEPT ![g] = "cycle"]
    /\ spawned' = [spawned EXCEPT ![g] = 0]
    /\ joined' = [joined EXCEPT ![g] = 0]
    /\ queue' = [queue EXCEPT ![g] = [u \in DOMAIN UrlList |-> u]]
    /\ taken' = [taken EXCEPT ![g] = [u \in DOMAIN UrlList |-> 0]]
    /\ wpc' = [t \in Tasks |-> IF t[1] = g THEN "none" ELSE wpc[t]]
    /\ UNCHANGED <<cancelled, items, result, pool, dbVars>>

\* The top of the loop: first poll of the task, or the interval elapsed.  A
\* cancelled task is dropped before it is polled again.
BeginCycle(g) ==
    /\ loop[g] \in {"ready", "sleeping"}
    /\ ~cancelled[g]
    /\ loop' = [loop EXCEPT ![g] = "cycle"]
    /\ spawned' = [spawned EXCEPT ![g] = 0]
    /\ joined' = [joined EXCEPT ![g] = 0]
    /\ queue' = [queue EXCEPT ![g] = [u \in DOMAIN UrlList |-> u]]
    /\ taken' = [taken EXCEPT ![g] = [u \in DOMAIN UrlList |-> 0]]
    /\ wpc' = [t \in Tasks |-> IF t[1] = g THEN "none" ELSE wpc[t]]
    /\ UNCHANGED <<cancelled, items, result, pool, dbVars>>

\* Worker 1 at once, the others after the stagger timer.
SpawnWorker(g) ==
    /\ loop[g] = "cycle"
    /\ spawned[g] < N[g]
    /\ spawned[g] # 0 => ~cancelled[g]
    /\ spawned' = [spawned EXCEPT ![g] = @ + 1]
    /\ wpc' = [wpc EXCEPT ![<<g, spawned[g] + 1>>] =
                   IF HasUrls THEN "idle" ELSE "prepare"]
    /\ UNCHANGED <<loop, cancelled, joined, queue, taken, items, result, pool, dbVars>>

\* `handle.await`, in the order the workers were spawned.
JoinWorker(g) ==
    /\ loop[g] = "cycle"
    /\ spawned[g] = N[g]
    /\ joined[g] < N[g]
    /\ wpc[<<g, joined[g] + 1>>] = "done"
    /\ joined' = [joined EXCEPT ![g] = @ + 1]
    /\ UNCHANGED <<loop, cancelled, spawned, queue, taken, wpc, items, result,
                   pool, dbVars>>

\* `handle.await` on a worker that panicked resumes the panic in the loop.
JoinPanicked(g) ==
    /\ loop[g] = "cycle"
    /\ spawned[g] = N[g]
    /\ joined[g] < N[g]
    /\ wpc[<<g, joined[g] + 1>>] = "panicked"
    /\ loop' = [loop EXCEPT ![g] = "dead"]
    /\ UNCHANGED <<cancelled, spawned, joined, queue, taken, wpc, items, result,
                   pool, dbVars>>

\* Mutant: on_finished runs as soon as all workers were spawned.
FinishWithoutJoin(g) ==
    /\ loop[g] = "cycle"
    /\ spawned[g] = N[g]
    /\ loop' = [loop EXCEPT ![g] = "sleeping"]
    /\ UNCHANGED <<cancelled, spawned, joined, queue, taken, wpc, items, result,
                   pool, dbVars>>

\* All handles awaited: on_finished runs, and the interval's timer starts.
Finish(g) ==
    /\ loop[g] = "cycle"
    /\ joined[g] = N[g]
    /\ loop' = [loop EXCEPT ![g] = "sleeping"]
    /\ UNCHANGED <<cancelled, spawned, joined, queue, taken, wpc, items, result,
                   pool, dbVars>>

\* job_manager drops the handle (its task's future lives on until DropLoop) ...
Cancel(g) ==
    /\ g < MaxGens
    /\ loop[g] # "none"
    /\ ~cancelled[g]
    /\ cancelled' = [cancelled EXCEPT ![g] = TRUE]
    /\ UNCHANGED <<loop, spawned, joined, queue, taken, wpc, items, result,
                   pool, dbVars>>

\* ... and spawns the loop of the reloaded job.
Respawn(g) ==
    /\ g - 1 \in Gens
    /\ cancelled[g - 1]
    /\ loop[g] = "none"
    /\ loop' = [loop EXCEPT ![g] = "ready"]
    /\ UNCHANGED <<cancelled, spawned, joined, queue, taken, wpc, items, result,
                   pool, dbVars>>

\* The executor drops the future of a cancelled loop, its handles with it.
DropLoop(g) ==
    /\ cancelled[g]
    /\ loop[g] \in {"ready", "cycle", "sleeping"}
    /\ loop' = [loop EXCEPT ![g] = "gone"]
    /\ UNCHANGED <<cancelled, spawned, joined, queue, taken, wpc, items, result,
                   pool, dbVars>>

-----------------------------------------------------------------------------
(* Worker t = <<g, i>>.                                                     *)

Goes(t, from, to) ==
    /\ wpc[t] = from
    /\ wpc' = [wpc EXCEPT ![t] = to]

Keep == UNCHANGED <<loopVars, queue, taken>>

\* Mutant: the url is read from the queue but stays in it.
TakeUrlKeeping(t) ==
    /\ queue[t[1]] # <<>>
    /\ Goes(t, "idle", "prepare")
    /\ taken' = [taken EXCEPT ![t[1]][Head(queue[t[1]])] = @ + 1]
    /\ UNCHANGED <<loopVars, queue, items, result, pool, dbVars>>

\* pop_front under the queue's mutex.
TakeUrl(t) ==
    /\ queue[t[1]] # <<>>
    /\ Goes(t, "idle", "prepare")
    /\ queue' = [queue EXCEPT ![t[1]] = Tail(@)]
    /\ taken' = [taken EXCEPT ![t[1]][Head(queue[t[1]])] = @ + 1]
    /\ UNCHANGED <<loopVars, items, result, pool, dbVars>>

NoMoreUrls(t) ==
    /\ queue[t[1]] = <<>>
    /\ Goes(t, "idle", "done")
    /\ UNCHANGED <<loopVars, queue, taken, items, result, pool, dbVars>>

\* new_cycle_context and init_telemetry.
Prepare(t) ==
    /\ Goes(t, "prepare", "fetch")
    /\ UNCHANGED <<loopVars, queue, taken, items, result, pool, dbVars>>

\* After a run: the worker of a url queue takes the next url, else it ends.
AfterRun == IF HasUrls THEN "idle" ELSE "done"

\* Either of them fails: `?` leaves run_once before any lifecycle hook.
PrepareFails(t) ==
    /\ Hooked
    /\ Goes(t, "prepare", AfterRun)
    /\ UNCHANGED <<loopVars, queue, taken, items, result, pool, dbVars>>

\* run_once_inner returns: the items it holds go with it.
Leave(t, r) ==
    /\ wpc' = [wpc EXCEPT ![t] = "closing"]
    /\ result' = [result EXCEPT ![t] = r]
    /\ items' = [items EXCEPT ![t] = {}]

\* before_fetch, fetch or override_fetch, after_fetch.  A failed fetch is an
\* error unless after_fetch makes a response of it; a hook may abort.
Fetch(t) ==
    /\ Goes(t, "fetch", "extract")
    /\ Keep /\ UNCHANGED <<items, result, pool, dbVars>>

FetchEnds(t) ==
    /\ wpc[t] = "fetch"
    /\ Leave(t, "err") \/ (Hooked /\ Leave(t, "ok"))
    /\ Keep /\ UNCHANGED <<pool, dbVars>>

\* extract or override_extract, after_extract: the page's items, if any.
Extract(t) ==
    /\ Goes(t, "extract", "store")
    /\ \E S \in (SUBSET Hashes) \ {{}} : items' = [items EXCEPT ![t] = S]
    /\ Keep /\ UNCHANGED <<result, pool, dbVars>>

ExtractEnds(t) ==
    /\ wpc[t] = "extract"
    /\ Leave(t, "err") \/ Leave(t, "ok")
    /\ Keep /\ UNCHANGED <<pool, dbVars>>

\* filter_item or the keyword filter, before_store, then the batch goes to
\* the blocking pool.  The filters may leave no item; hooks may replace them.
Store(t) ==
    /\ Goes(t, "store", "storing")
    /\ \E S \in SUBSET (IF Hooked THEN Hashes ELSE items[t]) :
           items' = [items EXCEPT ![t] = S]
    /\ pool' = [pool EXCEPT ![t] = "running"]
    /\ Keep /\ UNCHANGED <<result, dbVars>>

\* before_store returns nil, or one of the hooks' conversions fails.
StoreEnds(t) ==
    /\ wpc[t] = "store"
    /\ Hooked
    /\ Leave(t, "err") \/ Leave(t, "ok")
    /\ Keep /\ UNCHANGED <<pool, dbVars>>

\* Mutant: the batch is checked against "seen" but new items are not marked.
CommitWithoutMark(t) ==
    /\ pool[t] = "running"
    /\ pool' = [pool EXCEPT ![t] = "done"]
    /\ items' = [items EXCEPT ![t] = @ \ seen]
    /\ UNCHANGED <<loopVars, queue, taken, wpc, result, dbVars>>

\* batch_check_and_insert commits on a blocking thread, whether or not the
\* worker that handed it over still exists.
Commit(t) ==
    /\ pool[t] = "running"
    /\ pool' = [pool EXCEPT ![t] = "done"]
    /\ items' = [items EXCEPT ![t] = @ \ seen]
    /\ seen' = seen \cup items[t]
    /\ UNCHANGED <<loopVars, queue, taken, wpc, result, told, posted>>

\* A closure that was still queued when its worker was dropped never runs.
NeverRun(t) ==
    /\ pool[t] = "running"
    /\ wpc[t] = "dropped"
    /\ pool' = [pool EXCEPT ![t] = "none"]
    /\ items' = [items EXCEPT ![t] = {}]
    /\ UNCHANGED <<loopVars, queue, taken, wpc, result, dbVars>>

\* The batch's result is awaited: new items go on, none ends the run.
Stored(t) ==
    /\ wpc[t] = "storing"
    /\ pool[t] = "done"
    /\ pool' = [pool EXCEPT ![t] = "none"]
    /\ IF items[t] # {}
       THEN wpc' = [wpc EXCEPT ![t] = "notify"] /\ UNCHANGED <<items, result>>
       ELSE Leave(t, "ok")
    /\ Keep /\ UNCHANGED dbVars

\* The batch failed: nothing was committed, the run ends with the error.
StoreFails(t) ==
    /\ wpc[t] = "storing"
    /\ pool[t] = "running"
    /\ pool' = [pool EXCEPT ![t] = "none"]
    /\ Leave(t, "err")
    /\ Keep /\ UNCHANGED dbVars

Count(f, S) == [h \in Hashes |-> IF h \in S THEN f[h] + 1 ELSE f[h]]

\* before_notify may take items out of the notification, or skip it; the
\* webhook that follows still gets all new items.  Items a hook makes up
\* itself are its own and left out.
Notify(t) ==
    /\ Goes(t, "notify", "webhook")
    /\ \E S \in (IF Hooked THEN SUBSET items[t] ELSE {items[t]}) :
           told' = Count(told, S)
    /\ Keep /\ UNCHANGED <<items, result, pool, seen, posted>>

\* before_notify, or the conversion of what it returns, fails: `?` skips the
\* webhook.  A notification the desktop cannot show is only a warning.
NotifyFails(t) ==
    /\ wpc[t] = "notify"
    /\ Hooked
    /\ Leave(t, "err")
    /\ Keep /\ UNCHANGED <<pool, dbVars>>

\* before_webhook may abort; a failed delivery is only logged.
Webhook(t) ==
    /\ wpc[t] = "webhook"
    /\ Leave(t, "ok")
    /\ posted' = Count(posted, items[t])
    /\ Keep /\ UNCHANGED <<pool, seen, told>>

WebhookEnds(t) ==
    /\ wpc[t] = "webhook"
    /\ Hooked
    /\ Leave(t, "err") \/ Leave(t, "ok")
    /\ Keep /\ UNCHANGED <<pool, dbVars>>

\* Mutant: a failed run is tried again at once, until it succeeds.
CloseRetrying(t) ==
    /\ Goes(t, "closing", IF result[t] = "err" THEN "prepare"
                          ELSE IF Hooked THEN "finally" ELSE AfterRun)
    /\ Keep /\ UNCHANGED <<items, result, pool, dbVars>>

\* finalize, then on_success or on_error.
Close(t) ==
    /\ Goes(t, "closing", IF Hooked THEN "finally" ELSE AfterRun)
    /\ Keep /\ UNCHANGED <<items, result, pool, dbVars>>

\* on_finally.
Finally(t) ==
    /\ Goes(t, "finally", "cleanup")
    /\ Keep /\ UNCHANGED <<items, result, pool, dbVars>>

\* The context's reserved fields are cleared and the result is logged.
Cleanup(t) ==
    /\ Goes(t, "cleanup", AfterRun)
    /\ result' = [result EXCEPT ![t] = "none"]
    /\ Keep /\ UNCHANGED <<items, pool, dbVars>>

\* A panic in a stage ends the worker's task; the task keeps the payload.
Panic(t) ==
    /\ Panics
    /\ wpc[t] \in InRun
    /\ wpc' = [wpc EXCEPT ![t] = "panicked"]
    /\ items' = [items EXCEPT ![t] = {}]
    /\ pool' = [pool EXCEPT ![t] = "none"]
    /\ Keep /\ UNCHANGED <<result, dbVars>>

\* The executor drops the future of a worker whose loop is gone or dead.  A
\* batch it waits for stays on the pool.
DropWorker(t) ==
    /\ loop[t[1]] \in {"gone", "dead"}
    /\ wpc[t] \in Running
    /\ wpc' = [wpc EXCEPT ![t] = "dropped"]
    /\ IF pool[t] = "running"
       THEN UNCHANGED <<items, pool>>
       ELSE /\ items' = [items EXCEPT ![t] = {}]
            /\ pool' = [pool EXCEPT ![t] = "none"]
    /\ Keep /\ UNCHANGED <<result, dbVars>>
-----------------------------------------------------------------------------
LoopStep(g) ==
    \/ BeginCycle(g) \/ SpawnWorker(g) \/ JoinWorker(g) \/ JoinPanicked(g)
    \/ Finish(g) \/ Respawn(g) \/ DropLoop(g)

\* The steps that take no longer than the code lets them.
TimelyStep(t) ==
    \/ TakeUrl(t) \/ NoMoreUrls(t) \/ Prepare(t) \/ PrepareFails(t)
    \/ Fetch(t) \/ FetchEnds(t) \/ Extract(t) \/ ExtractEnds(t)
    \/ Store(t) \/ StoreEnds(t) \/ Stored(t) \/ StoreFails(t)
    \/ Notify(t) \/ NotifyFails(t)
    \/ Close(t) \/ Finally(t) \/ Cleanup(t) \/ DropWorker(t)

WorkerStep(t) == TimelyStep(t) \/ Webhook(t) \/ WebhookEnds(t)

PoolStep(t) == Commit(t) \/ NeverRun(t)

Next ==
    \/ \E g \in Gens : LoopStep(g) \/ Cancel(g)
    \/ \E t \in Tasks : WorkerStep(t) \/ PoolStep(t) \/ Panic(t)

Spec == Init /\ [][Next]_vars

\* The executor's threads poll every woken task, timers fire, blocking
\* threads run what they took.  Nothing makes reloads or panics happen, and
\* nothing makes the webhook's server answer: it is posted to without a timeout.
Fairness ==
    /\ \A g \in Gens : WF_vars(LoopStep(g))
    /\ \A t \in Tasks : WF_vars(TimelyStep(t)) /\ WF_vars(PoolStep(t))

FairSpec == Spec /\ Fairness
-----------------------------------------------------------------------------
(***************************************************************************)
(* on_finished runs after every run of the cycle has ended, its lifecycle  *)
(* hooks included (docs/multi-worker.md:167): no worker of a sleeping loop *)
(* is alive, so no run of a cycle meets the next cycle of its own loop.    *)
(***************************************************************************)
FinishedIsLast ==
    \A g \in Gens : loop[g] = "sleeping" =>
        \A i \in Workers(g) : wpc[<<g, i>>] = "done"

(***************************************************************************)
(* The workers of a cycle share the urls: none is scraped twice in a       *)
(* cycle, and a cycle that finishes has scraped all of them.               *)
(***************************************************************************)
UrlsShared ==
    HasUrls => \A g \in Gens, u \in DOMAIN UrlList :
                   /\ taken[g][u] <= 1
                   /\ loop[g] = "sleeping" => taken[g][u] = 1

(***************************************************************************)
(* A notification or a webhook never carries an item that is not in the    *)
(* database, not even while a reload cancels and commits cross.            *)
(***************************************************************************)
TellsOnlySeen == \A h \in Hashes : told[h] + posted[h] # 0 => h \in seen

(***************************************************************************)
(* The deduplication promise holds for notifications and for webhooks,     *)
(* across workers, cycles and generations.                                 *)
(***************************************************************************)
Held(stages) ==
    UNION {items[t] : t \in {u \in Tasks : pool[u] = "done" \/ wpc[u] \in stages}}

NotifyPromise == INSTANCE SeenStore WITH owed <- Held({"notify"})
WebhookPromise == INSTANCE SeenStore
                  WITH owed <- Held({"notify", "webhook"}), told <- posted

ToldOnce == NotifyPromise!Spec /\ WebhookPromise!Spec

(***************************************************************************)
(* docs/multi-worker.md:250: the job loop does not stop if a worker        *)
(* panics, and on_finished still runs.                                     *)
(***************************************************************************)
BatchContinuity == \A g \in Gens : loop[g] # "dead"

(***************************************************************************)
(* A cycle that is not cut off by a reload or a panic ends, and the job    *)
(* sleeps until its next one, unless a worker waits for ever for the       *)
(* webhook's answer: that call alone has no timeout (webhook.rs:69).       *)
(***************************************************************************)
CyclesEnd ==
    \A g \in Gens :
        loop[g] = "cycle" ~> \/ loop[g] = "sleeping" \/ cancelled[g] \/ loop[g] = "dead"
                             \/ \E i \in Workers(g) : [](wpc[<<g, i>>] = "webhook")

(***************************************************************************)
(* A reload leaves nothing behind: the tasks of a cancelled generation end *)
(* for good, and their batches leave the blocking pool.                    *)
(***************************************************************************)
CancelledEnds ==
    \A g \in Gens :
        cancelled[g] ~> [](\A i \in Workers(g) : /\ wpc[<<g, i>>] \in Ended
                                              /\ pool[<<g, i>>] # "running")
=============================================================================
