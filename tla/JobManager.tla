----------------------------- MODULE JobManager -----------------------------
(***************************************************************************)
(* The process around the jobs (entry.rs): the config watcher, the job     *)
(* manager that reloads and respawns all jobs, the browsers their hooks    *)
(* launch, and shutdown_system, which runs on a thread of its own.         *)
(*                                                                         *)
(* All jobs of one config load form a generation: they are spawned and     *)
(* their handles dropped together.  Dropping a handle only cancels: the    *)
(* task lives until the executor drops its future (Pipeline shows what it  *)
(* may still do).  Config contents are numbered by write: an editor that   *)
(* saves in several writes makes several, what the file holds between them *)
(* included.  Valid says which of them load.                               *)
(***************************************************************************)
EXTENDS Naturals

CONSTANTS
    MaxEdits,   \* bound: writes to a .toml or .lua file, and renames over one
    Valid       \* the contents that load_all_jobs accepts

Versions == 0..MaxEdits
Gens == 0..MaxEdits     \* one reload per save at most

ASSUME EditsAssumption == MaxEdits \in Nat
\* start_app_with_port returns an error unless the first load succeeds.
ASSUME ValidAssumption == Valid \subseteq Versions /\ 0 \in Valid

VARIABLES
    disk,       \* the config on disk
    noticed,    \* history: the last write the watcher was told of
    watcher,    \* the thread running watch_configs
    events,     \* notify events the watcher has not handled
    reloads,    \* messages in the reload channel
    stop,       \* messages in the stop channel, at most one
    mgr,        \* where job_manager is
    base,       \* the config on disk when the current load began
    loaded,     \* what the current load returned
    gen,        \* the generation job_manager's handles belong to
    conf,       \* the config of each generation
    listed,     \* the config active_job_ids describes
    task,       \* the tasks of each generation
    browser,    \* a browser process launched by each generation
    phase,      \* how far shutdown_system is
    dbOpen      \* Db.backend is Some(_)

configVars == <<disk, noticed, watcher, events>>
mgrVars == <<mgr, base, loaded, gen, conf, listed>>
vars == <<disk, noticed, watcher, events, reloads, stop, mgr, base, loaded,
          gen, conf, listed, task, browser, phase, dbOpen>>

TypeOK ==
    /\ disk \in Versions /\ noticed \in Versions /\ base \in Versions
    /\ watcher \in {"starting", "watching", "failed"}
    /\ events \in 0..MaxEdits /\ reloads \in 0..MaxEdits
    /\ stop \in BOOLEAN
    /\ mgr \in {"waiting", "debounce", "loading", "dropping", "killing",
                "spawning", "stopped"}
    /\ loaded \in Valid
    /\ gen \in Gens
    /\ conf \in [Gens -> Valid]
    /\ listed \in Valid
    /\ task \in [Gens -> {"none", "live", "cancelled", "gone"}]
    /\ browser \in [Gens -> {"none", "starting", "running", "leaked"}]
    /\ phase \in {"up", "stopping", "teardown", "closed", "exited"}
    /\ dbOpen \in BOOLEAN

\* The first load and spawn_jobs are done, the threads are started.
Init ==
    /\ disk = 0 /\ noticed = 0 /\ base = 0
    /\ watcher = "starting" /\ events = 0 /\ reloads = 0 /\ stop = FALSE
    /\ mgr = "waiting" /\ loaded = 0
    /\ gen = 0 /\ conf = [g \in Gens |-> 0] /\ listed = 0
    /\ task = [g \in Gens |-> IF g = 0 THEN "live" ELSE "none"]
    /\ browser = [g \in Gens |-> "none"]
    /\ phase = "up" /\ dbOpen = TRUE

Up == phase # "exited"

-----------------------------------------------------------------------------
(* The user and the watcher thread.                                        *)

\* A config or Lua file is written to.  Before watch() there is nobody to tell.
Edit ==
    /\ Up
    /\ disk < MaxEdits
    /\ disk' = disk + 1
    /\ IF watcher = "watching"
       THEN events' = events + 1 /\ noticed' = disk + 1
       ELSE UNCHANGED <<events, noticed>>
    /\ UNCHANGED <<watcher, reloads, stop, mgrVars, task, browser, phase, dbOpen>>

\* Another file is renamed over it, the way many tools save.  The watcher is
\* told, but is_write_event is false for a rename: nothing comes of it.
Replace ==
    /\ Up
    /\ disk < MaxEdits
    /\ disk' = disk + 1
    /\ UNCHANGED <<noticed, watcher, events, reloads, stop, mgrVars, task, browser,
                   phase, dbOpen>>

WatchStarts ==
    /\ Up
    /\ watcher = "starting"
    /\ watcher' = "watching"
    /\ UNCHANGED <<disk, noticed, events, reloads, stop, mgrVars, task, browser,
                   phase, dbOpen>>

\* recommended_watcher or watch fails: the error is printed, and the reload
\* channel's only sender is dropped with the thread.
WatchFails ==
    /\ Up
    /\ watcher = "starting"
    /\ watcher' = "failed"
    /\ UNCHANGED <<disk, noticed, events, reloads, stop, mgrVars, task, browser,
                   phase, dbOpen>>

\* One write event becomes one try_send on the unbounded channel.
Notice ==
    /\ Up
    /\ events > 0
    /\ events' = events - 1
    /\ reloads' = reloads + 1
    /\ UNCHANGED <<disk, noticed, watcher, stop, mgrVars, task, browser, phase,
                   dbOpen>>

-----------------------------------------------------------------------------
(* job_manager.                                                             *)

CancelTasks == task' = [task EXCEPT ![gen] = "cancelled"]

TakeReload ==
    /\ Up
    /\ mgr = "waiting"
    /\ reloads > 0
    /\ reloads' = reloads - 1
    /\ mgr' = "debounce"
    /\ UNCHANGED <<configVars, stop, base, loaded, gen, conf, listed, task,
                   browser, phase, dbOpen>>

\* A stop message, or recv failing on the closed reload channel, ends the
\* manager; `or` polls the reload channel first.  Its handles are dropped.
Break ==
    /\ Up
    /\ mgr = "waiting"
    /\ reloads = 0
    /\ stop \/ watcher = "failed"
    /\ mgr' = "stopped"
    /\ CancelTasks
    /\ UNCHANGED <<configVars, reloads, stop, base, loaded, gen, conf, listed,
                   browser, phase, dbOpen>>

\* After 200 ms the channel is drained, and the load begins.
Drain ==
    /\ Up
    /\ mgr = "debounce"
    /\ reloads' = 0
    /\ base' = disk
    /\ mgr' = "loading"
    /\ UNCHANGED <<configVars, stop, loaded, gen, conf, listed, task, browser,
                   phase, dbOpen>>

\* Mutant: the channel is drained again once the load is done.
LoadAndDrain ==
    /\ Up
    /\ mgr = "loading"
    /\ \E v \in Valid : v \in base..disk /\ loaded' = v
    /\ reloads' = 0
    /\ mgr' = "dropping"
    /\ UNCHANGED <<configVars, stop, base, gen, conf, listed, task, browser,
                   phase, dbOpen>>

\* load_all_jobs reads the files at some time since it began.
Load ==
    /\ Up
    /\ mgr = "loading"
    /\ \E v \in Valid : v \in base..disk /\ loaded' = v
    /\ mgr' = "dropping"
    /\ UNCHANGED <<configVars, reloads, stop, base, gen, conf, listed, task,
                   browser, phase, dbOpen>>

\* Mutant: the handles are dropped before it is known whether the load works.
LoadFailsCancelling ==
    /\ Up
    /\ mgr = "loading"
    /\ (\E v \in base..disk : v \notin Valid) \/ base # disk
    /\ mgr' = "waiting"
    /\ CancelTasks
    /\ UNCHANGED <<configVars, reloads, stop, base, loaded, gen, conf, listed,
                   browser, phase, dbOpen>>

\* What is on disk does not parse or validate, or was caught half written: the
\* old jobs stay.  (Broken hooks do not fail a load: their job gets none.)
LoadFails ==
    /\ Up
    /\ mgr = "loading"
    /\ (\E v \in base..disk : v \notin Valid) \/ base # disk
    /\ mgr' = "waiting"
    /\ UNCHANGED <<configVars, reloads, stop, base, loaded, gen, conf, listed,
                   task, browser, phase, dbOpen>>

\* Mutant: the old handles are detached instead of dropped.
DetachHandles ==
    /\ Up
    /\ mgr = "dropping"
    /\ mgr' = "killing"
    /\ UNCHANGED <<configVars, reloads, stop, base, loaded, gen, conf, listed,
                   task, browser, phase, dbOpen>>

DropHandles ==
    /\ Up
    /\ mgr = "dropping"
    /\ CancelTasks
    /\ mgr' = "killing"
    /\ UNCHANGED <<configVars, reloads, stop, base, loaded, gen, conf, listed,
                   browser, phase, dbOpen>>

\* shutdown_all kills the registered processes of every generation.
KillRegistered ==
    browser' = [g \in Gens |-> IF browser[g] = "running" THEN "none" ELSE browser[g]]

KillBrowsers ==
    /\ Up
    /\ mgr = "killing"
    /\ KillRegistered
    /\ mgr' = "spawning"
    /\ UNCHANGED <<configVars, reloads, stop, base, loaded, gen, conf, listed,
                   task, phase, dbOpen>>

\* The active list is replaced and spawn_jobs starts the new generation.
Spawn ==
    /\ Up
    /\ mgr = "spawning"
    /\ listed' = loaded
    /\ gen' = gen + 1
    /\ conf' = [conf EXCEPT ![gen + 1] = loaded]
    /\ task' = [task EXCEPT ![gen + 1] = "live"]
    /\ mgr' = "waiting"
    /\ UNCHANGED <<configVars, reloads, stop, base, loaded, browser, phase, dbOpen>>

-----------------------------------------------------------------------------
(* The tasks of a generation.  A cancelled task may be in the middle of a   *)
(* poll.                                                                    *)

Polled(g) == Up /\ task[g] \in {"live", "cancelled"}

\* Browser::launch has spawned the process ...
Launch(g) ==
    /\ Polled(g)
    /\ browser[g] = "none"
    /\ browser' = [browser EXCEPT ![g] = "starting"]
    /\ UNCHANGED <<configVars, reloads, stop, mgrVars, task, phase, dbOpen>>

\* ... and registers it once its WebSocket is connected.
Register(g) ==
    /\ Polled(g)
    /\ browser[g] = "starting"
    /\ browser' = [browser EXCEPT ![g] = "running"]
    /\ UNCHANGED <<configVars, reloads, stop, mgrVars, task, phase, dbOpen>>

\* No URL within 5 s, no connection, or close(): the process is killed.
CloseBrowser(g) ==
    /\ Polled(g)
    /\ browser[g] \in {"starting", "running"}
    /\ browser' = [browser EXCEPT ![g] = "none"]
    /\ UNCHANGED <<configVars, reloads, stop, mgrVars, task, phase, dbOpen>>

\* The executor drops the cancelled futures and the Lua VM with them.  A
\* Browser kills its process when dropped; a Child that is not in a Browser
\* yet is dropped without being killed.
DropTask(g) ==
    /\ Up
    /\ task[g] = "cancelled"
    /\ task' = [task EXCEPT ![g] = "gone"]
    /\ browser' = [browser EXCEPT ![g] =
                       CASE @ = "starting" -> "leaked"
                         [] @ = "running" -> "none"
                         [] OTHER -> @]
    /\ UNCHANGED <<configVars, reloads, stop, mgrVars, phase, dbOpen>>

-----------------------------------------------------------------------------
(* shutdown_system, on the signal handler's thread or the tray's.           *)

\* The Pre hooks: a message to the manager, and no wait for it.
SendStop ==
    /\ phase = "up"
    /\ phase' = "stopping"
    /\ stop' = TRUE
    /\ UNCHANGED <<configVars, reloads, mgrVars, task, browser, dbOpen>>

\* browser::shutdown_all, io::shutdown, half a second of sleep.
Teardown ==
    /\ phase = "stopping"
    /\ KillRegistered
    /\ phase' = "teardown"
    /\ UNCHANGED <<configVars, reloads, stop, mgrVars, task, dbOpen>>

\* The Post hook: Db::close.
CloseDb ==
    /\ phase = "teardown"
    /\ dbOpen' = FALSE
    /\ phase' = "closed"
    /\ UNCHANGED <<configVars, reloads, stop, mgrVars, task, browser>>

\* process::exit: what is still running in the process ends, its children
\* do not.
Exit ==
    /\ phase = "closed"
    /\ phase' = "exited"
    /\ task' = [g \in Gens |-> IF task[g] = "none" THEN "none" ELSE "gone"]
    /\ browser' = [g \in Gens |-> IF browser[g] = "none" THEN "none" ELSE "leaked"]
    /\ UNCHANGED <<configVars, reloads, stop, mgrVars, dbOpen>>
-----------------------------------------------------------------------------
Manager ==
    \/ TakeReload \/ Break \/ Drain \/ Load \/ LoadFails
    \/ DropHandles \/ KillBrowsers \/ Spawn

Shutdown == SendStop \/ Teardown \/ CloseDb \/ Exit

Next ==
    \/ Edit \/ Replace \/ WatchStarts \/ WatchFails \/ Notice
    \/ Manager
    \/ \E g \in Gens : Launch(g) \/ Register(g) \/ CloseBrowser(g) \/ DropTask(g)
    \/ Shutdown

Spec == Init /\ [][Next]_vars

\* The threads run; a generation's cancelled tasks are dropped in the end.
Fairness ==
    /\ WF_vars(Manager) /\ WF_vars(Notice) /\ WF_vars(WatchStarts \/ WatchFails)
    /\ \A g \in Gens : WF_vars(DropTask(g))

FairSpec == Spec /\ Fairness
-----------------------------------------------------------------------------
(***************************************************************************)
(* Reloads never leave two generations of jobs running: a live task        *)
(* belongs to the handles the manager holds, and whenever the manager is   *)
(* about to spawn, nothing is live.                                        *)
(***************************************************************************)
OneGeneration ==
    \A g \in Gens :
        task[g] = "live" => g = gen /\ mgr \notin {"killing", "spawning", "stopped"}

(***************************************************************************)
(* The old jobs run until a new config has loaded (CHANGELOG.md:217), and  *)
(* the API's job list describes the jobs that run.                         *)
(***************************************************************************)
JobsKeepRunning ==
    Up /\ mgr \in {"waiting", "debounce", "loading", "dropping"} =>
        task[gen] = "live" /\ listed = conf[gen]

(***************************************************************************)
(* No noticed save is lost: while what the watcher was last told of is on  *)
(* disk, and loads, a message is on its way to the manager, or the manager *)
(* has yet to read the disk, or has read this very content.                *)
(***************************************************************************)
NoticedIsPending ==
    noticed = disk /\ disk \in Valid /\ events + reloads = 0 =>
        /\ mgr = "waiting" => conf[gen] = disk
        /\ mgr = "loading" => base = disk
        /\ mgr \in {"dropping", "killing", "spawning"} => loaded = disk

(***************************************************************************)
(* A save the watcher was told of is loaded, however it races with the     *)
(* debounce, the drain and a load under way, unless it is overwritten, the *)
(* manager has stopped, or the process shuts down.                         *)
(***************************************************************************)
SavesAreLoaded ==
    \A v \in Valid :
        noticed = v ~> conf[gen] = v \/ disk # v \/ mgr = "stopped" \/ phase # "up"

(***************************************************************************)
(* A reload needs a message and a message needs a save: what makes Gens    *)
(* large enough.                                                           *)
(***************************************************************************)
Busy == mgr \in {"debounce", "loading", "dropping", "killing", "spawning"}

ReloadsAreEarned ==
    gen + reloads + events + (IF Busy THEN 1 ELSE 0) <= disk

(***************************************************************************)
(* README.md:113 and CHANGELOG.md:17: jobs stop before the database is     *)
(* closed.                                                                 *)
(***************************************************************************)
JobsStopFirst == ~dbOpen => \A g \in Gens : task[g] # "live"
=============================================================================
