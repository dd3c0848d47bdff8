------------------------------ MODULE Browsers ------------------------------
(***************************************************************************)
(* Browser processes over reloads: cdp.launch and cdp.connect, the lock of *)
(* a profile directory, the process registry, browser:close(), the Drop of *)
(* a Browser, and shutdown_all (cdp/browser.rs, lua/bindings/cdp.rs).      *)
(*                                                                         *)
(* A browser stands for one launch and what comes of it: the future that   *)
(* launches, then the Browser object in a Lua VM, and the process.         *)
(* JobManager has one launch per generation next to the whole reload; this *)
(* module has any number of them, with profiles and keep_alive.            *)
(***************************************************************************)
EXTENDS Naturals, FiniteSets

CONSTANTS
    Browsers,    \* launches and connections
    Dirs,        \* profile directories
    NoDir,       \* a launch outside of a job's directory has no profile
    MaxReloads   \* bound

DirAssumption == NoDir \notin Dirs /\ MaxReloads \in Nat

VARIABLES
    at,          \* none, locked, spawned, connected, up (an object), gone
    dir,         \* its user_data_dir
    keep,        \* its keep_alive
    old,         \* it belongs to a generation that a reload has dropped
    lock,        \* the browsers that hold the lock file of their directory
    running,     \* the browsers whose process runs
    child,       \* the browsers whose Option<Child> is Some
    registry,    \* the browsers whose child slot is registered
    leaked,      \* history: launches cancelled with a process of their own
    reloads

vars == <<at, dir, keep, old, lock, running, child, registry, leaked, reloads>>

Launching(b) == at[b] \in {"locked", "spawned", "connected"}

TypeOK ==
    /\ at \in [Browsers -> {"none", "locked", "spawned", "connected", "up", "gone"}]
    /\ dir \in [Browsers -> Dirs \cup {NoDir}]
    /\ keep \in [Browsers -> BOOLEAN]
    /\ old \subseteq Browsers
    /\ lock \subseteq {b \in Browsers : dir[b] # NoDir}
    /\ running \subseteq Browsers
    /\ child \subseteq Browsers
    /\ registry \subseteq Browsers
    /\ leaked \subseteq Browsers
    /\ reloads \in 0..MaxReloads

Init ==
    /\ at = [b \in Browsers |-> "none"]
    /\ dir = [b \in Browsers |-> NoDir]
    /\ keep = [b \in Browsers |-> FALSE]
    /\ old = {} /\ lock = {} /\ running = {} /\ child = {}
    /\ registry = {} /\ leaked = {} /\ reloads = 0

Moves(b, from, to) == at[b] = from /\ at' = [at EXCEPT ![b] = to]

\* try_lock_exclusive, on a file handle of its own.
LockFree(d) == \A b \in lock : dir[b] # d

\* Launch, step 1: the lock of the directory, or an error when it is taken.
Lock(b, d, k) ==
    /\ Moves(b, "none", "locked")
    /\ d # NoDir => LockFree(d)
    /\ dir' = [dir EXCEPT ![b] = d]
    /\ keep' = [keep EXCEPT ![b] = k]
    /\ lock' = IF d = NoDir THEN lock ELSE lock \cup {b}
    /\ UNCHANGED <<old, running, child, registry, leaked, reloads>>

\* A launch that ends drops its lock file; a child it has is killed.
Fail(b) ==
    /\ b \notin old /\ at[b] \in {"locked", "spawned"}
    /\ at' = [at EXCEPT ![b] = "gone"]
    /\ lock' = lock \ {b}
    /\ running' = running \ {b}
    /\ UNCHANGED <<dir, keep, old, child, registry, leaked, reloads>>

\* Step 3.
Spawn(b) ==
    /\ b \notin old
    /\ Moves(b, "locked", "spawned")
    /\ running' = running \cup {b}
    /\ UNCHANGED <<dir, keep, old, lock, child, registry, leaked, reloads>>

\* Steps 4 and 5: the process has told its URL, and the transport stands.  The
\* rest of the launch runs in the same poll, which a reload does not stop.
Connect(b) ==
    /\ b \notin old
    /\ Moves(b, "spawned", "connected")
    /\ UNCHANGED <<dir, keep, old, lock, running, child, registry, leaked, reloads>>

\* Mutant: registering prunes the children that live.
RegisterPruningLive(b) ==
    /\ Moves(b, "connected", "up")
    /\ child' = child \cup {b}
    /\ registry' = (registry \ child) \cup {b}
    /\ UNCHANGED <<dir, keep, old, lock, running, leaked, reloads>>

\* Mutant: the lock file does not move into the Browser.
RegisterWithoutLock(b) ==
    /\ Moves(b, "connected", "up")
    /\ child' = child \cup {b}
    /\ registry' = (registry \cap child) \cup {b}
    /\ lock' = lock \ {b}
    /\ UNCHANGED <<dir, keep, old, running, leaked, reloads>>

\* Step 6; registering drops the slots that are empty by now.
Register(b) ==
    /\ Moves(b, "connected", "up")
    /\ child' = child \cup {b}
    /\ registry' = (registry \cap child) \cup {b}
    /\ UNCHANGED <<dir, keep, old, lock, running, leaked, reloads>>

\* cdp.connect: no process, no lock, and keep_alive.
ConnectRemote(b) ==
    /\ Moves(b, "none", "up")
    /\ keep' = [keep EXCEPT ![b] = TRUE]
    /\ UNCHANGED <<dir, old, lock, running, child, registry, leaked, reloads>>

\* The task of a launch is dropped at an await: so are the lock file and the
\* Child, and dropping a Child does not kill it.
CancelLaunch(b) ==
    /\ b \in old /\ at[b] \in {"locked", "spawned"}
    /\ at' = [at EXCEPT ![b] = "gone"]
    /\ lock' = lock \ {b}
    /\ leaked' = leaked \cup ({b} \cap running)
    /\ UNCHANGED <<dir, keep, old, running, child, registry, reloads>>

\* Browser::close: the child is taken and killed, the lock is released.
Closing(b) ==
    /\ child' = child \ {b}
    /\ running' = IF b \in child THEN running \ {b} ELSE running
    /\ lock' = lock \ {b}

\* browser:close() makes keep_alive false.
Close(b) ==
    /\ at[b] = "up" /\ b \notin old
    /\ keep' = [keep EXCEPT ![b] = FALSE]
    /\ Closing(b)
    /\ UNCHANGED <<at, dir, old, registry, leaked, reloads>>

\* Mutant: a Browser that is collected leaves its process alone.
DropKeeping(b) ==
    /\ Moves(b, "up", "gone")
    /\ lock' = lock \ {b}
    /\ UNCHANGED <<dir, keep, old, running, child, registry, leaked, reloads>>

\* The object is collected, or goes with its VM.  With keep_alive the process
\* lives on in the registry, but the lock file is dropped all the same.
Drop(b) ==
    /\ Moves(b, "up", "gone")
    /\ IF keep[b] THEN lock' = lock \ {b} /\ UNCHANGED <<running, child>>
                  ELSE Closing(b)
    /\ UNCHANGED <<dir, keep, old, registry, leaked, reloads>>

\* The process ends by itself; nobody is told.
Crash(b) ==
    /\ b \in running
    /\ running' = running \ {b}
    /\ UNCHANGED <<at, dir, keep, old, lock, child, registry, leaked, reloads>>

\* shutdown_all, at a reload, after all tasks were told to stop.
Reload ==
    /\ reloads < MaxReloads
    /\ reloads' = reloads + 1
    /\ old' = {b \in Browsers : at[b] # "none"}
    /\ running' = running \ (registry \cap child)
    /\ child' = child \ registry
    /\ registry' = {}
    /\ UNCHANGED <<at, dir, keep, lock, leaked>>

Next ==
    \/ \E b \in Browsers :
           \/ \E d \in Dirs \cup {NoDir}, k \in BOOLEAN : Lock(b, d, k)
           \/ Fail(b) \/ Spawn(b) \/ Connect(b) \/ Register(b)
           \/ ConnectRemote(b) \/ CancelLaunch(b)
           \/ Close(b) \/ Drop(b) \/ Crash(b)
    \/ Reload

Spec == Init /\ [][Next]_vars

-----------------------------------------------------------------------------
\* Two browsers that a launch or an object owns never run on one profile: the
\* lock file lives as long as they do.  (A process that outlived its object,
\* by keep_alive or by a cancelled launch, has no lock and may share it.)
ProfileExclusive ==
    \A a, b \in running :
        /\ a # b /\ dir[a] = dir[b] /\ dir[a] # NoDir
        => at[a] = "gone" \/ at[b] = "gone"

\* shutdown_all reaches every process: the process of an object, or of a
\* keep_alive browser whose object is gone, is registered with its child, and
\* only a launch under way or cancelled in the middle has one that is not.
EveryProcessIsKnown ==
    running \subseteq leaked \cup (registry \cap child)
                      \cup {b \in Browsers : Launching(b)}

\* A browser without keep_alive does not outlive its object.
NoneOutlives ==
    \A b \in running : at[b] = "gone" /\ b \notin leaked => keep[b]
=============================================================================
