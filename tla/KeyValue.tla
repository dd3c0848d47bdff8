------------------------------ MODULE KeyValue ------------------------------
(***************************************************************************)
(* The key-value store hooks use (lua/bindings/storage.rs, sql.rs) over    *)
(* the lua_user table of either backend.  A call of a hook is a closure    *)
(* run by the blocking pool: it is queued, starts, and takes effect in one *)
(* transaction.  A reload drops the hooks of all jobs: it cancels the      *)
(* closures that are still queued, and those that run become strays that   *)
(* take effect next to the hooks of the new generation.                    *)
(*                                                                         *)
(* Keys and job ids are sequences of characters, since one is the prefix   *)
(* of the other; an id has no colon (config/types.rs, normalize_job_id).   *)
(***************************************************************************)
EXTENDS Naturals, Sequences

CONSTANTS
    Jobs, Workers,    \* the workers of all jobs
    JobOf,            \* the job of a worker
    Id,               \* the id of a job
    Char, Colon,
    Names,            \* keys a hook may pass to store_get, store_set, ...
    GlobalNames,      \* keys a hook may pass to global_store_*
    Text,             \* a value that is no number
    None,             \* no value, no key, no call, no worker
    Default, Delta,   \* arguments of global_store_incr
    MaxCalls, MaxReloads   \* bounds

\* own: the key went through the job's prefix.
Calls ==
    [op : {"get", "set", "delete", "incr", "begin", "rollback", "commit"}, by : Jobs,
     key : Seq(Char) \cup {None}, own : BOOLEAN, val : Nat \cup {Text, None}]

IdAssumption ==
    /\ JobOf \in [Workers -> Jobs]
    /\ Colon \in Char
    /\ Id \in [Jobs -> Seq(Char \ {Colon})]
    /\ \A j, k \in Jobs : Id[j] = Id[k] => j = k
    /\ Names \subseteq Seq(Char)
    /\ GlobalNames \subseteq Seq(Char)
    /\ None \notin Workers \cup Calls
    /\ MaxCalls \in Nat /\ MaxReloads \in Nat

VARIABLES
    engine,    \* the backend
    kv,        \* lua_user: key -> [val, by, own], by and own for the properties
    held,      \* sqlite: the table as of a BEGIN nobody has ended yet, or None
    open,      \* Db.backend is Some(_)
    vm,        \* the worker whose hook holds the Lua VM of a job
    hook,      \* per worker: where it is, its call, the key it read and its value
    strays,    \* running closures of hooks that a reload has dropped
    disturbed, \* history: another writer changed what the hook has read
    calls, reloads

vars == <<engine, kv, held, open, vm, hook, strays, disturbed, calls, reloads>>

\* Mutant: the prefix of a job is its id alone.
OwnKeyBare(j, n) == Id[j] \o n

\* register: the key of store_set and its companions.
OwnKey(j, n) == Id[j] \o <<Colon>> \o n

Call(op, j, key, own, val) ==
    [op |-> op, by |-> j, key |-> key, own |-> own, val |-> val]

\* The call a hook makes next: it reads a key of its own and then replaces or
\* deletes it, or uses the keys that all jobs share, or runs SQL.
CallsOf(w) ==
    LET j == JobOf[w]
        read == hook[w].key
        next == IF hook[w].val \in Nat THEN hook[w].val + 1 ELSE 0
    IN  {Call("get", j, OwnKey(j, n), TRUE, None) : n \in Names}
        \cup (IF read = None THEN {} ELSE
              {Call("set", j, read, TRUE, next),
               Call("delete", j, read, TRUE, None)})
        \cup {Call("set", j, n, FALSE, Text) : n \in GlobalNames}
        \cup {Call("incr", j, n, FALSE, None) : n \in GlobalNames}
        \cup (IF engine = "sqlite"
              THEN {Call(op, j, None, FALSE, None) : op \in {"begin", "rollback", "commit"}}
              ELSE {})

Lookup(table, key) == IF key \in DOMAIN table THEN table[key].val ELSE None

\* A text counts as absent for redb, and as zero for sqlite's CAST.
Increment(val) ==
    CASE val \in Nat -> val + Delta
      [] val = Text /\ engine = "sqlite" -> Delta
      [] OTHER -> Default + Delta

Put(c, val) ==
    [k \in DOMAIN kv \cup {c.key} |->
        IF k = c.key THEN [val |-> val, by |-> c.by, own |-> c.own] ELSE kv[k]]

\* The table after a call: a failing one (closed database, COMMIT or ROLLBACK
\* outside of a transaction) is logged or raised and changes nothing.
After(c) ==
    CASE ~open -> kv
      [] open /\ c.op = "set" -> Put(c, c.val)
      [] open /\ c.op = "incr" -> Put(c, Increment(Lookup(kv, c.key)))
      [] open /\ c.op = "delete" -> [k \in DOMAIN kv \ {c.key} |-> kv[k]]
      [] open /\ c.op = "rollback" /\ held # None -> held.table
      [] OTHER -> kv

\* What a ROLLBACK goes back to: SQLite knows no BEGIN inside of a transaction.
HeldAfter(c) ==
    CASE open /\ c.op = "begin" /\ held = None -> [table |-> kv]
      [] open /\ c.op \in {"rollback", "commit"} -> None
      [] OTHER -> held

\* One transaction, or one statement under the connection's mutex.
TakesEffect(c) == kv' = After(c) /\ held' = HeldAfter(c)

\* The call changes a key that the hook of w has read.
Disturbs(c, w) ==
    /\ hook[w].key # None
    /\ Lookup(After(c), hook[w].key) # Lookup(kv, hook[w].key)

Out == [at |-> "out", call |-> None, key |-> None, val |-> None]

Init ==
    /\ engine \in {"redb", "sqlite"}
    /\ kv = [k \in {} |-> None] /\ held = None
    /\ open = TRUE
    /\ vm = [j \in Jobs |-> None]
    /\ hook = [w \in Workers |-> Out]
    /\ strays = {}
    /\ disturbed = [w \in Workers |-> FALSE]
    /\ calls = 0 /\ reloads = 0

\* Mutant: a hook does not wait for the VM.
EnterWithoutVm(w) ==
    /\ hook[w].at = "out"
    /\ vm' = [vm EXCEPT ![JobOf[w]] = w]
    /\ hook' = [hook EXCEPT ![w].at = "in"]
    /\ UNCHANGED <<engine, kv, held, open, strays, disturbed, calls, reloads>>

\* A hook starts with the VM's lock and keeps it over all its awaits.
Enter(w) ==
    /\ hook[w].at = "out"
    /\ vm[JobOf[w]] = None
    /\ vm' = [vm EXCEPT ![JobOf[w]] = w]
    /\ hook' = [hook EXCEPT ![w].at = "in"]
    /\ UNCHANGED <<engine, kv, held, open, strays, disturbed, calls, reloads>>

Leave(w) ==
    /\ hook[w].at = "in"
    /\ vm' = [vm EXCEPT ![JobOf[w]] = None]
    /\ hook' = [hook EXCEPT ![w] = Out]
    /\ disturbed' = [disturbed EXCEPT ![w] = FALSE]
    /\ UNCHANGED <<engine, kv, held, open, strays, calls, reloads>>

Queue(w) ==
    /\ hook[w].at = "in" /\ calls < MaxCalls
    /\ \E c \in CallsOf(w) :
           hook' = [hook EXCEPT ![w].at = "queued", ![w].call = c]
    /\ calls' = calls + 1
    /\ UNCHANGED <<engine, kv, held, open, vm, strays, disturbed, reloads>>

Start(w) ==
    /\ hook[w].at = "queued"
    /\ hook' = [hook EXCEPT ![w].at = "running"]
    /\ UNCHANGED <<engine, kv, held, open, vm, strays, disturbed, calls, reloads>>

\* The hook resumes with the reply: it knows a key from its read until its
\* write.  A read on a closed database replies nil.
Run(w) ==
    LET c == hook[w].call
        ends == c.own /\ c.op # "get"
        in == [hook[w] EXCEPT !.at = "in", !.call = None]
    IN  /\ hook[w].at = "running"
        /\ TakesEffect(c)
        /\ hook' = [hook EXCEPT ![w] =
               IF c.op = "get"
               THEN [in EXCEPT !.key = c.key,
                               !.val = IF open THEN Lookup(kv, c.key) ELSE None]
               ELSE IF ends THEN [in EXCEPT !.key = None, !.val = None] ELSE in]
        /\ disturbed' = [u \in Workers |->
               IF u = w /\ (ends \/ c.op = "get") THEN FALSE
               ELSE disturbed[u] \/ (~c.own /\ Disturbs(c, u))]
        /\ UNCHANGED <<engine, open, vm, strays, calls, reloads>>

\* job_manager drops all tasks and builds new VMs.
Reload ==
    /\ reloads < MaxReloads
    /\ strays' = strays \cup {hook[w].call : w \in {u \in Workers : hook[u].at = "running"}}
    /\ hook' = [w \in Workers |-> Out]
    /\ vm' = [j \in Jobs |-> None]
    /\ disturbed' = [w \in Workers |-> FALSE]
    /\ reloads' = reloads + 1
    /\ UNCHANGED <<engine, kv, held, open, calls>>

Stray ==
    \E c \in strays :
        /\ TakesEffect(c)
        /\ strays' = strays \ {c}
        /\ disturbed' = [u \in Workers |-> disturbed[u] \/ Disturbs(c, u)]
        /\ UNCHANGED <<engine, open, vm, hook, calls, reloads>>

\* The last step of a shutdown; what is not committed is lost with it.
Close ==
    /\ open
    /\ open' = FALSE
    /\ kv' = IF held = None THEN kv ELSE held.table
    /\ held' = None
    /\ UNCHANGED <<engine, vm, hook, strays, disturbed, calls, reloads>>

Next ==
    \/ \E w \in Workers : Enter(w) \/ Leave(w) \/ Queue(w) \/ Start(w) \/ Run(w)
    \/ Reload \/ Stray \/ Close

Spec == Init /\ [][Next]_vars

-----------------------------------------------------------------------------
TypeOK ==
    /\ engine \in {"redb", "sqlite"}
    /\ \A w \in Workers :
           /\ hook[w].at \in {"out", "in", "queued", "running"}
           /\ hook[w].at \in {"queued", "running"} <=> hook[w].call # None
           /\ disturbed[w] => hook[w].key # None
    /\ held # None => engine = "sqlite" /\ open
    /\ calls \in 0..MaxCalls /\ reloads \in 0..MaxReloads

\* What is stored under a key of a job was stored by that job, or through the
\* global functions, whose keys have no prefix: the prefixes of two jobs never
\* meet, even when one id begins with the other.
Isolated ==
    \A j \in Jobs, n \in Names :
        OwnKey(j, n) \in DOMAIN kv /\ kv[OwnKey(j, n)].own
        => kv[OwnKey(j, n)].by = j

\* "Hooks for a single job are sequential" (README.md): between a hook's read
\* of a key of its own and its write nothing changes the value, so no update
\* is lost, but for strays of a generation that a reload has dropped, for
\* global functions that spell the prefix, and for SQL transactions.
UpdateKept ==
    open => \A w \in Workers :
        hook[w].key # None /\ ~disturbed[w]
        => Lookup(kv, hook[w].key) = hook[w].val
=============================================================================
