---------------------------- MODULE RecordStore ----------------------------
(***************************************************************************)
(* The embedded database as the pipeline uses it: Db (services/db/mod.rs), *)
(* its two backends, and batch_check_and_insert, which deduplicates the    *)
(* items of a cycle against the "seen" table and inserts the new ones into *)
(* "records" inside one write transaction.                                 *)
(*                                                                         *)
(* An item is represented by its deduplication hash (helpers.rs,           *)
(* hash_fields): two items with one hash are one item to this code.  A     *)
(* record is keyed by <<job_id, timestamp>>; redb stores u64::MAX - ts,    *)
(* which is a bijection, so the key is modelled by the timestamp itself.   *)
(* The timestamp comes from SystemTime::now(), which may repeat or step    *)
(* back: every insert takes any value of Timestamps.                       *)
(***************************************************************************)
EXTENDS Naturals, Sequences, FiniteSets

CONSTANTS
    Hashes,      \* deduplication hashes of items
    JobIds,      \* job ids, the first half of a record's key
    Callers,     \* threads of the blocking pool running a batch
    Timestamps,  \* what now_nanos() may return
    Batches,     \* the item lists a cycle may store, as hash sequences
    NoOne        \* no transaction is open

ASSUME BatchesAssumption == Batches \subseteq Seq(Hashes)
ASSUME NoOneAssumption == NoOne \notin Callers

VARIABLES
    backend,    \* the storage engine, chosen at build time
    open,       \* Db.backend is Some(_)
    pc,         \* where each caller is
    job,        \* the job id of each caller's batch
    todo,       \* the items of the batch not examined yet
    writer,     \* the caller that owns the write transaction
    txSeen,     \* "seen" as the open transaction sees it
    txRecords,  \* "records" as the open transaction sees it
    txNew,      \* new_items collected by the open transaction
    seen,       \* the committed "seen" table
    records,    \* the committed "records" table
    fresh,      \* new_items of a committed batch, not returned yet
    told        \* history: how often a caller was told a hash is new

dbVars == <<backend, seen, records>>
txVars == <<writer, txSeen, txRecords, txNew>>
vars == <<backend, open, pc, job, todo, writer, txSeen, txRecords, txNew,
          seen, records, fresh, told>>

Record == [job : JobIds, ts : Timestamps, hash : Hashes]

\* Callers inside with_backend: they hold the read guard of Db.backend.
Guarded == {c \in Callers : pc[c] \in {"guarded", "writing", "committed"}}

TypeOK ==
    /\ backend \in {"redb", "sqlite"}
    /\ open \in BOOLEAN
    /\ pc \in [Callers -> {"idle", "called", "guarded", "writing", "committed"}]
    /\ job \in [Callers -> JobIds]
    /\ todo \in [Callers -> Seq(Hashes)]
    /\ writer \in Callers \cup {NoOne}
    /\ txSeen \subseteq Hashes
    /\ txRecords \subseteq Record
    /\ txNew \subseteq Hashes
    /\ seen \subseteq Hashes
    /\ records \subseteq Record
    /\ fresh \in [Callers -> SUBSET Hashes]
    /\ told \in [Hashes -> Nat]

Init ==
    /\ backend \in {"redb", "sqlite"}
    /\ open = TRUE
    /\ pc = [c \in Callers |-> "idle"]
    /\ job \in [Callers -> JobIds]
    /\ todo = [c \in Callers |-> <<>>]
    /\ writer = NoOne
    /\ txSeen = {} /\ txRecords = {} /\ txNew = {}
    /\ seen = {} /\ records = {}
    /\ fresh = [c \in Callers |-> {}]
    /\ told = [h \in Hashes |-> 0]

Moves(c, from, to) ==
    /\ pc[c] = from
    /\ pc' = [pc EXCEPT ![c] = to]

\* Every early return and the end of the transaction drop the caller's state.
Finish(c) ==
    /\ pc' = [pc EXCEPT ![c] = "idle"]
    /\ todo' = [todo EXCEPT ![c] = <<>>]

EndTransaction ==
    /\ writer' = NoOne
    /\ txSeen' = {} /\ txRecords' = {} /\ txNew' = {}

-----------------------------------------------------------------------------
\* A cycle's store stage hands a batch to the blocking pool.
Call(c, j, batch) ==
    /\ Moves(c, "idle", "called")
    /\ job' = [job EXCEPT ![c] = j]
    /\ todo' = [todo EXCEPT ![c] = batch]
    /\ UNCHANGED <<open, txVars, dbVars, fresh, told>>

\* with_backend: take the read guard, or fail with "database is closed".
Enter(c) ==
    /\ open
    /\ Moves(c, "called", "guarded")
    /\ UNCHANGED <<open, job, todo, txVars, dbVars, fresh, told>>

Refuse(c) ==
    /\ ~open
    /\ pc[c] = "called"
    /\ Finish(c)
    /\ UNCHANGED <<open, job, txVars, dbVars, fresh, told>>

\* redb: begin_write waits for the live write transaction.
\* sqlite: the connection's mutex is held for the whole call.
Begin(c) ==
    /\ writer = NoOne
    /\ Moves(c, "guarded", "writing")
    /\ writer' = c
    /\ txSeen' = seen /\ txRecords' = records /\ txNew' = {}
    /\ UNCHANGED <<open, job, todo, dbVars, fresh, told>>

\* The next item's hash is in the table (redb: get; sqlite: OR IGNORE
\* changed no row): the item is not new.
Skip(c) ==
    /\ writer = c
    /\ todo[c] # <<>>
    /\ Head(todo[c]) \in txSeen
    /\ todo' = [todo EXCEPT ![c] = Tail(@)]
    /\ UNCHANGED <<open, pc, job, txVars, dbVars, fresh, told>>

SameKey(r, j, ts) == r.job = j /\ r.ts = ts

\* The insert into records: redb replaces the value of an existing key,
\* sqlite refuses it (PRIMARY KEY), and `?` then leaves by Fail.
Put(j, ts, h) ==
    /\ backend = "sqlite" => ~ \E r \in txRecords : SameKey(r, j, ts)
    /\ txRecords' = {r \in txRecords : ~SameKey(r, j, ts)}
                        \cup {[job |-> j, ts |-> ts, hash |-> h]}

\* Mutant: the hash is looked up in the table as it was when the
\* transaction began, not in the table the transaction is writing.
InsertUnlessCommitted(c) ==
    /\ writer = c
    /\ todo[c] # <<>>
    /\ Head(todo[c]) \notin seen
    /\ \E ts \in Timestamps : Put(job[c], ts, Head(todo[c]))
    /\ txSeen' = txSeen \cup {Head(todo[c])}
    /\ txNew' = txNew \cup {Head(todo[c])}
    /\ todo' = [todo EXCEPT ![c] = Tail(@)]
    /\ UNCHANGED <<open, pc, job, writer, dbVars, fresh, told>>

\* The next item is new: mark it seen, insert its record, collect it.
Insert(c) ==
    /\ writer = c
    /\ todo[c] # <<>>
    /\ Head(todo[c]) \notin txSeen
    /\ \E ts \in Timestamps : Put(job[c], ts, Head(todo[c]))
    /\ txSeen' = txSeen \cup {Head(todo[c])}
    /\ txNew' = txNew \cup {Head(todo[c])}
    /\ todo' = [todo EXCEPT ![c] = Tail(@)]
    /\ UNCHANGED <<open, pc, job, writer, dbVars, fresh, told>>

\* Mutant: an error after some inserts keeps what was already written.
FailKeepingSeen(c) ==
    /\ writer = c
    /\ seen' = txSeen
    /\ EndTransaction
    /\ Finish(c)
    /\ UNCHANGED <<backend, open, job, records, fresh, told>>

\* Any `?` between begin and commit drops the transaction: rollback.
Fail(c) ==
    /\ writer = c
    /\ EndTransaction
    /\ Finish(c)
    /\ UNCHANGED <<open, job, dbVars, fresh, told>>

\* Mutant: only the records are committed, the marks in "seen" are lost.
CommitRecordsOnly(c) ==
    /\ writer = c
    /\ todo[c] = <<>>
    /\ Moves(c, "writing", "committed")
    /\ records' = txRecords
    /\ fresh' = [fresh EXCEPT ![c] = txNew]
    /\ EndTransaction
    /\ UNCHANGED <<backend, open, job, todo, seen, told>>

\* All items examined: commit makes both tables visible at once.
Commit(c) ==
    /\ writer = c
    /\ todo[c] = <<>>
    /\ Moves(c, "writing", "committed")
    /\ seen' = txSeen
    /\ records' = txRecords
    /\ fresh' = [fresh EXCEPT ![c] = txNew]
    /\ EndTransaction
    /\ UNCHANGED <<backend, open, job, todo, told>>

\* Ok(new_items): the read guard is dropped, the caller knows its new items.
Return(c) ==
    /\ pc[c] = "committed"
    /\ told' = [h \in Hashes |-> IF h \in fresh[c] THEN told[h] + 1 ELSE told[h]]
    /\ fresh' = [fresh EXCEPT ![c] = {}]
    /\ Finish(c)
    /\ UNCHANGED <<open, job, txVars, dbVars>>

\* The cycle that waits for the blocking task is cancelled (its job loop's
\* task is dropped on a reload).  A task still queued never runs; a running
\* one finishes and its result goes nowhere.
Cancel(c) ==
    /\ pc[c] \in {"called", "committed"}
    /\ fresh' = [fresh EXCEPT ![c] = {}]
    /\ Finish(c)
    /\ UNCHANGED <<open, job, txVars, dbVars, told>>

\* Mutant: close takes the backend without waiting for running operations.
CloseAtOnce ==
    /\ open
    /\ open' = FALSE
    /\ UNCHANGED <<pc, job, todo, txVars, dbVars, fresh, told>>

\* Db::close takes the write guard, so it waits for every read guard.
Close ==
    /\ open
    /\ Guarded = {}
    /\ open' = FALSE
    /\ UNCHANGED <<pc, job, todo, txVars, dbVars, fresh, told>>

\* The process ends (killed, or exit after close) and is started again:
\* the file keeps the committed tables, everything else is new.
Restart ==
    /\ open' = TRUE
    /\ pc' = [c \in Callers |-> "idle"]
    /\ todo' = [c \in Callers |-> <<>>]
    /\ EndTransaction
    /\ fresh' = [c \in Callers |-> {}]
    /\ UNCHANGED <<job, dbVars, told>>

Step(c) ==
    \/ Enter(c) \/ Refuse(c) \/ Begin(c) \/ Skip(c)
    \/ Insert(c) \/ Fail(c) \/ Commit(c) \/ Return(c) \/ Cancel(c)

Next ==
    \/ \E c \in Callers, j \in JobIds, batch \in Batches : Call(c, j, batch)
    \/ \E c \in Callers : Step(c)
    \/ Close
    \/ Restart

Spec == Init /\ [][Next]_vars
-----------------------------------------------------------------------------
(***************************************************************************)
(* No hash is reported as new twice, whichever workers and jobs race for   *)
(* it, and whatever fails or restarts in between (redb.rs:101-143,         *)
(* sqlite.rs:141-183).  "seen" has no job id: this holds across jobs.      *)
(***************************************************************************)
AtMostOnce == \A h \in Hashes : told[h] <= 1

(***************************************************************************)
(* A record never exists for a hash that is not marked seen: a rolled-back *)
(* batch leaves neither half behind.                                       *)
(***************************************************************************)
RecordsAreSeen == \A r \in records : r.hash \in seen

(***************************************************************************)
(* Every hash that is suppressed as a duplicate has its record, exactly    *)
(* one.  sqlite keeps it: a timestamp collision rolls the batch back.      *)
(* redb does not: the second insert overwrites the first one's record.     *)
(***************************************************************************)
OneRecordPerSeenHash ==
    backend = "sqlite" => \A h \in seen : Cardinality({r \in records : r.hash = h}) = 1

(***************************************************************************)
(* Db::close waits for running operations: nobody works on a closed        *)
(* database (mod.rs:43-64).                                                *)
(***************************************************************************)
NoWorkWhenClosed == Guarded # {} => open

(***************************************************************************)
(* Why it works.  At most one transaction is open and it sees the tables   *)
(* as they are, plus its own writes; what is committed and not returned    *)
(* belongs to one caller and nobody was told of it.  With the three        *)
(* properties above this is inductive.                                     *)
(***************************************************************************)
OneWriter == \A c \in Callers : pc[c] = "writing" <=> writer = c

TransactionView ==
    writer # NoOne =>
        /\ txSeen = seen \cup txNew
        /\ txNew \cap seen = {}
        /\ \A r \in txRecords : r.hash \in txSeen

FreshIsOwned ==
    \A c \in Callers :
        /\ fresh[c] # {} => pc[c] = "committed"
        /\ fresh[c] \subseteq seen
        /\ \A h \in fresh[c] : told[h] = 0
        /\ \A d \in Callers \ {c} : fresh[c] \cap fresh[d] = {}

ToldIsSeen == \A h \in Hashes : told[h] # 0 => h \in seen

Consistent ==
    /\ OneWriter
    /\ TransactionView
    /\ FreshIsOwned
    /\ ToldIsSeen
    /\ AtMostOnce
    /\ RecordsAreSeen
    /\ NoWorkWhenClosed

(***************************************************************************)
(* The store implements the deduplication promise of SeenStore.            *)
(***************************************************************************)
Owed == UNION {fresh[c] : c \in Callers}

Promise == INSTANCE SeenStore WITH owed <- Owed

PromiseSpec == Promise!Spec
=============================================================================
