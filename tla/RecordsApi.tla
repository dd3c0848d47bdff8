----------------------------- MODULE RecordsApi -----------------------------
(***************************************************************************)
(* Reading records over HTTP: GET /api/records of services/server/mod.rs   *)
(* on the reads of the two backends, walked page by page by a client that  *)
(* passes next_after back as after, while cycles keep inserting.           *)
(*                                                                         *)
(* A row is its job, its timestamp and whether its JSON still parses as a  *)
(* Record (SQL from Lua, or another version, may have written it).         *)
(***************************************************************************)
EXTENDS Naturals, Sequences, FiniteSets, SequencesExt

CONSTANTS
    Jobs, MaxTs,   \* the clock ends at MaxTs: inserts take any free time
    Limits,        \* what a client may send as limit, or NoParam
    DefaultLimit, MaxLimit,
    NoParam,       \* a query parameter that is absent or does not parse
    Grain          \* the client keeps numbers as multiples of Grain: 1 for one
                   \* that keeps them exactly, more for ui/index.html

ParamAssumption ==
    /\ NoParam \notin Nat
    /\ {MaxTs, DefaultLimit, MaxLimit} \subseteq Nat
    /\ Limits \subseteq Nat \cup {NoParam}
    /\ Grain \in Nat \ {0}

VARIABLES
    engine,        \* the backend
    rows,          \* the "records" table
    walk,          \* the client: job, limit, after, more
    got,           \* history: the timestamps of all records it was served
    since          \* history: the good rows of the job when the walk began

vars == <<engine, rows, walk, got, since>>

\* Nanoseconds since 1970 are far above the 256 of them that a double may miss.
Clock == Grain..MaxTs

Row == [job : Jobs, ts : Clock, good : BOOLEAN]

Least(a, b) == IF a <= b THEN a ELSE b

RowsOf(j) == {r \in rows : r.job = j}

\* Both tables are read newest first, the key of redb holding MAX - ts: the
\* first n rows of S.
Newest(S, n) == {r \in S : Cardinality({q \in S : q.ts > r.ts}) < n}

\* The rows whose JSON parses.
Parsed(S) == {r \in S : r.good}

Times(S) == {r.ts : r \in S}

\* The k-th of the times has k times that are not before it.
NewestFirst(T) ==
    [k \in 1..Cardinality(T) |->
        CHOOSE t \in T : Cardinality({u \in T : u >= t}) = k]

\* redb starts the range one behind the cursor, and saturates at its end.
Before(r, after) == after = NoParam \/ r.ts < after \/ (after = 0 /\ r.ts = 0)

\* Mutant: rows that do not parse count for the limit, too.
RedbPageCountingAll(j, limit, after) ==
    Parsed(Newest({r \in RowsOf(j) : Before(r, after)}, limit))

\* redb counts the rows that parse, and looks at its limit after each row.
RedbPage(j, limit, after) ==
    LET S == {r \in RowsOf(j) : Before(r, after)}
    IN  IF limit = 0 THEN Parsed(Newest(S, 1)) ELSE Newest(Parsed(S), limit)

\* Mutant: the cursor's own record is in the next page again.
SqlitePageFrom(j, limit, after) ==
    Parsed(Newest({r \in RowsOf(j) : after = NoParam \/ r.ts <= after}, limit))

\* sqlite limits the rows and drops those that do not parse afterwards.
SqlitePage(j, limit, after) ==
    Parsed(Newest({r \in RowsOf(j) : after = NoParam \/ r.ts < after}, limit))

Page(j, limit, after) ==
    NewestFirst(Times(IF engine = "redb" THEN RedbPage(j, limit, after)
                                         ELSE SqlitePage(j, limit, after)))

\* The newest records of a job in the answer to a request without job_id.
Group(j, limit) ==
    NewestFirst(Times(IF engine = "redb" THEN Newest(Parsed(RowsOf(j)), limit)
                                         ELSE Parsed(Newest(RowsOf(j), limit))))

\* limit as the server reads it from the query.
QueryLimit(p) == Least(IF p = NoParam THEN DefaultLimit ELSE p, MaxLimit)

\* What a client makes of a number it reads and sends back: a double keeps 53
\* bits, ties go to even.  (It is written in decimal with no more digits than
\* tell it from its neighbours; the multiples of Grain stand for what is written.)
Rounded(n) ==
    LET q == n \div Grain
        rest == 2 * (n % Grain)
    IN  IF rest < Grain \/ (rest = Grain /\ q % 2 = 0)
        THEN q * Grain ELSE (q + 1) * Grain

\* Mutant: a page that is just full counts as the last one.
AnswerFullIsLast(page, limit) == [more |-> FALSE, after |-> NoParam]

\* has_more and next_after of a page.
Answer(page, limit) ==
    LET more == Len(page) = limit
    IN  [more  |-> more,
         after |-> IF more /\ page # <<>> THEN Rounded(Last(page)) ELSE NoParam]

TypeOK ==
    /\ engine \in {"redb", "sqlite"}
    /\ rows \subseteq Row
    /\ walk.on \in BOOLEAN
    /\ walk.on => walk.job \in Jobs /\ walk.limit \in 0..MaxLimit
    /\ \A i \in DOMAIN got : got[i] \in Clock

Init ==
    /\ engine \in {"redb", "sqlite"}
    /\ rows = {}
    /\ walk = [on |-> FALSE]
    /\ got = <<>>
    /\ since = {}

\* One row of a batch, at any time of the clock that no row of the job has.
Insert(j, ts, good) ==
    /\ \A r \in RowsOf(j) : r.ts # ts
    /\ rows' = rows \cup {[job |-> j, ts |-> ts, good |-> good]}
    /\ UNCHANGED <<engine, walk, got, since>>

Served(j, limit, after) ==
    LET page == Page(j, limit, after)
        answer == Answer(page, limit)
    IN  /\ walk' = [on |-> TRUE, job |-> j, limit |-> limit,
                    after |-> answer.after]
        /\ got' = (IF after = NoParam THEN <<>> ELSE got) \o page

\* GET /api/records?job_id=...&limit=...
FirstPage(j, p) ==
    /\ ~walk.on
    /\ Served(j, QueryLimit(p), NoParam)
    /\ since' = {r.ts : r \in {r \in RowsOf(j) : r.good}}
    /\ UNCHANGED <<engine, rows>>

\* ... &after=next_after
NextPage ==
    /\ walk.on /\ walk.after # NoParam
    /\ Served(walk.job, walk.limit, walk.after)
    /\ UNCHANGED <<engine, rows, since>>

Next ==
    \/ \E j \in Jobs, ts \in Clock, good \in BOOLEAN : Insert(j, ts, good)
    \/ \E j \in Jobs, p \in Limits : FirstPage(j, p)
    \/ NextPage

Spec == Init /\ [][Next]_vars

-----------------------------------------------------------------------------
\* A walk never serves a record twice and never goes back in time, whatever
\* is inserted while it runs and whichever clock stamped it: a page holds only
\* records before the cursor (redb.rs and sqlite.rs, test_pagination).  A client
\* that rounds sees a record again, or a later one, only where it has rounded
\* the time of a record up, past the other.
WalkDescends ==
    \A i, k \in DOMAIN got : i < k => got[k] < got[i] \/ got[k] < Rounded(got[i])

\* A record that a client misses: it rounded the cursor down past it.
Skipped(t) == \E i \in DOMAIN got : Rounded(got[i]) <= t /\ t < got[i]

\* A walk that the server has ended (no next_after) has served every readable
\* record that was there when it began, but for what the client itself skipped.
\* The sqlite backend ends a walk early after a page with an unreadable row, and
\* a limit of 0 ends every walk.
WalkIsComplete ==
    /\ walk.on /\ walk.after = NoParam /\ walk.limit > 0
    /\ engine = "redb" \/ \A r \in RowsOf(walk.job) : r.good
    => \A t \in since : t \in Range(got) \/ Skipped(t)

\* The newest records of a job are the same in the answer for all jobs and in
\* the first page of its own, on either backend and with unreadable rows.
FirstPageAgrees ==
    \A j \in Jobs, limit \in 1..MaxLimit :
        Group(j, limit) = Page(j, limit, NoParam)
=============================================================================
