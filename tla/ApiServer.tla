----------------------------- MODULE ApiServer -----------------------------
(***************************************************************************)
(* The HTTP API (services/server/mod.rs) and the Lua endpoints behind it   *)
(* (lua/server/mod.rs).  Each request has a thread and a Lua VM of its own *)
(* and reads server/init.lua anew, which may be saved at any moment.       *)
(* Functions passed to defer() run after the handler and before the        *)
(* response is returned.                                                   *)
(***************************************************************************)
EXTENDS Naturals, Sequences, SequencesExt

CONSTANTS
    Requests,
    HasKey,      \* SPYWEB_API_KEY is set
    Luau,        \* built with the luau feature, which has the 30 s timeout
    MaxDefers    \* bound on the functions a request defers

BoundAssumption == MaxDefers \in Nat

Paths == {"public", "v", "records", "jobs", "other", "static"}

\* What init.lua may define for one name: handlers in get, all, public.get and
\* public.all (the method of all requests is GET).
Tables == {"get", "all", "public.get", "public.all"}

\* The file, as a set: its tables, or that it is not there, or has an error.
InitFiles == (SUBSET Tables) \cup {{"missing"}, {"error"}}

VARIABLES
    init,    \* server/init.lua
    req      \* per request, a record

vars == <<init, req>>

New == [at |-> "new", path |-> "other", keyed |-> FALSE, defines |-> {},
        made |-> 0, queue |-> <<>>, batch |-> <<>>, ran |-> <<>>,
        called |-> "none", late |-> FALSE, answer |-> 0]

TypeOK ==
    /\ init \in InitFiles
    /\ \A r \in Requests :
        /\ req[r].at \in {"new", "routed", "loading", "resolving", "handling",
                          "deferred", "sweeping", "answered"}
        /\ req[r].made \in 0..MaxDefers
        /\ req[r].answer \in {0, 200, 401, 404, 500}
        /\ req[r].at = "answered" <=> req[r].answer # 0

Init ==
    /\ init = {"missing"}
    /\ req = [r \in Requests |-> New]

\* A save adds or removes one handler, or breaks or removes the file.  Bound:
\* saves that no request will see any more are left out.
Save ==
    /\ \E r \in Requests : req[r].at \in {"new", "routed"}
    /\ init' \in {{"missing"}, {"error"}, {}}
               \cup {SymDiff(init \cap Tables, {t}) : t \in Tables}
    /\ UNCHANGED req

\* Request r is at this place, and becomes that record.
Steps(r, at, after) ==
    /\ req[r].at = at
    /\ req' = [req EXCEPT ![r] = after]
    /\ UNCHANGED init

Answered(record, status) == [record EXCEPT !.at = "answered", !.answer = status]

\* Mutant: the key is not asked for under /api/v.
AuthorizedSkippingV(path, keyed) ==
    path \in {"public", "static", "v"} \/ ~HasKey \/ keyed

\* All of /api but /api/public/ takes the key, if one is set.
Authorized(path, keyed) == path \in {"public", "static"} \/ ~HasKey \/ keyed

\* listen, handle_api_request: records, jobs and static files are answered at
\* once, and so is a Lua path without a name.
Route(r, path, keyed, named) ==
    LET seen == [req[r] EXCEPT !.path = path, !.keyed = keyed]
    IN  Steps(r, "new",
            IF ~Authorized(path, keyed) THEN Answered(seen, 401)
            ELSE IF path \in {"public", "v"}
                 THEN IF named THEN [seen EXCEPT !.at = "routed"] ELSE Answered(seen, 404)
            ELSE IF path = "other" THEN Answered(seen, 404) ELSE Answered(seen, 200))

\* "Server configuration not available"
ReadInit(r) ==
    Steps(r, "routed",
        IF init = {"missing"} THEN Answered(req[r], 500)
        ELSE [req[r] EXCEPT !.at = "loading", !.defines = init])

\* defer(), by the top level of init.lua, the handler, or a deferred function.
\* After the timeout the interrupt ends Lua code before its first call.
Defer(r) ==
    /\ req[r].at \in {"loading", "handling", "sweeping"}
    /\ ~(Luau /\ req[r].late)
    /\ req[r].at = "sweeping" => req[r].ran # <<>>
    /\ req[r].made < MaxDefers
    /\ req' = [req EXCEPT ![r].made = @ + 1,
                          ![r].queue = Append(@, req[r].made + 1)]
    /\ UNCHANGED init

\* The 30 seconds have passed.
Timeout(r) ==
    /\ Luau /\ ~req[r].late
    /\ req[r].at \in {"loading", "handling", "deferred", "sweeping"}
    /\ req' = [req EXCEPT ![r].late = TRUE]
    /\ UNCHANGED init

\* init.lua has run: an error, of its own or from the interrupt, ends the
\* request, deferred functions or not.
Loaded(r, fails) ==
    /\ fails => req[r].late \/ req[r].defines = {"error"}
    /\ req[r].defines = {"error"} => fails
    /\ Steps(r, "loading", IF fails THEN Answered(req[r], 500)
                           ELSE [req[r] EXCEPT !.at = "resolving"])

\* The first of these tables that init.lua has filled.
FirstDefined(order, record) ==
    LET places == {i \in DOMAIN order : order[i] \in record.defines}
    IN  IF places = {} THEN "none" ELSE order[Min(places)]

\* Mutant: a public path that names no public handler falls back on the others.
HandlerOfAny(record) ==
    FirstDefined(IF record.path = "public"
                 THEN <<"public.get", "public.all", "get", "all">> ELSE <<"get", "all">>,
                 record)

\* resolve_handler: the method's table first, then all's.
HandlerOf(record) ==
    FirstDefined(IF record.path = "public"
                 THEN <<"public.get", "public.all">> ELSE <<"get", "all">>,
                 record)

\* A 404 leaves what init.lua has deferred.
Resolve(r) ==
    LET handler == HandlerOf(req[r])
    IN  Steps(r, "resolving",
            IF handler = "none" THEN Answered(req[r], 404)
            ELSE [req[r] EXCEPT !.at = "handling", !.called = handler])

\* The handler returns, or fails; the response is formatted, an error logged.
Handled(r, fails) ==
    Steps(r, "handling", [req[r] EXCEPT !.at = "deferred",
                                        !.called = IF fails THEN "failed" ELSE @])

\* Mutant: functions deferred while others run are left in the old table.
SwapOnce(r) ==
    Steps(r, "deferred",
        IF req[r].queue = <<>> \/ req[r].ran # <<>>
        THEN Answered(req[r], IF req[r].called = "failed" THEN 500 ELSE 200)
        ELSE [req[r] EXCEPT !.at = "sweeping", !.batch = Reverse(req[r].queue),
                            !.queue = <<>>])

\* run_deferred: while the queue has functions it is swapped for a fresh one,
\* and those in it run from the last to the first.
Swap(r) ==
    Steps(r, "deferred",
        IF req[r].queue = <<>>
        THEN Answered(req[r], IF req[r].called = "failed" THEN 500 ELSE 200)
        ELSE [req[r] EXCEPT !.at = "sweeping", !.batch = Reverse(req[r].queue),
                            !.queue = <<>>])

\* The next function is called; it may Defer before the one after it.  Its
\* error is logged.
RunNext(r) ==
    Steps(r, "sweeping",
        IF req[r].batch = <<>> THEN [req[r] EXCEPT !.at = "deferred"]
        ELSE [req[r] EXCEPT !.batch = Tail(@), !.ran = Append(@, Head(req[r].batch))])

Next ==
    \/ Save
    \/ \E r \in Requests :
           \/ \E path \in Paths, keyed, named \in BOOLEAN : Route(r, path, keyed, named)
           \/ ReadInit(r) \/ Defer(r) \/ Timeout(r) \/ Resolve(r)
           \/ \E fails \in BOOLEAN : Loaded(r, fails) \/ Handled(r, fails)
           \/ Swap(r) \/ RunNext(r)

Spec == Init /\ [][Next]_vars

-----------------------------------------------------------------------------
\* A handler that was called has all its deferred functions run, each once,
\* before the response is returned, those that deferred functions defer too,
\* even when the handler failed or ran out of time.
DeferredBeforeAnswer ==
    \A r \in Requests :
        req[r].at = "answered" /\ req[r].called # "none"
        => Len(req[r].ran) = req[r].made /\ ToSet(req[r].ran) = 1..req[r].made

\* Public requests reach public handlers only, and the other handlers take the
\* key whenever one is set, whatever version of init.lua they were read from.
HandlersFit ==
    \A r \in Requests :
        /\ req[r].called \in {"public.get", "public.all"} => req[r].path = "public"
        /\ req[r].called \in {"get", "all"}
           => req[r].path = "v" /\ (HasKey => req[r].keyed)
=============================================================================
