--------------------------- MODULE RequestHandler ---------------------------
(***************************************************************************)
(* scraper/request.rs: one RequestHandler, in the Runner that entry.rs     *)
(* shares among all jobs.  A fetch selects a proxy, takes an agent and     *)
(* reads the answer up to a limit.  Workers fetch at the same time: the    *)
(* round-robin counter is an atomic of finite width, the default agent is  *)
(* made once and kept.                                                     *)
(***************************************************************************)
EXTENDS Naturals, Sequences, FiniteSets, Functions

CONSTANTS
    Workers,
    Jobs,
    JobOf,        \* the job of a worker
    Proxy,        \* per job: [enabled, rotate, urls]
    OwnProxy,     \* a proxy before_fetch may put into the request
    None,
    Wrap,         \* 2^w for the width w of the counter
    MaxFetches    \* bound on the fetches of a worker

ProxyAssumption ==
    /\ Wrap \in Nat \ {0} /\ JobOf \in [Workers -> Jobs]
    /\ \A j \in Jobs :
           /\ Proxy[j].urls \in Seq(Range(Proxy[j].urls))
           /\ Proxy[j].rotate \in {"Sticky", "Random", "RoundRobin"}

VARIABLES
    nextIndex,    \* next_proxy_index
    default,      \* default_agent, None until it is made
    fetch,        \* per worker: [at, proxy, quick, agent, result, count]
    given         \* history: [job, proxy] of each request that rotation served

vars == <<nextIndex, default, fetch, given>>

Rotates(j) ==
    Proxy[j].enabled /\ Proxy[j].urls # <<>> /\ Proxy[j].rotate = "RoundRobin"

Agents == [proxy : (UNION {Range(Proxy[j].urls) : j \in Jobs}) \cup {OwnProxy, None},
           quick : BOOLEAN]

Init ==
    /\ nextIndex = 0
    /\ default = None
    /\ fetch = [w \in Workers |-> [at |-> "idle", proxy |-> None, quick |-> FALSE,
                                   agent |-> None, result |-> None, count |-> 0]]
    /\ given = <<>>

\* index % urls.len(), and Rust's sequences start at 0.
ProxyAt(j, index) == Proxy[j].urls[(index % Len(Proxy[j].urls)) + 1]

\* fetch_add
Draw == nextIndex' = (nextIndex + 1) % Wrap

\* select_proxy
Choices(j) ==
    IF ~Proxy[j].enabled \/ Proxy[j].urls = <<>> THEN {None}
    ELSE CASE Proxy[j].rotate = "Sticky" -> {Proxy[j].urls[1]}
           [] Proxy[j].rotate = "Random" -> Range(Proxy[j].urls)
           [] Proxy[j].rotate = "RoundRobin" -> {ProxyAt(j, nextIndex)}

\* Mutant: the job's proxy is selected whether the request has its own or not.
SelectEagerly(j, own) == IF Rotates(j) THEN Draw ELSE UNCHANGED nextIndex

\* req.proxy.or_else(|| self.select_proxy(job))
Select(j, own) == IF own = None /\ Rotates(j) THEN Draw ELSE UNCHANGED nextIndex

\* A hook may give the request a proxy and a timeout of its own.
Start(w, own, quick) ==
    /\ fetch[w].at = "idle" /\ fetch[w].count < MaxFetches
    /\ Select(JobOf[w], own)
    /\ \E p \in IF own = None THEN Choices(JobOf[w]) ELSE {own} :
           /\ fetch' = [fetch EXCEPT ![w] =
                           [at |-> "agent", proxy |-> p, quick |-> quick, agent |-> None,
                            result |-> None, count |-> @.count + 1]]
           /\ given' = IF own = None /\ Rotates(JobOf[w])
                          THEN Append(given, [job |-> JobOf[w], proxy |-> p]) ELSE given
    /\ UNCHANGED default

\* get_agent: only an agent without proxy and with the default timeout is kept.
GetAgent(w) ==
    /\ fetch[w].at = "agent"
    /\ LET asked == [proxy |-> fetch[w].proxy, quick |-> fetch[w].quick]
           keeps == asked.proxy = None /\ ~asked.quick
       IN  /\ default' = IF keeps /\ default = None THEN asked ELSE default
           /\ fetch' = [fetch EXCEPT ![w].at = "call", ![w].agent = IF keeps THEN default' ELSE asked]
    /\ UNCHANGED <<nextIndex, given>>

\* A proxy url the client cannot parse: the attempt ends before the call.
NoAgent(w) ==
    /\ fetch[w].at = "agent" /\ fetch[w].proxy # None
    /\ fetch' = [fetch EXCEPT ![w].at = "idle", ![w].result = "error"]
    /\ UNCHANGED <<nextIndex, default, given>>

\* The call fails, or read_body_bounded refuses the body, or it is read.
Call(w, result) ==
    /\ fetch[w].at = "call"
    /\ fetch' = [fetch EXCEPT ![w].at = "idle", ![w].result = result]
    /\ UNCHANGED <<nextIndex, default, given>>

Next ==
    \E w \in Workers :
        \/ \E own \in {None, OwnProxy}, quick \in BOOLEAN : Start(w, own, quick)
        \/ GetAgent(w) \/ NoAgent(w)
        \/ \E result \in {"error", "body"} : Call(w, result)

Spec == Init /\ [][Next]_vars

-----------------------------------------------------------------------------
TypeOK ==
    /\ nextIndex \in 0..(Wrap - 1)
    /\ default \in Agents \cup {None}
    /\ \A w \in Workers : fetch[w].agent \in Agents \cup {None}

Times(j, p) == Cardinality({i \in DOMAIN given : given[i] = [job |-> j, proxy |-> p]})

Alone(j) == \A i \in DOMAIN given : given[i].job = j

(***************************************************************************)
(* RoundRobin deals the proxies of a job to its workers' requests without  *)
(* one getting two more than another, however the workers interleave,      *)
(* which hooks choose a proxy themselves and what fails.  This holds while *)
(* no other job rotates: the counter is shared by all jobs, and two that   *)
(* take turns with two proxies each always get the same one.  It also ends *)
(* where the counter wraps, unless the number of proxies divides its range,*)
(* and a proxy that the configuration lists twice gets two turns.          *)
(***************************************************************************)
RotationIsEven ==
    \A j \in Jobs :
        Rotates(j) /\ IsInjective(Proxy[j].urls) /\ Alone(j)
        /\ (Len(given) <= Wrap \/ Wrap % Len(Proxy[j].urls) = 0) =>
            \A p, q \in Range(Proxy[j].urls) : Times(j, p) <= Times(j, q) + 1

(***************************************************************************)
(* A request goes through the proxy selected for it, with its own timeout, *)
(* although one agent is kept for all jobs.                                *)
(***************************************************************************)
AgentFits ==
    \A w \in Workers :
        fetch[w].at = "call" =>
            fetch[w].agent = [proxy |-> fetch[w].proxy, quick |-> fetch[w].quick]
=============================================================================
