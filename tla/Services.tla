------------------------------ MODULE Services ------------------------------
(***************************************************************************)
(* The services and helpers around the pipeline, each an instance of its   *)
(* module.  They share no state in these models, so a behaviour takes      *)
(* steps of one part only, and the variables of the others keep their      *)
(* initial values: the states are the sum of those of the parts.           *)
(***************************************************************************)
EXTENDS IoService

CONSTANTS
    None, Text, Blank,
    Jobs, Workers, JobOf, Id, Char, Colon, KeyNames, GlobalNames,
    Default, Delta, MaxCalls, StoreReloads,                      \* KeyValue
    Browsers, Dirs, NoDir, BrowserReloads,                       \* Browsers
    Tabs, Handles, Contexts, DefaultCtx, NoTab,                  \* Pages
    IoThreads, MaxFileSize, MaxRotations, MaxTime, MaxLines,     \* LogFiles
    Requests, HasKey, Luau, MaxDefers,                           \* ApiServer
    MaxItems,                                                    \* HookStages
    Tags, MaxTags,                                               \* RawParser
    ReadJobs, MaxTs, Limits, DefaultLimit, MaxLimit, Grain,      \* RecordsApi
    Fetchers, FetchJobs, FetchJobOf, Proxy, OwnProxy,
    Wrap, MaxFetches,                                            \* RequestHandler
    MaxRuns,                                                     \* Updater
    Tomls, JobDirs, IdOf                                         \* JobConfig

VARIABLES
    part,
    kvEngine, kv, held, open, vm, hook, strays, disturbed, calls, kvReloads,
    brAt, brDir, keep, old, lock, running, child, registry, leaked, reloads,
    connected, tab, ctxOf, step, page, wants, context, sent, reused, pgStray,
    now, back, file, text, cache, at, line, used, stray, erased,
    init, req,
    stage, items, new, told, response, tables, kept, outcome,
    nodes, stack, cursor, done,
    engine, rows, walk, got, since,
    nextIndex, default, fetch, given,
    dir, pc, target, retain, runs, whole, before,
    toml, dirs, lua, checked, tried, jobs

KV == INSTANCE KeyValue WITH
    Names <- KeyNames,
    MaxReloads <- StoreReloads, engine <- kvEngine, reloads <- kvReloads

BR == INSTANCE Browsers WITH MaxReloads <- BrowserReloads, at <- brAt, dir <- brDir

PG == INSTANCE Pages WITH stray <- pgStray

LF == INSTANCE LogFiles WITH Workers <- IoThreads

API == INSTANCE ApiServer

HS == INSTANCE HookStages

RP == INSTANCE RawParser

RA == INSTANCE RecordsApi WITH NoParam <- None, Jobs <- ReadJobs

RH == INSTANCE RequestHandler WITH
    Workers <- Fetchers, Jobs <- FetchJobs, JobOf <- FetchJobOf

UP == INSTANCE Updater

JC == INSTANCE JobConfig WITH Dirs <- JobDirs

ASSUME StoreAssumption == KV!IdAssumption
ASSUME BrowserAssumption == BR!DirAssumption
ASSUME PageAssumption == PG!TabAssumption
ASSUME ConfigAssumption == JC!FileAssumption
ASSUME LogAssumption == LF!BoundsAssumption
ASSUME ApiAssumption == API!BoundAssumption
ASSUME StagesAssumption == HS!BoundAssumption
ASSUME ParserAssumption == RP!BoundAssumption
ASSUME ProxyAssumption == RH!ProxyAssumption
ASSUME RecordsAssumption == RA!ParamAssumption

-----------------------------------------------------------------------------
Parts == {"io", "kv", "browsers", "pages", "logs", "api", "stages", "parser",
          "records", "requests", "updater", "config"}

\* The parts that do not run have one initial state.
SumInit ==
    /\ part \in Parts
    /\ Init /\ KV!Init /\ BR!Init /\ PG!Init /\ LF!Init /\ API!Init /\ HS!Init
    /\ RP!Init /\ RA!Init /\ RH!Init /\ UP!Init /\ JC!Init
    /\ part # "kv" => kvEngine = "redb"
    /\ part # "records" => engine = "redb"
    /\ part # "pages" => \A t \in DOMAIN tab : tab[t] = "unused"
    /\ part # "updater" => dir["tray"]["current"] = "none"

kvVars == <<kvEngine, kv, held, open, vm, hook, strays, disturbed, calls, kvReloads>>
brVars == <<brAt, brDir, keep, old, lock, running, child, registry, leaked, reloads>>
pgVars == <<connected, tab, ctxOf, step, page, wants, context, sent, reused, pgStray>>
lfVars == <<now, back, file, text, cache, at, line, used, stray, erased>>
apiVars == <<init, req>>
hsVars == <<stage, items, new, told, response, tables, kept, outcome>>
rpVars == <<nodes, stack, cursor, done>>
raVars == <<engine, rows, walk, got, since>>
rhVars == <<nextIndex, default, fetch, given>>
upVars == <<dir, pc, target, retain, runs, whole, before>>
jcVars == <<toml, dirs, lua, checked, tried, jobs>>

IoStep == part = "io" /\ Next
          /\ UNCHANGED <<part, kvVars, brVars, pgVars, lfVars, apiVars, hsVars, rpVars,
                         raVars, rhVars, upVars, jcVars>>
KvStep == part = "kv" /\ KV!Next
          /\ UNCHANGED <<part, vars, brVars, pgVars, lfVars, apiVars, hsVars, rpVars,
                         raVars, rhVars, upVars, jcVars>>
BrStep == part = "browsers" /\ BR!Next
          /\ UNCHANGED <<part, vars, kvVars, pgVars, lfVars, apiVars, hsVars, rpVars,
                         raVars, rhVars, upVars, jcVars>>
PgStep == part = "pages" /\ PG!Next
          /\ UNCHANGED <<part, vars, kvVars, brVars, lfVars, apiVars, hsVars, rpVars,
                         raVars, rhVars, upVars, jcVars>>
LfStep == part = "logs" /\ LF!Next
          /\ UNCHANGED <<part, vars, kvVars, brVars, pgVars, apiVars, hsVars, rpVars,
                         raVars, rhVars, upVars, jcVars>>
ApiStep == part = "api" /\ API!Next
           /\ UNCHANGED <<part, vars, kvVars, brVars, pgVars, lfVars, hsVars, rpVars,
                          raVars, rhVars, upVars, jcVars>>
HsStep == part = "stages" /\ HS!Next
          /\ UNCHANGED <<part, vars, kvVars, brVars, pgVars, lfVars, apiVars, rpVars,
                         raVars, rhVars, upVars, jcVars>>
RpStep == part = "parser" /\ RP!Next
          /\ UNCHANGED <<part, vars, kvVars, brVars, pgVars, lfVars, apiVars, hsVars,
                         raVars, rhVars, upVars, jcVars>>
RaStep == part = "records" /\ RA!Next
          /\ UNCHANGED <<part, vars, kvVars, brVars, pgVars, lfVars, apiVars, hsVars,
                         rpVars, rhVars, upVars, jcVars>>
RhStep == part = "requests" /\ RH!Next
          /\ UNCHANGED <<part, vars, kvVars, brVars, pgVars, lfVars, apiVars, hsVars,
                         rpVars, raVars, upVars, jcVars>>
UpStep == part = "updater" /\ UP!Next
          /\ UNCHANGED <<part, vars, kvVars, brVars, pgVars, lfVars, apiVars, hsVars,
                         rpVars, raVars, rhVars, jcVars>>
JcStep == part = "config" /\ JC!Next
          /\ UNCHANGED <<part, vars, kvVars, brVars, pgVars, lfVars, apiVars, hsVars,
                         rpVars, raVars, rhVars, upVars>>

SumNext == IoStep \/ KvStep \/ BrStep \/ PgStep \/ LfStep \/ ApiStep \/ HsStep \/ RpStep
           \/ RaStep \/ RhStep \/ UpStep \/ JcStep

sumVars == <<part, vars, kvVars, brVars, pgVars, lfVars, apiVars, hsVars, rpVars,
             raVars, rhVars, upVars, jcVars>>

\* The fairness is that of the file I/O service's threads.
SumSpec == SumInit /\ [][SumNext]_sumVars /\ Fairness

-----------------------------------------------------------------------------
(***************************************************************************)
(* The properties, each stated with its reason in the module of its part.  *)
(***************************************************************************)
\* The variables of the part have their types.
TypesHold ==
    CASE part = "io" -> TypeOK
      [] part = "kv" -> KV!TypeOK
      [] part = "browsers" -> BR!TypeOK
      [] part = "pages" -> PG!TypeOK
      [] part = "logs" -> LF!TypeOK
      [] part = "api" -> API!TypeOK
      [] part = "stages" -> HS!TypeOK
      [] part = "parser" -> RP!TypeOK
      [] part = "records" -> RA!TypeOK
      [] part = "requests" -> RH!TypeOK
      [] part = "updater" -> UP!TypeOK
      [] part = "config" -> JC!TypeOK

\* A job's keys are its own (KeyValue).
Isolated == part = "kv" => KV!Isolated

\* No read-modify-write of a hook loses an update (KeyValue).
UpdateKept == part = "kv" => KV!UpdateKept

\* No two owned browsers run on one profile (Browsers).
ProfileExclusive == part = "browsers" => BR!ProfileExclusive

\* Every browser process is known, and those that are not kept alive end with
\* their object (Browsers).
EveryProcessIsKnown == part = "browsers" => BR!EveryProcessIsKnown /\ BR!NoneOutlives

\* An open page keeps its tab, and no tab is left behind (Pages).
PagesHaveTabs == part = "pages" => PG!PageKeepsTab /\ PG!NoTabIsLeft

\* A page attached in a context is a tab of that context (Pages).
PageInContext == part = "pages" => PG!PageInContext

\* Rotated files by name hold the lines in order (LogFiles).
RotationsInOrder == part = "logs" => LF!RotationsInOrder

\* Deferred functions run before the answer, and handlers get the requests
\* that are theirs (ApiServer).
RequestsHandled == part = "api" => API!DeferredBeforeAnswer /\ API!HandlersFit

\* An item keeps its own metadata through all hooks (HookStages).
MetadataFits == part = "stages" => HS!MetadataFits

\* The raw parser selects what CSS does (RawParser).
SelectsLikeCss == part = "parser" => RP!Nested /\ RP!SelectsLikeCss /\ RP!FirstWithin

\* A walk through the pages serves each record once, newest first, and all of
\* them, but for what the client itself rounds past, beginning where the answer
\* for all jobs does (RecordsApi).
WalkIsComplete ==
    part = "records" => RA!WalkDescends /\ RA!WalkIsComplete /\ RA!FirstPageAgrees

\* Round-robin is even, and a request uses the agent it asked for
\* (RequestHandler).
RotationIsEven == part = "requests" => RH!RotationIsEven /\ RH!AgentFits

\* An update never loses the last complete binary, nor what was installed
\* before its replacement is whole (Updater).
UpdateKeepsABinary == part = "updater" => UP!UpdateKeepsABinary

\* What was validated is what is searched and hashed (JobConfig).
JobsAreTold == part = "config" => JC!JobsAreTold

\* A page attached without a context is one of the default context (Pages);
\* refuted.
DefaultIsDefault == part = "pages" => PG!DefaultIsDefault

\* What `spyweb check config` accepts can be loaded (JobConfig); refuted.
CheckedLoads == part = "config" => JC!CheckedLoads
=============================================================================
