------------------------------ MODULE LuaHooks ------------------------------
(***************************************************************************)
(* The Lua VM of a job (lua/hooks): all workers share it behind an async   *)
(* mutex, which a hook holds from its first instruction to the last of its *)
(* deferred functions, awaits included.  defer() has no argument that says *)
(* whose hook called it: it asks the registry for active_ctx and appends   *)
(* to that context's __deferred table.                                     *)
(*                                                                         *)
(* Which hook runs when is the pipeline's business (Pipeline); here a run  *)
(* is a context with any hooks called on it.  Deferred functions are       *)
(* numbered in the order in which one call of a hook registers them.       *)
(***************************************************************************)
EXTENDS Naturals, Sequences

CONSTANTS
    Workers,    \* the workers of a cycle
    Loop,       \* the job's loop, which calls on_finished
    Nobody,
    MaxQueue,   \* length of __deferred (10000)
    MaxRuns,    \* bound: contexts each worker creates
    MaxHooks,   \* bound: hooks called on a context
    MaxDefers   \* bound: calls of defer() in one call of a hook

ASSUME HoldersAssumption == Loop \notin Workers /\ Nobody \notin Workers \cup {Loop}
ASSUME BoundsAssumption == {MaxQueue, MaxRuns, MaxHooks, MaxDefers} \subseteq Nat

VARIABLES
    holder,     \* who holds the VM's mutex
    active,     \* active_ctx in the registry: <<>> or <<worker, run>>
    loop,       \* where the job's loop is
    pc,         \* where each worker is
    run,        \* the number of each worker's context
    live,       \* the context's reserved keys are there
    calls,      \* hooks called on the context
    queue,      \* the context's __deferred
    batch,      \* the table run_deferred has swapped out, what is left of it
    made,       \* functions deferred during this call of a hook ...
    own,        \* ... by the hook itself ...
    ran         \* ... and run, history

hookVars == <<queue, batch, made, own, ran>>
ctxVars == <<run, live, calls>>
vars == <<holder, active, loop, pc, run, live, calls, queue, batch, made, own, ran>>

TypeOK ==
    /\ holder \in Workers \cup {Loop, Nobody}
    /\ active \in {<<>>} \cup (Workers \X (1..MaxRuns))
    /\ loop \in {"cycle", "joined", "finishing", "dead"}
    /\ pc \in [Workers -> {"off", "run", "wait", "call", "defers", "panicked"}]
    /\ run \in [Workers -> 0..MaxRuns]
    /\ live \in [Workers -> BOOLEAN]
    /\ calls \in [Workers -> 0..MaxHooks]
    /\ \A w \in Workers : queue[w] \in Seq(Nat) /\ Len(queue[w]) <= MaxQueue
    /\ \A w \in Workers : batch[w] \in Seq(Nat) /\ Len(batch[w]) <= MaxQueue
    /\ made \in [Workers -> 0..MaxDefers]
    /\ own \in [Workers -> 0..MaxDefers]
    /\ ran \in [Workers -> Seq(Nat)]

Init ==
    /\ holder = Nobody /\ active = <<>> /\ loop = "cycle"
    /\ pc = [w \in Workers |-> "off"]
    /\ run = [w \in Workers |-> 0]
    /\ live = [w \in Workers |-> FALSE]
    /\ calls = [w \in Workers |-> 0]
    /\ queue = [w \in Workers |-> <<>>]
    /\ batch = [w \in Workers |-> <<>>]
    /\ made = [w \in Workers |-> 0]
    /\ own = [w \in Workers |-> 0]
    /\ ran = [w \in Workers |-> <<>>]

Context(w) == <<w, run[w]>>

Goes(w, from, to) == pc[w] = from /\ pc' = [pc EXCEPT ![w] = to]

-----------------------------------------------------------------------------
(* A run of worker w: a context, hooks, clean-up.                           *)

\* new_cycle_context: under the mutex, without an await.
NewContext(w) ==
    /\ loop = "cycle"
    /\ holder = Nobody
    /\ run[w] < MaxRuns
    /\ Goes(w, "off", "run")
    /\ run' = [run EXCEPT ![w] = @ + 1]
    /\ live' = [live EXCEPT ![w] = TRUE]
    /\ calls' = [calls EXCEPT ![w] = 0]
    /\ queue' = [queue EXCEPT ![w] = <<>>]
    /\ UNCHANGED <<holder, active, loop, batch, made, own, ran>>

\* Mutant: active_ctx is set before the mutex is taken.
AskSettingActive(w) ==
    /\ calls[w] < MaxHooks
    /\ Goes(w, "run", "wait")
    /\ active' = Context(w)
    /\ UNCHANGED <<holder, loop, ctxVars, hookVars>>

\* The pipeline calls a hook the job defines: it waits for the mutex.
Ask(w) ==
    /\ calls[w] < MaxHooks
    /\ Goes(w, "run", "wait")
    /\ UNCHANGED <<holder, active, loop, ctxVars, hookVars>>

\* The mutex is taken, active_ctx set, and the hook's function called.
Enter(w) ==
    /\ holder = Nobody
    /\ Goes(w, "wait", "call")
    /\ holder' = w
    /\ active' = Context(w)
    /\ calls' = [calls EXCEPT ![w] = @ + 1]
    /\ made' = [made EXCEPT ![w] = 0]
    /\ own' = [own EXCEPT ![w] = 0]
    /\ ran' = [ran EXCEPT ![w] = <<>>]
    /\ UNCHANGED <<loop, run, live, queue, batch>>

\* The function is no function any more, or its arguments do not convert.
EnterFails(w) ==
    /\ holder = Nobody
    /\ Goes(w, "wait", "run")
    /\ active' = Context(w)
    /\ calls' = [calls EXCEPT ![w] = @ + 1]
    /\ UNCHANGED <<holder, loop, run, live, hookVars>>

\* defer(f), from the hook or from a deferred function.  A full queue is an
\* error that is raised there.
Defer(w) ==
    /\ holder = w
    /\ made[w] < MaxDefers
    /\ live[active[1]]
    /\ Len(queue[active[1]]) < MaxQueue
    /\ made' = [made EXCEPT ![w] = @ + 1]
    /\ queue' = [queue EXCEPT ![active[1]] = Append(@, made[w] + 1)]
    /\ UNCHANGED <<holder, active, loop, pc, ctxVars, batch, own, ran>>

\* Mutant: an error of the hook leaves before run_deferred.
ReturnOrFail(w) ==
    /\ \/ Goes(w, "call", "defers") /\ UNCHANGED holder
       \/ Goes(w, "call", "run") /\ holder' = Nobody
    /\ own' = [own EXCEPT ![w] = made[w]]
    /\ UNCHANGED <<active, loop, ctxVars, queue, batch, made, ran>>

\* The hook returns or raises an error: either way run_deferred comes next.
Return(w) ==
    /\ Goes(w, "call", "defers")
    /\ own' = [own EXCEPT ![w] = made[w]]
    /\ UNCHANGED <<holder, active, loop, ctxVars, queue, batch, made, ran>>

\* run_deferred takes the queue and puts a fresh table in its place ...
Swap(w) ==
    /\ pc[w] = "defers"
    /\ batch[w] = <<>> /\ queue[w] # <<>>
    /\ batch' = [batch EXCEPT ![w] = queue[w]]
    /\ queue' = [queue EXCEPT ![w] = <<>>]
    /\ UNCHANGED <<holder, active, loop, pc, ctxVars, made, own, ran>>

\* ... runs the functions from the last to the first, whether they fail or
\* not (they may defer again) ...
RunLast(w) ==
    /\ pc[w] = "defers"
    /\ batch[w] # <<>>
    /\ LET n == Len(batch[w])
       IN  /\ batch' = [batch EXCEPT ![w] = SubSeq(@, 1, n - 1)]
           /\ ran' = [ran EXCEPT ![w] = Append(@, batch[w][n])]
    /\ UNCHANGED <<holder, active, loop, pc, ctxVars, queue, made, own>>

\* Mutant: the guard outlives the hook.
DoneHolding(w) ==
    /\ batch[w] = <<>> /\ queue[w] = <<>>
    /\ Goes(w, "defers", "run")
    /\ UNCHANGED <<holder, active, loop, ctxVars, hookVars>>

\* ... and ends with an empty queue; the hook's result is converted and the
\* mutex released.
Done(w) ==
    /\ batch[w] = <<>> /\ queue[w] = <<>>
    /\ Goes(w, "defers", "run")
    /\ holder' = Nobody
    /\ UNCHANGED <<active, loop, ctxVars, hookVars>>

\* cleanup_cycle_state, without the mutex, after the last hook of the run.
Cleanup(w) ==
    /\ Goes(w, "run", "off")
    /\ live' = [live EXCEPT ![w] = FALSE]
    /\ UNCHANGED <<holder, active, loop, run, calls, hookVars>>

\* A panic unwinds the worker, and the guard with it; this mutex knows no
\* poisoning.  What was deferred never runs.
Panic(w) ==
    /\ pc[w] \in {"call", "defers"}
    /\ pc' = [pc EXCEPT ![w] = "panicked"]
    /\ holder' = Nobody
    /\ UNCHANGED <<active, loop, ctxVars, hookVars>>

-----------------------------------------------------------------------------
(* The loop.                                                                *)

Join ==
    /\ loop = "cycle"
    /\ \A w \in Workers : pc[w] = "off"
    /\ loop' = "joined"
    /\ UNCHANGED <<holder, active, pc, ctxVars, hookVars>>

JoinPanicked ==
    /\ loop = "cycle"
    /\ \E w \in Workers : pc[w] = "panicked"
    /\ loop' = "dead"
    /\ UNCHANGED <<holder, active, pc, ctxVars, hookVars>>

\* run_on_finished takes the mutex and calls the hook: it sets no active_ctx
\* and runs no deferred functions.
Finishing ==
    /\ loop = "joined"
    /\ holder = Nobody
    /\ loop' = "finishing"
    /\ holder' = Loop
    /\ UNCHANGED <<active, pc, ctxVars, hookVars>>

Finished ==
    /\ loop = "finishing"
    /\ loop' = "cycle"
    /\ holder' = Nobody
    /\ UNCHANGED <<active, pc, ctxVars, hookVars>>
-----------------------------------------------------------------------------
HookStep(w) == Return(w) \/ Swap(w) \/ RunLast(w) \/ Done(w)

Next ==
    \/ \E w \in Workers :
           \/ NewContext(w) \/ Ask(w) \/ Enter(w) \/ EnterFails(w)
           \/ Defer(w) \/ HookStep(w) \/ Cleanup(w) \/ Panic(w)
    \/ Join \/ JoinPanicked \/ Finishing \/ Finished

Spec == Init /\ [][Next]_vars

\* Hooks return in the end, and do not defer for ever (MaxDefers).  The mutex
\* is fair to whoever has waited for half a millisecond: strong fairness.
Fairness ==
    /\ \A w \in Workers : WF_vars(HookStep(w))
    /\ \A w \in Workers : SF_vars(Enter(w) \/ EnterFails(w))
    /\ WF_vars(Finished)

FairSpec == Spec /\ Fairness
-----------------------------------------------------------------------------
(***************************************************************************)
(* A hook, and each function it defers, runs alone in the VM and with its  *)
(* own worker's context in active_ctx: defer() never reaches another       *)
(* worker's queue (stages.rs:72-82, system.rs:310).  on_finished has no    *)
(* context at all: the last one is cleaned up, so that defer() fails there *)
(* and never adds to a queue that nobody runs.                             *)
(***************************************************************************)
ContextMatches ==
    /\ \A w \in Workers : pc[w] \in {"call", "defers"} =>
           holder = w /\ active = Context(w) /\ live[w]
    /\ holder = Loop /\ active # <<>> => ~live[active[1]]

Reversed(s, n) ==
    \A i, j \in DOMAIN s : i < j /\ s[i] <= n /\ s[j] <= n => s[i] > s[j]

(***************************************************************************)
(* lifecycle.md:78-84: when a hook is over, by return or by error, each    *)
(* function deferred during it has run once, also those that deferred      *)
(* functions added, and those of the hook itself in reverse order.         *)
(***************************************************************************)
DeferredRunOnce ==
    [][\A w \in Workers :
          pc[w] \in {"call", "defers"} /\ pc'[w] = "run" =>
              /\ Len(ran[w]) = made[w]
              /\ {ran[w][i] : i \in DOMAIN ran[w]} = 1..made[w]
              /\ Reversed(ran[w], own[w])]_vars

(***************************************************************************)
(* A worker that waits for the VM gets it, although others hold it across  *)
(* awaits, fail or panic.                                                  *)
(***************************************************************************)
VmIsShared == \A w \in Workers : pc[w] = "wait" ~> pc[w] # "wait"
=============================================================================
