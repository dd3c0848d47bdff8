----------------------------- MODULE IoService -----------------------------
(***************************************************************************)
(* services/io.rs: file writes go through a bounded channel to a worker    *)
(* thread that answers each of them.  The worker ends after two idle       *)
(* minutes and is started again by the next caller, under a RwLock; the    *)
(* callers themselves send and wait outside the lock.                      *)
(*                                                                         *)
(* A channel and its worker thread are started together and have one       *)
(* number.  Dropping a channel's receiver closes it but keeps what it      *)
(* holds: that is only dropped with the last sender, and a caller keeps    *)
(* its own sender while it waits for the answer.                           *)
(***************************************************************************)
EXTENDS Naturals, Sequences, FiniteSets

CONSTANTS
    Callers,    \* calls of send_task, each with one IoTask
    Capacity    \* of a channel (128)

ASSUME CapacityAssumption == Capacity \in Nat \ {0}
ASSUME CallersAssumption == IsFiniteSet(Callers)

\* A call starts at most two workers: in ensure_sender, and after its send
\* failed.
Chans == 1..(2 * Cardinality(Callers))

VARIABLES
    started,    \* workers started so far
    sender,     \* IoService.sender, 0 for None
    worker,     \* IoService.worker, the handle to join, 0 for None
    queue,      \* the tasks in each channel
    closed,     \* the channel is closed
    wpc,        \* where each worker is
    current,    \* the task each worker has taken, as a set
    cpc,        \* where each caller is
    chan,       \* the sender each caller has cloned
    written,    \* history: how often each task was handled
    replied,    \* the task's reply is sent
    down        \* shutdown(): it holds the write lock while it joins

svcVars == <<started, sender, worker>>
workerVars == <<wpc, current>>
vars == <<started, sender, worker, queue, closed, wpc, current, cpc, chan,
          written, replied, down>>

TypeOK ==
    /\ started \in 0..Cardinality(Chans)
    /\ sender \in {0} \cup Chans
    /\ worker \in {0} \cup Chans
    /\ \A k \in Chans : queue[k] \in Seq(Callers) /\ Len(queue[k]) <= Capacity
    /\ closed \in [Chans -> BOOLEAN]
    /\ wpc \in [Chans -> {"none", "waiting", "handling", "draining", "leaving", "gone"}]
    /\ \A k \in Chans : current[k] \subseteq Callers /\ Cardinality(current[k]) <= 1
    /\ cpc \in [Callers -> {"idle", "ensure", "start", "send", "retry",
                            "resend", "wait", "late", "answered", "failed"}]
    /\ chan \in [Callers -> {0} \cup Chans]
    /\ written \in [Callers -> Nat]
    /\ replied \in [Callers -> BOOLEAN]
    /\ down \in {"up", "joining", "done"}

Init ==
    /\ started = 0 /\ sender = 0 /\ worker = 0
    /\ queue = [k \in Chans |-> <<>>]
    /\ closed = [k \in Chans |-> FALSE]
    /\ wpc = [k \in Chans |-> "none"]
    /\ current = [k \in Chans |-> {}]
    /\ cpc = [c \in Callers |-> "idle"]
    /\ chan = [c \in Callers |-> 0]
    /\ written = [c \in Callers |-> 0]
    /\ replied = [c \in Callers |-> FALSE]
    /\ down = "up"

Unlocked == down # "joining"

ValidSender == sender # 0 /\ ~closed[sender]

Goes(c, from, to) == cpc[c] = from /\ cpc' = [cpc EXCEPT ![c] = to]

\* IoService::start: the previous sender is dropped, and so is the previous
\* worker's handle, which detaches that thread.
StartFor(c) ==
    /\ started' = started + 1
    /\ sender' = started + 1
    /\ worker' = started + 1
    /\ wpc' = [wpc EXCEPT ![started + 1] = "waiting"]
    /\ chan' = [chan EXCEPT ![c] = started + 1]

-----------------------------------------------------------------------------
(* send_task.                                                               *)

Call(c) ==
    /\ Goes(c, "idle", "ensure")
    /\ UNCHANGED <<svcVars, queue, closed, workerVars, chan, written, replied, down>>

\* ensure_sender under the read lock: clone the sender unless it is closed.
Ensure(c) ==
    /\ Unlocked
    /\ IF ValidSender
       THEN Goes(c, "ensure", "send") /\ chan' = [chan EXCEPT ![c] = sender]
       ELSE Goes(c, "ensure", "start") /\ UNCHANGED chan
    /\ UNCHANGED <<svcVars, queue, closed, workerVars, written, replied, down>>

\* ensure_sender under the write lock: look again, then start a worker.
EnsureStart(c) ==
    /\ Unlocked
    /\ Goes(c, "start", "send")
    /\ IF ValidSender
       THEN chan' = [chan EXCEPT ![c] = sender] /\ UNCHANGED <<svcVars, wpc>>
       ELSE StartFor(c)
    /\ UNCHANGED <<queue, closed, current, written, replied, down>>

\* The task is accepted and its caller waits for the answer.  A "late" caller
\* waits like any other; the state remembers, for the properties, that the
\* worker had left its loop when the task came.
Accepted(c) ==
    cpc' = [cpc EXCEPT ![c] = IF wpc[chan[c]] = "leaving" THEN "late" ELSE "wait"]

\* Mutant: the channel is unbounded.
EnqueueUnbounded(c) ==
    /\ ~closed[chan[c]]
    /\ queue' = [queue EXCEPT ![chan[c]] = Append(@, c)]
    /\ Accepted(c)

\* sender.send waits for room.
Enqueue(c) ==
    /\ ~closed[chan[c]]
    /\ Len(queue[chan[c]]) < Capacity
    /\ queue' = [queue EXCEPT ![chan[c]] = Append(@, c)]
    /\ Accepted(c)

Send(c) ==
    /\ cpc[c] = "send"
    /\ Enqueue(c)
    /\ UNCHANGED <<svcVars, closed, workerVars, chan, written, replied, down>>

\* The channel was closed in the meantime: send gives the task back.
SendFails(c) ==
    /\ Goes(c, "send", "retry")
    /\ closed[chan[c]]
    /\ UNCHANGED <<svcVars, queue, closed, workerVars, chan, written, replied, down>>

\* Another worker is started, even if another caller just did.
Restart(c) ==
    /\ Unlocked
    /\ Goes(c, "retry", "resend")
    /\ StartFor(c)
    /\ UNCHANGED <<queue, closed, current, written, replied, down>>

Resend(c) ==
    /\ cpc[c] = "resend"
    /\ Enqueue(c)
    /\ UNCHANGED <<svcVars, closed, workerVars, chan, written, replied, down>>

\* "IO worker channel closed"
ResendFails(c) ==
    /\ Goes(c, "resend", "failed")
    /\ closed[chan[c]]
    /\ UNCHANGED <<svcVars, queue, closed, workerVars, chan, written, replied, down>>

Answered(c) ==
    /\ replied[c]
    /\ Goes(c, "wait", "answered")
    /\ UNCHANGED <<svcVars, queue, closed, workerVars, chan, written, replied, down>>

-----------------------------------------------------------------------------
(* worker_main of channel k.                                                *)

Moves(k, from, to) == wpc[k] = from /\ wpc' = [wpc EXCEPT ![k] = to]

Take(k) ==
    /\ queue[k] # <<>>
    /\ queue' = [queue EXCEPT ![k] = Tail(@)]
    /\ current' = [current EXCEPT ![k] = {Head(queue[k])}]

\* recv, before the timer in `or`.  A closed channel is read to its end.
Receive(k) ==
    /\ Moves(k, "waiting", "handling")
    /\ Take(k)
    /\ UNCHANGED <<svcVars, closed, cpc, chan, written, replied, down>>

\* Mutant: a worker whose channel is closed quits without reading it out.
LeaveOnClose(k) ==
    /\ queue[k] = <<>> \/ closed[k]
    /\ Moves(k, "waiting", "leaving")
    /\ UNCHANGED <<svcVars, queue, closed, current, cpc, chan, written, replied, down>>

\* Nothing received when the timer fires, or the channel closed and empty:
\* the worker leaves its loop, and its receiver lives until GoneAway.
Leave(k) ==
    /\ queue[k] = <<>>
    /\ Moves(k, "waiting", "leaving")
    /\ UNCHANGED <<svcVars, queue, closed, current, cpc, chan, written, replied, down>>

\* Mutant: the task is answered before it is handled.
HandleLater(k) ==
    /\ Moves(k, "handling", "draining")
    /\ replied' = [c \in Callers |-> replied[c] \/ c \in current[k]]
    /\ current' = [current EXCEPT ![k] = {}]
    /\ UNCHANGED <<svcVars, queue, closed, cpc, chan, written, down>>

\* handle_task, then the answer, whose channel always has room.
Handle(k) ==
    /\ Moves(k, "handling", "draining")
    /\ written' = [c \in Callers |-> IF c \in current[k] THEN written[c] + 1 ELSE written[c]]
    /\ replied' = [c \in Callers |-> replied[c] \/ c \in current[k]]
    /\ current' = [current EXCEPT ![k] = {}]
    /\ UNCHANGED <<svcVars, queue, closed, cpc, chan, down>>

\* try_recv until the channel is empty.
TakeNext(k) ==
    /\ Moves(k, "draining", "handling")
    /\ Take(k)
    /\ UNCHANGED <<svcVars, closed, cpc, chan, written, replied, down>>

Drained(k) ==
    /\ queue[k] = <<>>
    /\ Moves(k, "draining", "waiting")
    /\ UNCHANGED <<svcVars, queue, closed, current, cpc, chan, written, replied, down>>

\* Mutant: the service keeps a receiver too, so the channel stays open.
GoneAwayOpen(k) ==
    /\ Moves(k, "leaving", "gone")
    /\ UNCHANGED <<svcVars, queue, closed, current, cpc, chan, written, replied, down>>

\* The thread ends and drops the only receiver, which closes the channel.
GoneAway(k) ==
    /\ Moves(k, "leaving", "gone")
    /\ closed' = [closed EXCEPT ![k] = TRUE]
    /\ UNCHANGED <<svcVars, queue, current, cpc, chan, written, replied, down>>

-----------------------------------------------------------------------------
(* shutdown, once, at the end of the process.                               *)

ShutdownCloses ==
    /\ down = "up"
    /\ down' = "joining"
    /\ closed' = [k \in Chans |-> closed[k] \/ k = sender]
    /\ sender' = 0
    /\ UNCHANGED <<started, worker, queue, workerVars, cpc, chan, written, replied>>

ShutdownJoins ==
    /\ down = "joining"
    /\ worker \in {0} \cup {k \in Chans : wpc[k] = "gone"}
    /\ worker' = 0
    /\ down' = "done"
    /\ UNCHANGED <<started, sender, queue, closed, workerVars, cpc, chan, written,
                   replied>>
-----------------------------------------------------------------------------
CallerStep(c) ==
    \/ Ensure(c) \/ EnsureStart(c) \/ Send(c) \/ SendFails(c)
    \/ Restart(c) \/ Resend(c) \/ ResendFails(c) \/ Answered(c)

WorkerStep(k) ==
    \/ Receive(k) \/ Leave(k) \/ Handle(k) \/ TakeNext(k) \/ Drained(k) \/ GoneAway(k)

Next ==
    \/ \E c \in Callers : Call(c) \/ CallerStep(c)
    \/ \E k \in Chans : WorkerStep(k)
    \/ ShutdownCloses \/ ShutdownJoins

Spec == Init /\ [][Next]_vars

\* Threads run.  Nobody has to call, and an idle worker need not leave ...
Fairness ==
    /\ \A c \in Callers : WF_vars(CallerStep(c))
    /\ \A k \in Chans :
           WF_vars(Receive(k) \/ Handle(k) \/ TakeNext(k) \/ Drained(k) \/ GoneAway(k))
    \* ... except that its timer fires in the end, and shutdown waits for it.
    /\ \A k \in Chans : WF_vars(Leave(k))
    /\ WF_vars(ShutdownJoins)

FairSpec == Spec /\ Fairness
-----------------------------------------------------------------------------
(***************************************************************************)
(* A task is written at most once, although a failed send is retried on    *)
(* another channel; a caller is answered only after its task was handled.  *)
(***************************************************************************)
WrittenOnce ==
    \A c \in Callers :
        /\ written[c] <= 1
        /\ cpc[c] = "answered" => written[c] = 1
        /\ cpc[c] = "failed" => written[c] = 0

(***************************************************************************)
(* shutdown drains: when it returns, every task that the channel it closed *)
(* had accepted is written, but for those that came to a worker which had  *)
(* already left its loop for being idle.                                   *)
(***************************************************************************)
ShutdownDrains ==
    [][down = "joining" /\ down' = "done" =>
          \A c \in Callers : cpc[c] = "wait" /\ chan[c] = worker => written[c] = 1]_vars

(***************************************************************************)
(* Callers wait for ever only when they came late: neither a full channel, *)
(* nor a worker leaving, nor shutdown's lock keeps one waiting.            *)
(***************************************************************************)
AnsweredOrStranded ==
    \A c \in Callers : cpc[c] = "ensure" ~> cpc[c] \in {"answered", "failed", "late"}

(***************************************************************************)
(* io.rs:143-145: a task the worker does not handle is answered with "IO   *)
(* worker dropped reply channel".                                          *)
(***************************************************************************)
CallersAnswered ==
    \A c \in Callers : cpc[c] \in {"wait", "late"} ~> cpc[c] \in {"answered", "failed"}
=============================================================================
